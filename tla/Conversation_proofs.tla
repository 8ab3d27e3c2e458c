------------------------- MODULE Conversation_proofs -------------------------
(***************************************************************************)
(* What conversations, tickets, customers and the ledger around them       *)
(* promise for any ids, sessions, requests and bounds: types, what events  *)
(* tell, that message numbers stay, which transactions can deadlock, whom  *)
(* a case is with, and that a request takes effect once.                   *)
(***************************************************************************)
EXTENDS Idempotency_proofs, FiniteSetTheorems, SequenceTheorems, WellFoundedInduction

-----------------------------------------------------------------------------
(* What steps do to conversations, locks and customers *)

\* A transaction is opened; it has locked nothing yet.
Opens(s) ==
  /\ \/ BeginOperation(s) \/ BeginWake(s) \/ BeginTell(s)
     \/ \E r \in Requests : r.kind = "post" /\ BeginPost(s, r)
     \/ \E r \in Requests : r.kind = "start" /\ BeginStart(s, r)
  /\ UNCHANGED <<store, tells, workload>>

\* It ends with its effects, or without.
Ends(s) == CanCommit(s) /\ Effects(s) /\ Close(s)
Undone(s) == Close(s) /\ tells' = [tells EXCEPT ![s] = {}] /\ UNCHANGED store

Quiet == UNCHANGED <<store, locks, tells>>

LEMMA StepsOfTransactions ==
  ASSUME [Next]_vars, ClaimInv
  PROVE  Quiet \/ \E s \in Sessions : Opens(s) \/ Lock(s) \/ FindCases(s) \/ Ends(s) \/ Undone(s)
<1>1. CASE UNCHANGED vars  BY <1>1 DEF vars, convVars, Quiet
<1>2. ASSUME NEW s \in Sessions, Background(s) \/ Wakes(s) PROVE Opens(s)
  <2>1. CASE BeginTell(s) \/ Wakes(s)
    BY <2>1 DEF Wakes, BeginTell, BeginWake, Opens
  <2>2. CASE BeginOperation(s)
    BY <2>2 DEF BeginOperation, BeginSetState, BeginSnooze, BeginMerge, BeginBulk, BeginLabel,
                BeginTicket, BeginSetCustomer, BeginMergeCustomers, BeginReverse, Begins, Opens
  <2> QED  BY <1>2, <2>1, <2>2 DEF Background
<1>3. ASSUME NEW s \in Sessions, NEW r \in Requests, NEW u, Handle(s, r, u) PROVE Opens(s)
  BY <1>3, RequestAssumption DEF Handle, BeginStart, BeginPost, Opens
<1>4. ASSUME NEW s \in Sessions, NEW r \in Requests, Claim(s, r) \/ ClaimFails(s, r) PROVE Opens(s)
  BY <1>3, <1>4 DEF Claim, ClaimFails
<1>5. ASSUME NEW s \in Sessions, ReadGone(s) PROVE Opens(s)
  BY <1>3, <1>5 DEF ReadGone, ClaimInv, ClaimsInUse
<1>6. ASSUME NEW s \in Sessions,
             \/ \E r \in Requests : Conflict(s, r)
             \/ ReadRefused(s) \/ ReadDone(s) \/ Complete(s) \/ Release(s) \/ LedgerWriteFails(s)
      PROVE  Quiet
  BY <1>6 DEF Conflict, ReadRefused, ReadDone, Complete, Release, LedgerWriteFails, Quiet, convVars
<1>7. ASSUME NEW s \in Sessions, HandlerCommits(s) \/ HandlerCommitsUnheard(s) PROVE Ends(s)
  BY <1>7 DEF HandlerCommits, HandlerCommitsUnheard, Commit, CommitUnheard, Ends
<1>8. ASSUME NEW s \in Sessions, HandlerFails(s) \/ Crash(s) PROVE Undone(s)
  BY <1>8 DEF HandlerFails, Crash, Cancelled, Fail, RollBack, Undone
<1> QED
  BY <1>1, <1>2, <1>4, <1>5, <1>6, <1>7, <1>8 DEF Next, HandlerLocks

-----------------------------------------------------------------------------
(* Rows in an order *)

LEMMA HasLeast ==
  ASSUME NEW S, S \subseteq Nat, S # {}
  PROVE  \E n \in S : \A m \in S : n <= m
<1> DEFINE R == OpToRel(<, Nat)
<1>1. PICK n \in S : \A m \in S : ~(<<m, n>> \in R)
  BY NatLessThanWellFounded, WFMin
<1>2. \A m \in S : ~(m < n)  BY <1>1 DEF OpToRel
<1> QED  BY <1>2

Sorted(q) == \A i, j \in DOMAIN q : i < j => q[i] < q[j]

LEMMA FiniteIds ==
  ASSUME NEW ids, IsFiniteSet(ids)
  PROVE  Cardinality(ids) \in Nat /\ Orders(ids) \subseteq Seq(ids)
<1>1. Cardinality(ids) \in Nat  BY FS_CardinalityType
<1> QED  BY <1>1, SeqDef DEF Orders

\* Every finite set of ids can be sorted: the least first, then the others.  (A
\* smallest set that cannot would lose its least element and be sorted.)
LEMMA SortedExists ==
  ASSUME NEW ids, ids \subseteq Nat, IsFiniteSet(ids)
  PROVE  \E q \in Orders(ids) : Sorted(q)
<1> DEFINE Bad(S) == S \subseteq Nat /\ IsFiniteSet(S) /\ ~\E q \in Orders(S) : Sorted(q)
           Sizes == {n \in Nat : \E S \in SUBSET Nat : Bad(S) /\ Cardinality(S) = n}
<1>1. SUFFICES ASSUME Bad(ids) PROVE FALSE  OBVIOUS
<1>2. Cardinality(ids) \in Sizes  BY <1>1, FiniteIds
<1>3. PICK n \in Sizes : \A m \in Sizes : n <= m
  <2>1. Sizes \subseteq Nat  OBVIOUS
  <2> HIDE DEF Sizes
  <2> QED  BY <1>2, <2>1, HasLeast
<1>4. PICK S \in SUBSET Nat : Bad(S) /\ Cardinality(S) = n  OBVIOUS
<1>5. S # {}
  <2> SUFFICES ASSUME S = {} PROVE FALSE  OBVIOUS
  <2>1. Cardinality(S) = 0  BY FS_EmptySet
  <2>2. [i \in 1..0 |-> i] \in Orders(S) /\ Sorted([i \in 1..0 |-> i])
    BY <2>1 DEF Orders, Sorted
  <2> QED  BY <1>4, <2>2
<1>6. PICK x \in S : \A m \in S : x <= m  BY <1>5, HasLeast
<1>7. /\ IsFiniteSet(S \ {x}) /\ Cardinality(S \ {x}) = n - 1
      /\ Cardinality(S \ {x}) \in Nat
  BY <1>4, FS_RemoveElement, FiniteIds
<1>8. \E q \in Orders(S \ {x}) : Sorted(q)
  <2>1. n - 1 \notin Sizes  BY <1>3
  <2>2. S \ {x} \in SUBSET Nat  OBVIOUS
  <2> QED  BY <1>7, <2>1, <2>2
<1>9. PICK q \in Orders(S \ {x}) : Sorted(q)  BY <1>8
<1>10. /\ q \in [1..(n - 1) -> S \ {x}] /\ n \in Nat
       /\ \A i, j \in 1..(n - 1) : i # j => q[i] # q[j]
       /\ \A i, j \in 1..(n - 1) : i < j => q[i] < q[j]
  BY <1>7, <1>9 DEF Orders, Sorted
<1> DEFINE p == [i \in 1..n |-> IF i = 1 THEN x ELSE q[i - 1]]
<1>11. p \in [1..n -> S]  BY <1>10
<1>12. \A i, j \in 1..n : i < j => p[i] < p[j]
  <2> SUFFICES ASSUME NEW i \in 1..n, NEW j \in 1..n, i < j PROVE p[i] < p[j]  OBVIOUS
  <2>1. j - 1 \in 1..(n - 1) /\ p[j] = q[j - 1] /\ q[j - 1] \in S \ {x}  BY <1>10
  <2>2. CASE i = 1
    <3>1. x < q[j - 1]
      <4>1. x \in Nat /\ q[j - 1] \in Nat /\ x <= q[j - 1] /\ x # q[j - 1]  BY <1>6, <2>1
      <4> QED  BY <4>1
    <3> QED  BY <2>1, <2>2, <3>1
  <2>3. CASE i # 1
    <3>1. i - 1 \in 1..(n - 1) /\ p[i] = q[i - 1] /\ i - 1 < j - 1  BY <1>10, <2>3
    <3> QED  BY <1>10, <2>1, <3>1
  <2> QED  BY <2>2, <2>3
<1>13. p \in Orders(S) /\ Sorted(p)
  <2>1. DOMAIN p = 1..n  OBVIOUS
  <2> HIDE DEF p
  <2>2. \A i, j \in 1..n : i # j => p[i] # p[j]
    <3> SUFFICES ASSUME NEW i \in 1..n, NEW j \in 1..n, i # j PROVE p[i] # p[j]  OBVIOUS
    <3>1. p[i] \in Nat /\ p[j] \in Nat  BY <1>11
    <3>2. i < j \/ j < i  BY <1>10
    <3> QED  BY <1>12, <3>1, <3>2
  <2> QED  BY <1>4, <1>11, <1>12, <2>1, <2>2 DEF Orders, Sorted
<1> HIDE DEF p
<1> QED  BY <1>4, <1>13

LEMMA AscendingIsSorted ==
  ASSUME NEW ids, ids \subseteq Nat, IsFiniteSet(ids)
  PROVE  Ascending(ids) \in Orders(ids) /\ Sorted(Ascending(ids))
BY SortedExists DEF Ascending, Sorted

\* Two ids: the smaller, then the other.
LEMMA AscendingPair ==
  ASSUME NEW a \in Nat, NEW b \in Nat, a < b
  PROVE  Ascending({a, b}) = <<a, b>>
<1> DEFINE q == Ascending({a, b})
<1>1. IsFiniteSet({a, b}) /\ Cardinality({a, b}) = 2
  <2>1. IsFiniteSet({a}) /\ Cardinality({a}) = 1  BY FS_Singleton
  <2>2. {a, b} = {a} \cup {b} /\ b \notin {a}  OBVIOUS
  <2> QED  BY <2>1, <2>2, FS_AddElement
<1>2. q \in Orders({a, b}) /\ Sorted(q)  BY <1>1, AscendingIsSorted
<1> HIDE DEF q
<1>3. q \in [1..2 -> {a, b}] /\ q[1] < q[2]
  BY <1>1, <1>2 DEF Orders, Sorted
<1>4. q[1] = a /\ q[2] = b
  <2>1. q[1] \in {a, b} /\ q[2] \in {a, b}  BY <1>3
  <2> QED  BY <1>3, <2>1
<1> DEFINE r == <<a, b>>
<1>5. r \in [1..2 -> {a, b}] /\ r[1] = a /\ r[2] = b  OBVIOUS
<1> HIDE DEF r
<1>6. q = r  BY <1>3, <1>4, <1>5
<1> QED  BY <1>6 DEF q, r

-----------------------------------------------------------------------------
(* Types *)

\* The rows that operations name; the counter's is none of them.
Named == Rows \ {Counter}

States == Targets \cup {"absent", "new", "open", "closed", "snoozed"}
Record == [winner : Customers, loser : Customers, cases : SUBSET Cases, reversed : BOOLEAN]

SessionsTyped ==
  /\ tx \in [Sessions -> Operations \cup {None}]
  /\ todo \in [Sessions -> Seq(Named)]
  /\ held \in [Sessions -> SUBSET Rows]
  /\ tells \in [Sessions -> SUBSET Conversations]
  /\ \A s \in Sessions : tx[s] = None => todo[s] = <<>> /\ held[s] = {}

StoreTyped ==
  /\ state \in [Conversations -> States] /\ told \in [Conversations -> States]
  /\ thread \in [Conversations -> Seq(Requests)]
  /\ customers \subseteq Customers
  /\ owner \in [Cases -> Customers \cup {None}] /\ given \in [Cases -> Customers \cup {None}]
  /\ merges \in Seq(Record)

\* A reversal works on the list of a record that is there.
Recorded ==
  \A s \in Sessions : tx[s] # None /\ tx[s].kind = "reverse" =>
    tx[s].record \in 1..Len(merges) /\ tx[s].cases = merges[tx[s].record].cases

Typed == SessionsTyped /\ StoreTyped /\ Recorded

\* The fields of an operation, by its kind.
LEMMA Fields ==
  ASSUME NEW t \in Operations
  PROVE  /\ t # None
         /\ t.kind \in {"post", "start", "state", "snooze", "tell", "merge", "bulk", "label", "wake", "setCustomer",
                       "clearCustomer", "findCases", "mergeCustomers", "reverse"}
         /\ t.kind \in {"post", "start", "state", "snooze", "tell"} => t.conv \in Conversations
         /\ t.kind \in {"post", "start"} => t.req \in Requests /\ t.req.kind = t.kind
         /\ t.kind = "state" => t.to \in Targets
         /\ t.kind = "bulk" => t.to \in Targets \cup {None}
         /\ t.kind = "merge" => t.source \in Conversations /\ t.target \in Conversations
         /\ t.kind = "setCustomer" => t.case \in Tickets /\ t.to \in Customers
         /\ t.kind = "clearCustomer" => t.case \in Tickets
         /\ t.kind \in {"findCases", "mergeCustomers"} => t.winner \in Customers /\ t.loser \in Customers
         /\ t.kind \in {"mergeCustomers", "reverse"} => t.cases \subseteq Cases
         /\ t.kind = "reverse" => t.record \in Nat \ {0}
BY NoneAssumption DEF Operations

\* The operations that are begun.
LEMMA BegunAre ==
  /\ \A r \in Requests, c \in Conversations :
        /\ r.kind = "post" => [kind |-> "post", req |-> r, conv |-> c] \in Operations
        /\ r.kind = "start" => [kind |-> "start", req |-> r, conv |-> c] \in Operations
  /\ \A c \in Conversations, to \in Targets : [kind |-> "state", conv |-> c, to |-> to] \in Operations
  /\ \A c \in Conversations : /\ [kind |-> "snooze", conv |-> c] \in Operations
                              /\ [kind |-> "tell", conv |-> c] \in Operations
  /\ \A a, b \in Conversations : [kind |-> "merge", source |-> a, target |-> b] \in Operations
  /\ \A to \in Targets \cup {None} : [kind |-> "bulk", to |-> to] \in Operations
  /\ [kind |-> "label"] \in Operations /\ [kind |-> "wake"] \in Operations
  /\ \A t \in Tickets, a \in Customers : [kind |-> "setCustomer", case |-> t, to |-> a] \in Operations
  /\ \A t \in Tickets : [kind |-> "clearCustomer", case |-> t] \in Operations
  /\ \A a, b \in Customers : [kind |-> "findCases", winner |-> a, loser |-> b] \in Operations
  /\ \A a, b \in Customers : \A C \in SUBSET Cases :
        [kind |-> "mergeCustomers", winner |-> a, loser |-> b, cases |-> C] \in Operations
  /\ \A i \in Nat \ {0} : \A C \in SUBSET Cases :
        [kind |-> "reverse", record |-> i, cases |-> C] \in Operations
BY DEF Operations

LEMMA FiniteCases ==
  ASSUME NEW S, S \subseteq Cases
  PROVE  IsFiniteSet(S) /\ Orders(S) \subseteq Seq(S) /\ Orders(S) \subseteq Seq(Named)
<1>1. IsFiniteSet(S)  BY CustomerAssumption, FS_Subset
<1>2. Orders(S) \subseteq Seq(S)  BY <1>1, FiniteIds
<1>3. S \subseteq Named  BY ConversationAssumption DEF Named, Rows
<1> QED  BY <1>1, <1>2, <1>3, SeqMonotonic

LEMMA RowsAre ==
  /\ \A a \in Customers : a \in Named /\ Share(a) \in Named
  /\ \A c \in Cases : c \in Named
  /\ Counter \in Rows /\ Team \in Named /\ Named \subseteq Rows
  /\ Conversations \subseteq Cases /\ Tickets \subseteq Cases
BY ConversationAssumption DEF Rows, Named, Share

\* Opening a transaction, over rows that are there.
LEMMA BeginTyped ==
  ASSUME SessionsTyped, NEW s \in Sessions, NEW t \in Operations, NEW rows \in Seq(Named),
         Begin(s, t, rows), UNCHANGED tells
  PROVE  SessionsTyped' /\ tx'[s] = t /\ \A u \in Sessions \ {s} : tx'[u] = tx[u]
BY Fields DEF SessionsTyped, Begin

LEMMA OpensTyped ==
  ASSUME Typed, NEW s \in Sessions, Opens(s)
  PROVE  Typed' /\ tx'[s] \in Operations
<1>0. SessionsTyped /\ StoreTyped /\ Recorded /\ UNCHANGED <<store, tells>>
  BY DEF Typed, Opens
<1>1. ASSUME NEW t \in Operations, NEW rows \in Seq(Named), Begin(s, t, rows),
             t.kind = "reverse" => t.record \in 1..Len(merges) /\ t.cases = merges[t.record].cases
      PROVE  Typed' /\ tx'[s] \in Operations
  <2>1. SessionsTyped' /\ tx'[s] = t /\ \A u \in Sessions \ {s} : tx'[u] = tx[u]
    BY <1>0, <1>1, BeginTyped
  <2>2. StoreTyped'  BY <1>0 DEF StoreTyped, store, crm
  <2>3. Recorded'  BY <1>0, <1>1, <2>1 DEF Recorded, store, crm
  <2> QED  BY <2>1, <2>2, <2>3 DEF Typed
<1>2. \A c \in Conversations : <<c>> \in Seq(Named)  BY RowsAre
<1>3. CASE BeginSetState(s) \/ BeginSnooze(s) \/ BeginLabel(s)
  <2>1. PICK c \in Conversations : \/ \E to \in Targets : Begin(s, [kind |-> "state", conv |-> c, to |-> to], <<c>>)
                                   \/ Begin(s, [kind |-> "snooze", conv |-> c], <<c>>)
                                   \/ Begin(s, [kind |-> "label"], <<c>>)
    BY <1>3 DEF BeginSetState, BeginSnooze, BeginLabel, Present
  <2> QED  BY <1>1, <1>2, <2>1, BegunAre
<1>4. CASE BeginTicket(s)
  <2>1. PICK t \in Tickets : Begin(s, [kind |-> "label"], <<t>>)  BY <1>4 DEF BeginTicket
  <2>2. <<t>> \in Seq(Named)  BY RowsAre
  <2> QED  BY <1>1, <2>1, <2>2, BegunAre
<1>5. CASE BeginMerge(s)
  <2>1. PICK a \in Conversations, b \in Conversations :
          Begin(s, [kind |-> "merge", source |-> a, target |-> b], MergeRows(a, b))
    BY <1>5 DEF BeginMerge, Present
  <2>2. MergeRows(a, b) \in Seq(Named)  BY RowsAre DEF MergeRows
  <2> QED  BY <1>1, <2>1, <2>2, BegunAre
<1>6. CASE BeginBulk(s)
  <2>1. PICK to \in Targets \cup {None}, ids \in SUBSET Conversations :
          Begin(s, [kind |-> "bulk", to |-> to], Ascending(ids))
    BY <1>6 DEF BeginBulk, Present
  <2>2. Ascending(ids) \in Seq(Named)
    <3>1. ids \subseteq Cases /\ ids \subseteq Nat  BY ConversationAssumption
    <3> QED  BY <3>1, FiniteCases, AscendingIsSorted
  <2> QED  BY <1>1, <2>1, <2>2, BegunAre
<1>7. CASE BeginSetCustomer(s)
  <2>1. CASE \E t \in Tickets, a \in customers :
               Begin(s, [kind |-> "setCustomer", case |-> t, to |-> a], <<t, Share(a)>>)
    <3>1. PICK t \in Tickets, a \in Customers :
            Begin(s, [kind |-> "setCustomer", case |-> t, to |-> a], <<t, Share(a)>>)
      BY <1>0, <2>1 DEF StoreTyped
    <3>2. <<t, Share(a)>> \in Seq(Named)  BY RowsAre
    <3> QED  BY <1>1, <3>1, <3>2, BegunAre
  <2>2. CASE \E t \in Tickets : Begin(s, [kind |-> "clearCustomer", case |-> t], <<t>>)
    <3>1. PICK t \in Tickets : Begin(s, [kind |-> "clearCustomer", case |-> t], <<t>>)  BY <2>2
    <3>2. <<t>> \in Seq(Named)  BY RowsAre
    <3> QED  BY <1>1, <3>1, <3>2, BegunAre
  <2> QED  BY <1>7, <2>1, <2>2 DEF BeginSetCustomer
<1>8. CASE BeginMergeCustomers(s)
  <2>1. PICK a \in Customers, b \in Customers :
          Begin(s, [kind |-> "findCases", winner |-> a, loser |-> b], Ascending({a, b}))
    BY <1>0, <1>8 DEF BeginMergeCustomers, StoreTyped
  <2>2. Ascending({a, b}) \in Seq(Named)
    <3>1. IsFiniteSet({a, b})
      <4>1. IsFiniteSet({a}) /\ {a, b} = {a} \cup {b}  BY FS_Singleton
      <4> QED  BY <4>1, FS_AddElement
    <3>2. {a, b} \subseteq Nat /\ {a, b} \subseteq Named  BY RowsAre, ConversationAssumption
    <3>3. Ascending({a, b}) \in Seq({a, b})  BY <3>1, <3>2, AscendingIsSorted, FiniteIds
    <3> QED  BY <3>2, <3>3, SeqMonotonic
  <2> QED  BY <1>1, <2>1, <2>2, BegunAre
<1>9. CASE BeginReverse(s)
  <2>1. PICK i \in 1..Len(merges) :
          LET m == merges[i] IN
          \E convs \in Orders(m.cases \cap Conversations), tickets \in Orders(m.cases \cap Tickets) :
            Begin(s, [kind |-> "reverse", record |-> i, cases |-> m.cases], <<m.loser>> \o convs \o tickets)
    <3>1. DOMAIN merges = 1..Len(merges)  BY <1>0, LenProperties DEF StoreTyped
    <3> QED  BY <1>9, <3>1 DEF BeginReverse
  <2>2. merges[i] \in Record  BY <1>0 DEF StoreTyped
  <2>3. merges[i].loser \in Customers /\ merges[i].cases \subseteq Cases  BY <2>2 DEF Record
  <2>4. PICK convs \in Orders(merges[i].cases \cap Conversations), tickets \in Orders(merges[i].cases \cap Tickets) :
          Begin(s, [kind |-> "reverse", record |-> i, cases |-> merges[i].cases], <<merges[i].loser>> \o convs \o tickets)
    BY <2>1
  <2>5. <<merges[i].loser>> \o convs \o tickets \in Seq(Named)
    <3>1. convs \in Seq(Named) /\ tickets \in Seq(Named)  BY <2>3, FiniteCases
    <3>2. <<merges[i].loser>> \in Seq(Named)  BY <2>3, RowsAre
    <3> QED  BY <3>1, <3>2, ConcatProperties
  <2> DEFINE t == [kind |-> "reverse", record |-> i, cases |-> merges[i].cases]
  <2>6. i \in Nat \ {0}  BY <1>0 DEF StoreTyped
  <2>7. t \in Operations /\ t.record = i /\ t.cases = merges[i].cases  BY <2>3, <2>6, BegunAre
  <2> HIDE DEF t
  <2> QED  BY <1>1, <2>4, <2>5, <2>7 DEF t
<1>10. CASE BeginWake(s)
  <2>1. PICK passed \in SUBSET Snoozed : \E rows \in Orders(passed) : Begin(s, [kind |-> "wake"], rows)
    BY <1>10 DEF BeginWake
  <2>2. passed \subseteq Cases  BY RowsAre DEF Snoozed
  <2>3. Orders(passed) \subseteq Seq(Named)  BY <2>2, FiniteCases
  <2> QED  BY <1>1, <2>1, <2>3, BegunAre
<1>11. CASE BeginTell(s)
  <2>1. PICK c \in Conversations : Begin(s, [kind |-> "tell", conv |-> c], <<c>>)
    BY <1>0, <1>11 DEF BeginTell, SessionsTyped
  <2> QED  BY <1>1, <1>2, <2>1, BegunAre
<1>12. ASSUME NEW r \in Requests,
              \/ r.kind = "post" /\ BeginPost(s, r)
              \/ r.kind = "start" /\ BeginStart(s, r)
       PROVE  Typed' /\ tx'[s] \in Operations
  <2>1. CASE r.kind = "post" /\ BeginPost(s, r)
    <3>1. r.conv \in Conversations  BY <2>1 DEF BeginPost, Present
    <3> QED  BY <1>1, <1>2, <2>1, <3>1, BegunAre DEF BeginPost
  <2>2. CASE r.kind = "start" /\ BeginStart(s, r)
    <3>1. PICK c \in Conversations :
            Begin(s, [kind |-> "start", req |-> r, conv |-> c], <<Share(r.customer), Team>>)
      BY <2>2 DEF BeginStart
    <3>2. <<Share(r.customer), Team>> \in Seq(Named)  BY <2>2, RowsAre, RequestAssumption
    <3> QED  BY <1>1, <2>2, <3>1, <3>2, BegunAre
  <2> QED  BY <1>12, <2>1, <2>2
<1> QED
  BY <1>3, <1>4, <1>5, <1>6, <1>7, <1>8, <1>9, <1>10, <1>11, <1>12 DEF Opens, BeginOperation

\* A row is locked, or a merge finds its cases.
LEMMA LocksTyped ==
  ASSUME Typed, NEW s \in Sessions, Lock(s) \/ FindCases(s)
  PROVE  Typed'
<1>0. SessionsTyped /\ StoreTyped /\ Recorded  BY DEF Typed
<1>1. CASE Lock(s)
  <2>1. todo[s] \in Seq(Named) /\ todo[s] # <<>>  BY <1>0, <1>1 DEF SessionsTyped, Lock
  <2>2. Head(todo[s]) \in Named /\ Tail(todo[s]) \in Seq(Named)  BY <2>1, HeadTailProperties
  <2>3. Wants(s) \subseteq Rows  BY <2>2, RowsAre DEF Wants
  <2>4. SessionsTyped'
    <3>1. UNCHANGED <<tx, tells>> /\ tx[s] # None  BY <1>1 DEF Lock
    <3>2. held' = [held EXCEPT ![s] = @ \cup Wants(s)]  BY <1>1 DEF Lock
    <3>3. todo' = todo \/ todo' = [todo EXCEPT ![s] = Tail(@)]  BY <1>1 DEF Lock
    <3> QED  BY <1>0, <2>2, <2>3, <3>1, <3>2, <3>3 DEF SessionsTyped
  <2>5. UNCHANGED store /\ tx' = tx  BY <1>1 DEF Lock
  <2>6. StoreTyped' /\ Recorded'  BY <1>0, <2>5 DEF StoreTyped, Recorded, store, crm
  <2> QED  BY <2>4, <2>6 DEF Typed
<1>2. CASE FindCases(s)
  <2> DEFINE cases == OwnedBy(tx[s].loser)
             t == [kind |-> "mergeCustomers", winner |-> tx[s].winner, loser |-> tx[s].loser, cases |-> cases]
  <2>1. tx[s] \in Operations /\ tx[s].kind = "findCases"  BY <1>0, <1>2 DEF SessionsTyped, FindCases
  <2>2. cases \in SUBSET Cases  BY DEF OwnedBy
  <2>3. t \in Operations /\ t.kind = "mergeCustomers" /\ t # None
    <3>1. tx[s].winner \in Customers /\ tx[s].loser \in Customers  BY <2>1, Fields
    <3>2. t \in Operations  BY <2>2, <3>1, BegunAre
    <3> QED  BY <3>2, Fields
  <2>4. PICK convs \in Orders(cases \cap Conversations), tickets \in Orders(cases \cap Tickets) :
          todo' = [todo EXCEPT ![s] = convs \o tickets]
    BY <1>2 DEF FindCases
  <2>5. convs \o tickets \in Seq(Named)
    <3>1. convs \in Seq(Named) /\ tickets \in Seq(Named)  BY <2>2, FiniteCases
    <3> QED  BY <3>1, ConcatProperties
  <2>6. tx' = [tx EXCEPT ![s] = t] /\ UNCHANGED <<held, tells, store>>  BY <1>2 DEF FindCases
  <2> HIDE DEF t
  <2>7. SessionsTyped'  BY <1>0, <2>3, <2>4, <2>5, <2>6 DEF SessionsTyped
  <2>8. StoreTyped' /\ Recorded'
    BY <1>0, <2>3, <2>6 DEF StoreTyped, Recorded, SessionsTyped, store, crm
  <2> QED  BY <2>7, <2>8 DEF Typed
<1> QED  BY <1>1, <1>2

\* The session's side of an end.
LEMMA CloseTyped ==
  ASSUME SessionsTyped, NEW s \in Sessions, Close(s), tells' \in [Sessions -> SUBSET Conversations]
  PROVE  /\ SessionsTyped' /\ tx'[s] = None /\ held'[s] = {}
         /\ \A u \in Sessions \ {s} : tx'[u] = tx[u] /\ todo'[u] = todo[u] /\ held'[u] = held[u]
<1>1. <<>> \in Seq(Named)  OBVIOUS
<1> QED  BY <1>1 DEF SessionsTyped, Close

LEMMA UndoneTyped ==
  ASSUME Typed, NEW s \in Sessions, Undone(s)
  PROVE  Typed'
<1>0. SessionsTyped /\ StoreTyped /\ Recorded  BY DEF Typed
<1>1. tells' \in [Sessions -> SUBSET Conversations]  BY <1>0 DEF Undone, SessionsTyped
<1>2. /\ SessionsTyped' /\ tx'[s] = None
      /\ \A u \in Sessions \ {s} : tx'[u] = tx[u]
  BY <1>0, <1>1, CloseTyped DEF Undone
<1>3. StoreTyped' /\ Recorded'  BY <1>0, <1>2 DEF StoreTyped, Recorded, Undone, store, crm
<1> QED  BY <1>2, <1>3 DEF Typed

\* What commits write to conversations.
LEMMA ConversationEffects ==
  ASSUME Typed, NEW s \in Sessions, tx[s] # None,
         \/ CommitPost(s) \/ CommitState(s) \/ CommitSnooze(s) \/ CommitMerge(s)
         \/ CommitBulk(s) \/ CommitWake(s) \/ CommitTell(s) \/ CommitStart(s)
  PROVE  /\ state' \in [Conversations -> States] /\ told' \in [Conversations -> States]
         /\ thread' \in [Conversations -> Seq(Requests)]
         /\ tells' \in [Sessions -> SUBSET Conversations]
<1>0. /\ tx[s] \in Operations
      /\ state \in [Conversations -> States] /\ told \in [Conversations -> States]
      /\ thread \in [Conversations -> Seq(Requests)]
      /\ tells \in [Sessions -> SUBSET Conversations]
  BY DEF Typed, SessionsTyped, StoreTyped
<1>1. {"new", "open", "closed", "snoozed"} \cup Targets \subseteq States  BY DEF States
<1>2. CASE CommitPost(s)
  <2>1. tx[s].conv \in Conversations /\ tx[s].req \in Requests  BY <1>0, <1>2, Fields DEF CommitPost
  <2>2. Append(thread[tx[s].conv], tx[s].req) \in Seq(Requests)  BY <1>0, <2>1
  <2> QED  BY <1>0, <1>1, <1>2, <2>1, <2>2 DEF CommitPost
<1>3. CASE CommitState(s)
  <2>1. tx[s].to \in Targets  BY <1>0, <1>3, Fields DEF CommitState
  <2> QED  BY <1>0, <1>1, <1>3, <2>1 DEF CommitState, SetState
<1>4. CASE CommitSnooze(s)
  BY <1>0, <1>1, <1>4 DEF CommitSnooze, SetState
<1>5. CASE CommitMerge(s)
  <2>1. tx[s].source \in Conversations /\ tx[s].target \in Conversations
    BY <1>0, <1>5, Fields DEF CommitMerge
  <2>2. thread[tx[s].target] \o thread[tx[s].source] \in Seq(Requests) /\ <<>> \in Seq(Requests)
    BY <1>0, <2>1
  <2> QED  BY <1>0, <1>1, <1>5, <2>1, <2>2 DEF CommitMerge, MoveMessages, SetState
<1>6. CASE CommitBulk(s)
  <2> DEFINE changed == {c \in held[s] \cap Conversations : tx[s].to \notin {None, state[c]}}
  <2>1. changed # {} => tx[s].to \in Targets  BY <1>0, <1>6, Fields DEF CommitBulk
  <2>2. /\ state' = [c \in Conversations |-> IF c \in changed THEN tx[s].to ELSE state[c]]
        /\ told' = [c \in Conversations |-> IF c \in changed THEN tx[s].to ELSE told[c]]
        /\ silent' \subseteq silent
    BY <1>6 DEF CommitBulk
  <2>3. UNCHANGED <<thread, emptied, tells>>
    BY <1>6 DEF CommitBulk
  <2> HIDE DEF changed
  <2> QED  BY <1>0, <1>1, <2>1, <2>2, <2>3
<1>7. CASE CommitWake(s)
  BY <1>0, <1>1, <1>7 DEF CommitWake, Snoozed
<1>8. CASE CommitTell(s)
  BY <1>0, <1>1, <1>8 DEF CommitTell
<1>9. CASE CommitStart(s)
  <2>1. tx[s].conv \in Conversations /\ tx[s].req \in Requests  BY <1>0, <1>9, Fields DEF CommitStart
  <2>2. <<tx[s].req>> \in Seq(Requests)  BY <2>1
  <2> QED  BY <1>0, <1>1, <1>9, <2>1, <2>2 DEF CommitStart
<1> QED  BY <1>2, <1>3, <1>4, <1>5, <1>6, <1>7, <1>8, <1>9

\* What they write to customers: records of merges are added or marked, no more.
RecordsStay ==
  /\ Len(merges) <= Len(merges')
  /\ \A i \in 1..Len(merges) :
        merges'[i].cases = merges[i].cases /\ merges'[i].loser = merges[i].loser

ConversationsTyped ==
  /\ state \in [Conversations -> States] /\ told \in [Conversations -> States]
  /\ thread \in [Conversations -> Seq(Requests)]
  /\ tells \in [Sessions -> SUBSET Conversations]

CustomerStoreTyped ==
  /\ customers \subseteq Customers
  /\ owner \in [Cases -> Customers \cup {None}] /\ given \in [Cases -> Customers \cup {None}]
  /\ merges \in Seq(Record)

LEMMA CustomerEffects ==
  ASSUME Typed, NEW s \in Sessions, tx[s] # None, CommitStart(s) \/ CommitCustomer(s)
  PROVE  CustomerStoreTyped' /\ RecordsStay
<1>0. /\ tx[s] \in Operations /\ CustomerStoreTyped /\ Len(merges) \in Nat
  BY LenProperties DEF Typed, SessionsTyped, StoreTyped, CustomerStoreTyped
<1>1. ASSUME NEW c \in Cases, NEW a \in Customers \cup {None}, NEW lists, GiveCase(c, a, lists)
      PROVE  CustomerStoreTyped' /\ RecordsStay
  BY <1>0, <1>1 DEF GiveCase, CustomerStoreTyped, RecordsStay
<1>2. CASE CommitStart(s)
  <2>1. tx[s].conv \in Conversations /\ tx[s].req \in Requests /\ tx[s].kind = "start"
    BY <1>0, <1>2, Fields DEF CommitStart
  <2>2. tx[s].req.kind = "start"  BY <1>0, <2>1, Fields
  <2>3. tx[s].req.customer \in Customers /\ tx[s].conv \in Cases
    BY <2>1, <2>2, RequestAssumption, RowsAre
  <2> QED  BY <1>1, <1>2, <2>3 DEF CommitStart
<1>3. CASE tx[s].kind = "setCustomer" /\ GiveCase(tx[s].case, tx[s].to, OpenLists(s))
  <2>1. tx[s].case \in Cases /\ tx[s].to \in Customers  BY <1>0, <1>3, Fields, RowsAre
  <2> QED  BY <1>1, <1>3, <2>1
<1>3a. CASE tx[s].kind = "clearCustomer" /\ GiveCase(tx[s].case, None, OpenLists(s))
  <2>1. tx[s].case \in Cases  BY <1>0, <1>3a, Fields, RowsAre
  <2> QED  BY <1>1, <1>3a, <2>1
<1>4. CASE tx[s].kind = "mergeCustomers" /\ AbsorbCustomer(tx[s].winner, tx[s].loser, tx[s].cases)
  <2>1. tx[s].winner \in Customers /\ tx[s].loser \in Customers /\ tx[s].cases \subseteq Cases
    BY <1>0, <1>4, Fields
  <2> DEFINE r == [winner |-> tx[s].winner, loser |-> tx[s].loser, cases |-> tx[s].cases, reversed |-> FALSE]
  <2>2. r \in Record  BY <2>1 DEF Record
  <2>3. merges' = Append(merges, r)  BY <1>4 DEF AbsorbCustomer
  <2> HIDE DEF r
  <2>4. /\ merges' \in Seq(Record) /\ Len(merges') = Len(merges) + 1
        /\ \A i \in 1..Len(merges) : merges'[i] = merges[i]
    BY <1>0, <2>2, <2>3, AppendProperties DEF CustomerStoreTyped
  <2>5. owner' \in [Cases -> Customers \cup {None}] /\ UNCHANGED given /\ customers' \subseteq Customers
    BY <1>0, <1>4, <2>1 DEF AbsorbCustomer, CustomerStoreTyped
  <2> QED  BY <1>0, <2>4, <2>5 DEF CustomerStoreTyped, RecordsStay
<1>5. CASE tx[s].kind = "reverse" /\ RestoreCustomer(tx[s].record, OpenLists(s))
  <2> DEFINE i == tx[s].record
  <2>1. i \in 1..Len(merges)  BY <1>0, <1>5 DEF Typed, Recorded
  <2>2. merges[i] \in Record  BY <1>0, <2>1 DEF CustomerStoreTyped
  <2>3. merges' = [merges EXCEPT ![i] = [merges[i] EXCEPT !.reversed = TRUE]]
    BY <1>5 DEF RestoreCustomer
  <2>4. [merges[i] EXCEPT !.reversed = TRUE] \in Record  BY <2>2 DEF Record
  <2>5. /\ [merges[i] EXCEPT !.reversed = TRUE].cases = merges[i].cases
        /\ [merges[i] EXCEPT !.reversed = TRUE].loser = merges[i].loser
    BY <2>2 DEF Record
  <2> DEFINE m == [merges[i] EXCEPT !.reversed = TRUE]
  <2> HIDE DEF m, i
  <2>6. /\ merges' \in Seq(Record) /\ Len(merges') = Len(merges)
        /\ \A j \in 1..Len(merges) : merges'[j] = IF j = i THEN m ELSE merges[j]
    BY <1>0, <2>1, <2>3, <2>4, ExceptSeq DEF CustomerStoreTyped, m
  <2>7. owner' \in [Cases -> Customers \cup {None}] /\ UNCHANGED given /\ customers' \subseteq Customers
    BY <1>0, <1>5, <2>2 DEF RestoreCustomer, CustomerStoreTyped, Record, i
  <2>8. m.cases = merges[i].cases /\ m.loser = merges[i].loser  BY <2>5 DEF m
  <2>9. RecordsStay
    <3>1. ASSUME NEW j \in 1..Len(merges)
          PROVE  merges'[j].cases = merges[j].cases /\ merges'[j].loser = merges[j].loser
      BY <2>6, <2>8
    <3> QED  BY <1>0, <2>6, <3>1 DEF RecordsStay
  <2> QED  BY <1>0, <2>6, <2>7, <2>9 DEF CustomerStoreTyped
<1>6. CASE UNCHANGED crm  BY <1>0, <1>6 DEF crm, CustomerStoreTyped, RecordsStay
<1> QED  BY <1>2, <1>3, <1>3a, <1>4, <1>5, <1>6 DEF CommitCustomer

LEMMA EndsRecords ==
  ASSUME Typed, NEW s \in Sessions, Ends(s)
  PROVE  ConversationsTyped' /\ CustomerStoreTyped' /\ RecordsStay
<1>0. SessionsTyped /\ StoreTyped /\ ConversationsTyped /\ tx[s] # None
  BY DEF Typed, SessionsTyped, StoreTyped, ConversationsTyped, Ends, CanCommit
<1>1. Effects(s)  BY DEF Ends
<1>2. CASE CommitStart(s)
  <2>1. ConversationsTyped'  BY <1>0, <1>2, ConversationEffects DEF ConversationsTyped
  <2>2. CustomerStoreTyped' /\ RecordsStay  BY <1>0, <1>2, CustomerEffects
  <2> QED  BY <2>1, <2>2
<1>3. CASE CommitCustomer(s) /\ UNCHANGED <<state, thread, told, silent, emptied, tells>>
  <2>1. ConversationsTyped'  BY <1>0, <1>3 DEF ConversationsTyped
  <2>2. CustomerStoreTyped' /\ RecordsStay  BY <1>0, <1>3, CustomerEffects
  <2> QED  BY <2>1, <2>2
<1>4. CASE /\ \/ CommitPost(s) \/ CommitState(s) \/ CommitSnooze(s) \/ CommitMerge(s)
              \/ CommitBulk(s) \/ CommitWake(s) \/ CommitTell(s)
           /\ UNCHANGED crm
  <2>1. ConversationsTyped'  BY <1>0, <1>4, ConversationEffects DEF ConversationsTyped
  <2>2. CustomerStoreTyped' /\ RecordsStay
    <3>1. Len(merges) \in Nat  BY <1>0, LenProperties DEF StoreTyped
    <3> QED  BY <1>0, <1>4, <3>1 DEF StoreTyped, CustomerStoreTyped, RecordsStay, crm
  <2> QED  BY <2>1, <2>2
<1> QED  BY <1>1, <1>2, <1>3, <1>4 DEF Effects

LEMMA EndsTyped ==
  ASSUME Typed, NEW s \in Sessions, Ends(s)
  PROVE  Typed'
<1>0. SessionsTyped /\ StoreTyped /\ Recorded /\ tx[s] # None
  BY DEF Typed, Ends, CanCommit
<1>1. ConversationsTyped' /\ CustomerStoreTyped' /\ RecordsStay  BY EndsRecords
<1>2. /\ SessionsTyped' /\ tx'[s] = None
      /\ \A u \in Sessions \ {s} : tx'[u] = tx[u]
  BY <1>0, <1>1, CloseTyped DEF Ends, ConversationsTyped
<1>3. StoreTyped'  BY <1>1 DEF StoreTyped, ConversationsTyped, CustomerStoreTyped
<1>4. Recorded'
  <2> SUFFICES ASSUME NEW u \in Sessions, tx'[u] # None, tx'[u].kind = "reverse"
               PROVE  tx'[u].record \in 1..Len(merges') /\ tx'[u].cases = merges'[tx'[u].record].cases
    BY DEF Recorded
  <2>1. tx'[u] = tx[u]  BY <1>2
  <2>2. tx[u].record \in 1..Len(merges) /\ tx[u].cases = merges[tx[u].record].cases
    BY <1>0, <2>1 DEF Recorded
  <2>3. Len(merges) \in Nat /\ Len(merges') \in Nat  BY <1>0, <1>3, LenProperties DEF StoreTyped
  <2> QED  BY <1>1, <2>1, <2>2, <2>3 DEF RecordsStay
<1> QED  BY <1>2, <1>3, <1>4 DEF Typed

LEMMA InitTyped == Init => Typed
<1> SUFFICES ASSUME Init PROVE Typed  OBVIOUS
<1>1. SessionsTyped
  <2>1. <<>> \in Seq(Named)  OBVIOUS
  <2> QED  BY <2>1 DEF Init, ConvInit, SessionsTyped
<1>2. StoreTyped
  <2>1. owner \in [Cases -> Customers \cup {None}]
    BY CustomerAssumption DEF Init, ConvInit, CustomerInit
  <2>2. <<>> \in Seq(Record) /\ <<>> \in Seq(Requests)  OBVIOUS
  <2> QED  BY <2>1, <2>2 DEF Init, ConvInit, CustomerInit, StoreTyped, States
<1>3. Recorded  BY DEF Init, ConvInit, Recorded
<1> QED  BY <1>1, <1>2, <1>3 DEF Typed

LEMMA QuietTyped == Typed /\ Quiet => Typed'
BY DEF Quiet, Typed, SessionsTyped, StoreTyped, Recorded, store, locks, crm

LEMMA StepTyped ==
  ASSUME Typed, ClaimInv, [Next]_vars
  PROVE  Typed'
BY StepsOfTransactions, QuietTyped, OpensTyped, LocksTyped, EndsTyped, UndoneTyped

-----------------------------------------------------------------------------
(* Conversations: their states, threads and events *)

\* A wake that has still to be told is known to be missing; its conversation is there.
TellsKnown == \A s \in Sessions : tells[s] \subseteq silent \cap Present

\* What transactions are about is there, or is not there yet.
AimOf(s) ==
  tx[s] # None =>
    /\ tx[s].kind \in {"post", "state", "snooze"} => tx[s].conv \in Present
    /\ tx[s].kind = "tell" => tx[s].conv \in tells[s]
    /\ tx[s].kind = "merge" => {tx[s].source, tx[s].target} \subseteq Present /\ tx[s].source # tx[s].target
    /\ tx[s].kind = "start" => tx[s].conv \notin Present
    /\ tx[s].kind = "bulk" => /\ \A i \in DOMAIN todo[s] : todo[s][i] \in Present
                              /\ held[s] \cap Conversations \subseteq Present
Aims == \A s \in Sessions : AimOf(s)

\* No two transactions start the same conversation.
NewAlone ==
  \A s, u \in Sessions :
    (s # u /\ tx[s] # None /\ tx[u] # None) =>
      (tx[s].kind = "start" /\ tx[u].kind = "start" => tx[s].conv # tx[u].conv)

AbsentEmpty == \A c \in Conversations \ Present : thread[c] = <<>>

ThreadInv == TellsKnown /\ Aims /\ NewAlone /\ AbsentEmpty /\ EventsTellState

NumbersKept ==
  \A c \in Conversations :
    \/ \A i \in DOMAIN thread[c] : i \in DOMAIN thread'[c] /\ thread'[c][i] = thread[c][i]
    \/ thread'[c] = <<>> /\ c \in emptied'

\* What a commit of s may do to conversations.
ThreadStep(s) ==
  /\ Present \subseteq Present'
  /\ \A c \in Conversations \ Present :
        \/ c \notin Present' /\ thread'[c] = thread[c]
        \/ tx[s].kind = "start" /\ c = tx[s].conv
  /\ \A u \in Sessions \ {s} : tells'[u] = tells[u]
  /\ TellsKnown' /\ EventsTellState' /\ NumbersKept

LEMMA HeardStays ==
  ASSUME Typed, TellsKnown, NEW c \in Conversations, NEW u \in Sessions
  PROVE  tells[u] \subseteq Heard(c) /\ silent \ {c} \subseteq Heard(c)
BY DEF Heard, TellsKnown

\* A state that is set, with the event that tells it.
LEMMA SetStateSteps ==
  ASSUME Typed, ThreadInv, NEW s \in Sessions, NEW c \in Present, NEW to \in States \ {"absent"},
         SetState(c, to), UNCHANGED <<tells>>
  PROVE  /\ Present' = Present
         /\ TellsKnown' /\ EventsTellState'
<1>0. /\ state \in [Conversations -> States] /\ told \in [Conversations -> States]
      /\ c \in Conversations
  BY DEF Typed, StoreTyped, Present
<1>1. Present' = Present  BY <1>0 DEF Present, SetState
<1>2. TellsKnown'
  <2>1. ASSUME NEW u \in Sessions PROVE tells[u] \subseteq Heard(c) /\ tells[u] \subseteq Present
    BY <1>0, HeardStays DEF ThreadInv, TellsKnown
  <2> QED  BY <1>1, <2>1 DEF TellsKnown, SetState
<1>3. silent \ {c} \subseteq silent'
  BY <1>0 DEF SetState, Heard
<1>4. EventsTellState'
  <2> SUFFICES ASSUME NEW d \in Present
               PROVE  \/ told'[d] = state'[d]
                      \/ told'[d] = "new" /\ state'[d] = "open"
                      \/ d \in silent'
    BY <1>1 DEF EventsTellState
  <2>1. CASE d = c  BY <1>0, <2>1 DEF SetState
  <2>2. CASE d # c
    <3>1. state'[d] = state[d] /\ told'[d] = told[d]  BY <2>2 DEF SetState
    <3>2. d \in silent => d \in silent'  BY <1>3, <2>2
    <3> QED  BY <3>1, <3>2 DEF ThreadInv, EventsTellState
  <2> QED  BY <2>1, <2>2
<1> QED  BY <1>1, <1>2, <1>4

\* Threads that stay make a step whose states are right a right step.
LEMMA ThreadsStay ==
  ASSUME NEW s \in Sessions, Present' = Present, UNCHANGED thread,
         \A u \in Sessions \ {s} : tells'[u] = tells[u], TellsKnown', EventsTellState'
  PROVE  ThreadStep(s)
BY DEF ThreadStep, NumbersKept, Present

LEMMA PostSteps ==
  ASSUME Typed, ThreadInv, NEW s \in Sessions, tx[s] # None, CommitPost(s)
  PROVE  ThreadStep(s)
<1> DEFINE c == tx[s].conv  r == tx[s].req
<1>0. /\ state \in [Conversations -> States] /\ thread \in [Conversations -> Seq(Requests)]
      /\ c \in Present /\ c \in Conversations /\ r \in Requests
  BY Fields DEF Typed, SessionsTyped, StoreTyped, ThreadInv, Aims, AimOf, CommitPost, Present
<1>1. UNCHANGED <<told, silent, emptied, tells>>  BY DEF CommitPost
<1>2. \/ UNCHANGED state
      \/ state[c] = "new" /\ state' = [state EXCEPT ![c] = "open"]
  BY DEF CommitPost
<1>3. Present' = Present  BY <1>0, <1>2 DEF Present
<1>4. TellsKnown'  BY <1>1, <1>3 DEF ThreadInv, TellsKnown
<1>5. EventsTellState'
  <2> SUFFICES ASSUME NEW d \in Present
               PROVE  \/ told[d] = state'[d]
                      \/ told[d] = "new" /\ state'[d] = "open"
                      \/ d \in silent
    BY <1>1, <1>3 DEF EventsTellState
  <2>1. \/ told[d] = state[d]
        \/ told[d] = "new" /\ state[d] = "open"
        \/ d \in silent
    BY DEF ThreadInv, EventsTellState
  <2>2. state'[d] = state[d] \/ (state[d] = "new" /\ state'[d] = "open")
    BY <1>0, <1>2 DEF Present
  <2> QED  BY <2>1, <2>2
<1>6. \/ UNCHANGED thread
      \/ thread' = [thread EXCEPT ![c] = Append(thread[c], r)]
  BY DEF CommitPost
<1>7. \A d \in Conversations : d # c => thread'[d] = thread[d]  BY <1>0, <1>6
<1>8. NumbersKept
  <2>1. ASSUME NEW i \in DOMAIN thread[c] PROVE i \in DOMAIN thread'[c] /\ thread'[c][i] = thread[c][i]
    <3>1. CASE UNCHANGED thread  BY <3>1
    <3>2. CASE thread' = [thread EXCEPT ![c] = Append(thread[c], r)]
      <4>1. thread'[c] = Append(thread[c], r) /\ thread[c] \in Seq(Requests)  BY <1>0, <3>2
      <4> QED  BY <1>0, <4>1, AppendProperties, LenProperties
    <3> QED  BY <1>6, <3>1, <3>2
  <2> QED  BY <1>7, <2>1 DEF NumbersKept
<1> QED  BY <1>0, <1>1, <1>3, <1>4, <1>5, <1>7, <1>8 DEF ThreadStep

LEMMA StateSteps ==
  ASSUME Typed, ThreadInv, NEW s \in Sessions, tx[s] # None, CommitState(s) \/ CommitSnooze(s)
  PROVE  ThreadStep(s)
<1>0. UNCHANGED thread /\ UNCHANGED tells  BY DEF CommitState, CommitSnooze
<1>1. tx[s].conv \in Present
  BY DEF ThreadInv, Aims, AimOf, CommitState, CommitSnooze
<1>2. CASE UNCHANGED <<state, told, silent>>
  <2>1. Present' = Present /\ TellsKnown' /\ EventsTellState'
    BY <1>0, <1>2 DEF ThreadInv, TellsKnown, EventsTellState, Present
  <2> QED  BY <1>0, <2>1, ThreadsStay
<1>3. CASE \E to \in States \ {"absent"} : SetState(tx[s].conv, to)
  <2>1. Present' = Present /\ TellsKnown' /\ EventsTellState'
    BY <1>0, <1>1, <1>3, SetStateSteps
  <2> QED  BY <1>0, <2>1, ThreadsStay
<1>4. CASE CommitState(s) /\ ~UNCHANGED <<state, told, silent>>
  <2>1. tx[s].to \in Targets  BY <1>4, Fields DEF Typed, SessionsTyped, CommitState
  <2>2. tx[s].to \in States \ {"absent"}  BY <2>1, ConversationAssumption DEF States
  <2>3. SetState(tx[s].conv, tx[s].to)  BY <1>4 DEF CommitState
  <2> QED  BY <1>3, <2>2, <2>3
<1>5. CASE CommitSnooze(s)
  <2>1. "snoozed" \in States \ {"absent"}  BY DEF States
  <2> QED  BY <1>3, <1>5, <2>1 DEF CommitSnooze
<1> QED  BY <1>2, <1>4, <1>5

\* One thread after another.
LEMMA Joined ==
  ASSUME NEW S, NEW p \in Seq(S), NEW q \in Seq(S)
  PROVE  /\ Len(p) \in Nat /\ DOMAIN p = 1..Len(p) /\ DOMAIN q = 1..Len(q) /\ Len(q) \in Nat
         /\ DOMAIN (p \o q) = 1..(Len(p) + Len(q)) /\ p \o q \in Seq(S)
         /\ \A i \in DOMAIN p : i \in DOMAIN (p \o q) /\ (p \o q)[i] = p[i]
         /\ \A i \in DOMAIN q : Len(p) + i \in DOMAIN (p \o q) /\ (p \o q)[Len(p) + i] = q[i]
<1>1. Len(p) \in Nat /\ DOMAIN p = 1..Len(p) /\ DOMAIN q = 1..Len(q) /\ Len(q) \in Nat
  BY LenProperties
<1>2. /\ p \o q \in Seq(S) /\ Len(p \o q) = Len(p) + Len(q)
      /\ \A i \in 1..(Len(p) + Len(q)) : (p \o q)[i] = IF i <= Len(p) THEN p[i] ELSE q[i - Len(p)]
  BY ConcatProperties
<1>3. DOMAIN (p \o q) = 1..(Len(p) + Len(q))  BY <1>1, <1>2, LenProperties
<1> QED  BY <1>1, <1>2, <1>3

LEMMA JoinedThreads ==
  ASSUME NEW p \in Seq(Requests), NEW q \in Seq(Requests), NEW r, r = p \o q
  PROVE  /\ DOMAIN p = 1..Len(p) /\ DOMAIN q = 1..Len(q) /\ DOMAIN r = 1..(Len(p) + Len(q))
         /\ Len(p) \in Nat /\ Len(q) \in Nat
         /\ \A i \in DOMAIN p : i \in DOMAIN r /\ r[i] = p[i]
         /\ \A i \in DOMAIN q : Len(p) + i \in DOMAIN r /\ r[Len(p) + i] = q[i]
BY Joined

LEMMA MergeSteps ==
  ASSUME Typed, ThreadInv, NEW s \in Sessions, tx[s] # None, CommitMerge(s)
  PROVE  ThreadStep(s)
<1> DEFINE a == tx[s].source  b == tx[s].target
<1>0. /\ a \in Present /\ b \in Present /\ a # b
      /\ a \in Conversations /\ b \in Conversations
      /\ thread \in [Conversations -> Seq(Requests)]
  BY DEF Typed, StoreTyped, ThreadInv, Aims, AimOf, CommitMerge, Present
<1>1. "closed" \in States \ {"absent"}  BY DEF States
<1>2. Present' = Present /\ TellsKnown' /\ EventsTellState'
  <2>1. SetState(a, "closed") /\ UNCHANGED tells  BY DEF CommitMerge
  <2> QED  BY <1>0, <1>1, <2>1, SetStateSteps
<1>3. /\ thread'[a] = <<>> /\ thread'[b] = thread[b] \o thread[a]
      /\ \A d \in Conversations \ {a, b} : thread'[d] = thread[d]
  BY <1>0 DEF CommitMerge, MoveMessages
<1>4. NumbersKept
  <2>1. a \in emptied'  BY DEF CommitMerge
  <2>2. ASSUME NEW i \in DOMAIN thread[b] PROVE i \in DOMAIN thread'[b] /\ thread'[b][i] = thread[b][i]
    <3>1. thread[b] \in Seq(Requests) /\ thread[a] \in Seq(Requests)  BY <1>0
    <3>2. thread'[b] = thread[b] \o thread[a]  BY <1>3
    <3> DEFINE p == thread[b]  q == thread[a]  r == thread'[b]
    <3>3. p \in Seq(Requests) /\ q \in Seq(Requests) /\ r = p \o q  BY <3>1, <3>2
    <3> HIDE DEF p, q, r
    <3>4. \A j \in DOMAIN p : j \in DOMAIN r /\ r[j] = p[j]  BY <3>3, JoinedThreads
    <3> QED  BY <3>4 DEF p, r
  <2> QED  BY <1>3, <2>1, <2>2 DEF NumbersKept
<1>5. UNCHANGED tells  BY DEF CommitMerge
<1> QED  BY <1>0, <1>2, <1>3, <1>4, <1>5 DEF ThreadStep

LEMMA BulkSteps ==
  ASSUME Typed, ThreadInv, NEW s \in Sessions, tx[s] # None, CommitBulk(s)
  PROVE  ThreadStep(s)
<1> DEFINE changed == {c \in held[s] \cap Conversations : tx[s].to \notin {None, state[c]}}
<1>0. /\ state \in [Conversations -> States] /\ told \in [Conversations -> States]
      /\ changed # {} => tx[s].to \in Targets /\ tx[s].to # "absent"
      /\ changed \subseteq Present
  BY Fields, ConversationAssumption
     DEF Typed, SessionsTyped, StoreTyped, CommitBulk, ThreadInv, Aims, AimOf
<1>1. /\ state' = [c \in Conversations |-> IF c \in changed THEN tx[s].to ELSE state[c]]
      /\ told' = [c \in Conversations |-> IF c \in changed THEN tx[s].to ELSE told[c]]
      /\ silent' = {c \in silent : c \in changed => c \in Heard(c)}
      /\ UNCHANGED <<thread, emptied, tells>>
  BY DEF CommitBulk
<1> HIDE DEF changed
<1>2. Present' = Present  BY <1>0, <1>1 DEF Present
<1>3. TellsKnown'
  <2>1. ASSUME NEW u \in Sessions, NEW c \in tells[u] PROVE c \in silent' /\ c \in Present
    <3>1. c \in silent /\ c \in Present /\ c \in Conversations  BY DEF ThreadInv, TellsKnown, Present
    <3>2. c \in Heard(c)  BY <3>1, HeardStays DEF ThreadInv
    <3> QED  BY <1>1, <3>1, <3>2
  <2> QED  BY <1>1, <1>2, <2>1 DEF TellsKnown
<1>4. EventsTellState'
  <2> SUFFICES ASSUME NEW d \in Present
               PROVE  \/ told'[d] = state'[d]
                      \/ told'[d] = "new" /\ state'[d] = "open"
                      \/ d \in silent'
    BY <1>2 DEF EventsTellState
  <2>1. CASE d \in changed  BY <1>1, <2>1 DEF Present
  <2>2. CASE d \notin changed
    <3>1. state'[d] = state[d] /\ told'[d] = told[d] /\ (d \in silent => d \in silent')
      BY <1>1, <2>2 DEF Present
    <3> QED  BY <3>1 DEF ThreadInv, EventsTellState
  <2> QED  BY <2>1, <2>2
<1> QED  BY <1>1, <1>2, <1>3, <1>4, ThreadsStay

LEMMA WakeSteps ==
  ASSUME Typed, ThreadInv, NEW s \in Sessions, tx[s] # None, CommitWake(s)
  PROVE  ThreadStep(s)
<1>1. PICK woken \in SUBSET (held[s] \cap Snoozed) :
        /\ state' = [c \in Conversations |-> IF c \in woken THEN "open" ELSE state[c]]
        /\ tells' = [tells EXCEPT ![s] = woken]
        /\ silent' = silent \cup woken
        /\ UNCHANGED <<thread, told, emptied>>
  BY DEF CommitWake
<1>2. woken \subseteq Present /\ Present' = Present  BY <1>1 DEF Snoozed, Present
<1>3. tells \in [Sessions -> SUBSET Conversations]  BY DEF Typed, SessionsTyped
<1>4. TellsKnown'
  <2> SUFFICES ASSUME NEW u \in Sessions PROVE tells'[u] \subseteq silent' \cap Present
    BY <1>2 DEF TellsKnown
  <2>1. CASE u = s  BY <1>1, <1>2, <1>3, <2>1
  <2>2. CASE u # s  BY <1>1, <1>3, <2>2 DEF ThreadInv, TellsKnown
  <2> QED  BY <2>1, <2>2
<1>5. EventsTellState'
  <2> SUFFICES ASSUME NEW d \in Present
               PROVE  \/ told[d] = state'[d]
                      \/ told[d] = "new" /\ state'[d] = "open"
                      \/ d \in silent \cup woken
    BY <1>1, <1>2 DEF EventsTellState
  <2>1. d \in woken \/ state'[d] = state[d]  BY <1>1 DEF Present
  <2> QED  BY <2>1 DEF ThreadInv, EventsTellState
<1> QED  BY <1>1, <1>2, <1>3, <1>4, <1>5, ThreadsStay

LEMMA TellSteps ==
  ASSUME Typed, ThreadInv, NEW s \in Sessions, tx[s] # None, CommitTell(s)
  PROVE  ThreadStep(s)
<1> DEFINE c == tx[s].conv
<1>0. /\ tells \in [Sessions -> SUBSET Conversations] /\ told \in [Conversations -> States]
      /\ c \in tells[s] /\ c \in silent /\ c \in Present
  BY DEF Typed, SessionsTyped, StoreTyped, CommitTell, ThreadInv, Aims, AimOf, TellsKnown
<1>1. /\ told' = [told EXCEPT ![c] = "open"]
      /\ tells' = [tells EXCEPT ![s] = tells[s] \ {c}]
      /\ \/ UNCHANGED silent
         \/ /\ state[c] = "open" /\ \A u \in Sessions \ {s} : c \notin tells[u]
            /\ silent' = silent \ {c}
      /\ UNCHANGED <<state, thread, emptied>>
  BY DEF CommitTell
<1> HIDE DEF c
<1>2. Present' = Present  BY <1>1 DEF Present
<1>3. TellsKnown'
  <2> SUFFICES ASSUME NEW u \in Sessions PROVE tells'[u] \subseteq silent' \cap Present
    BY <1>2 DEF TellsKnown
  <2>1. tells[u] \subseteq silent \cap Present  BY DEF ThreadInv, TellsKnown
  <2>2. CASE u = s  BY <1>0, <1>1, <2>1, <2>2
  <2>3. CASE u # s  BY <1>0, <1>1, <2>1, <2>3
  <2> QED  BY <2>2, <2>3
<1>4. EventsTellState'
  <2> SUFFICES ASSUME NEW d \in Present
               PROVE  \/ told'[d] = state[d]
                      \/ told'[d] = "new" /\ state[d] = "open"
                      \/ d \in silent'
    BY <1>1, <1>2 DEF EventsTellState
  <2>1. CASE d = c
    <3>1. told'[c] = "open"  BY <1>0, <1>1 DEF Present
    <3> QED  BY <1>0, <1>1, <2>1, <3>1
  <2>2. CASE d # c
    <3>1. told'[d] = told[d] /\ (d \in silent => d \in silent')  BY <1>1, <2>2
    <3> QED  BY <3>1 DEF ThreadInv, EventsTellState
  <2> QED  BY <2>1, <2>2
<1> QED  BY <1>0, <1>1, <1>2, <1>3, <1>4, ThreadsStay

LEMMA StartSteps ==
  ASSUME Typed, ThreadInv, NEW s \in Sessions, tx[s] # None, CommitStart(s)
  PROVE  ThreadStep(s)
<1> DEFINE c == tx[s].conv  r == tx[s].req
<1>0. /\ state \in [Conversations -> States] /\ told \in [Conversations -> States]
      /\ thread \in [Conversations -> Seq(Requests)]
      /\ tx[s].kind = "start" /\ c \in Conversations \ Present /\ thread[c] = <<>>
  BY Fields DEF Typed, SessionsTyped, StoreTyped, CommitStart, ThreadInv, Aims, AimOf, AbsentEmpty
<1>1. /\ thread' = [thread EXCEPT ![c] = <<r>>]
      /\ \/ state' = [state EXCEPT ![c] = "open"]
         \/ state' = [state EXCEPT ![c] = "new"]
      /\ told' = [told EXCEPT ![c] = "new"]
      /\ UNCHANGED <<silent, emptied, tells>>
  BY DEF CommitStart
<1> HIDE DEF c, r
<1>2. Present' = Present \cup {c}  BY <1>0, <1>1 DEF Present
<1>3. TellsKnown'  BY <1>1, <1>2 DEF ThreadInv, TellsKnown
<1>4. EventsTellState'
  <2> SUFFICES ASSUME NEW d \in Present \cup {c}
               PROVE  \/ told'[d] = state'[d]
                      \/ told'[d] = "new" /\ state'[d] = "open"
                      \/ d \in silent
    BY <1>1, <1>2 DEF EventsTellState
  <2>1. CASE d = c  BY <1>0, <1>1, <2>1
  <2>2. CASE d # c
    <3>1. d \in Present /\ d \in Conversations  BY <2>2 DEF Present
    <3>2. state'[d] = state[d] /\ told'[d] = told[d]  BY <1>0, <1>1, <2>2, <3>1
    <3> QED  BY <3>1, <3>2 DEF ThreadInv, EventsTellState
  <2> QED  BY <2>1, <2>2
<1>5. \A d \in Conversations \ {c} : thread'[d] = thread[d]  BY <1>0, <1>1
<1>6. NumbersKept  BY <1>0, <1>5 DEF NumbersKept
<1> QED  BY <1>0, <1>1, <1>2, <1>3, <1>4, <1>5, <1>6 DEF ThreadStep, c

\* Commits that concern customers leave conversations alone.
LEMMA CustomerSteps ==
  ASSUME ThreadInv, NEW s \in Sessions, UNCHANGED <<state, thread, told, silent, tells>>
  PROVE  ThreadStep(s)
<1>1. Present' = Present  BY DEF Present
<1>2. TellsKnown' /\ EventsTellState'
  BY <1>1 DEF ThreadInv, TellsKnown, EventsTellState
<1> QED  BY <1>1, <1>2, ThreadsStay

LEMMA CommitSteps ==
  ASSUME Typed, ThreadInv, NEW s \in Sessions, tx[s] # None, Effects(s)
  PROVE  ThreadStep(s)
BY PostSteps, StateSteps, MergeSteps, BulkSteps, WakeSteps, TellSteps, StartSteps, CustomerSteps DEF Effects

\* Steps that write nothing.
LEMMA NothingWritten ==
  ASSUME ThreadInv, UNCHANGED store, \A u \in Sessions : tells'[u] \subseteq tells[u]
  PROVE  Present' = Present /\ TellsKnown' /\ AbsentEmpty' /\ EventsTellState' /\ NumbersKept
<1>1. Present' = Present  BY DEF Present, store
<1> QED  BY <1>1 DEF ThreadInv, TellsKnown, AbsentEmpty, EventsTellState, NumbersKept, store

LEMMA AimStays ==
  ASSUME NEW u \in Sessions, AimOf(u), Present \subseteq Present',
         tx'[u] = tx[u], todo'[u] = todo[u], held'[u] = held[u], tells'[u] = tells[u],
         tx[u] # None /\ tx[u].kind = "start" => tx[u].conv \notin Present'
  PROVE  AimOf(u)'
BY DEF AimOf

\* What the operations that are opened aim at.
LEMMA OpensAims ==
  ASSUME Typed, ThreadInv, NEW s \in Sessions, Opens(s)
  PROVE  /\ AimOf(s)'
         /\ tx'[s].kind = "start" =>
              \A u \in Sessions \ {s} : tx[u] # None /\ tx[u].kind = "start" => tx[u].conv # tx'[s].conv
<1>0. /\ Present' = Present /\ UNCHANGED tells
      /\ tx \in [Sessions -> Operations \cup {None}] /\ todo \in [Sessions -> Seq(Named)]
      /\ tx[s] = None => held[s] = {}
  BY DEF Opens, store, Present, Typed, SessionsTyped
<1>1. ASSUME NEW t, NEW rows, Begin(s, t, rows)
      PROVE  tx'[s] = t /\ todo'[s] = rows /\ held'[s] = {}
  BY <1>0, <1>1 DEF Begin
<1> DEFINE AimOfNew(t, rows) ==
      /\ t.kind \in {"post", "state", "snooze"} => t.conv \in Present
      /\ t.kind = "tell" => t.conv \in tells[s]
      /\ t.kind = "merge" => {t.source, t.target} \subseteq Present /\ t.source # t.target
      /\ t.kind = "start" =>
            /\ t.conv \notin Present
            /\ \A u \in Sessions \ {s} : tx[u] # None /\ tx[u].kind = "start" => tx[u].conv # t.conv
      /\ t.kind = "bulk" => \A i \in DOMAIN rows : rows[i] \in Present
<1>2. SUFFICES \E t, rows : Begin(s, t, rows) /\ AimOfNew(t, rows)
  BY <1>0, <1>1 DEF AimOf
<1>3. CASE BeginSetState(s)
  <2>1. PICK c \in Present, to \in Targets : Begin(s, [kind |-> "state", conv |-> c, to |-> to], <<c>>)
    BY <1>3 DEF BeginSetState
  <2>2. AimOfNew([kind |-> "state", conv |-> c, to |-> to], <<c>>)  OBVIOUS
  <2> QED  BY <2>1, <2>2
<1>4. CASE BeginSnooze(s)
  <2>1. PICK c \in Present : Begin(s, [kind |-> "snooze", conv |-> c], <<c>>)  BY <1>4 DEF BeginSnooze
  <2>2. AimOfNew([kind |-> "snooze", conv |-> c], <<c>>)  OBVIOUS
  <2> QED  BY <2>1, <2>2
<1>5. CASE BeginMerge(s)
  <2>1. PICK a \in Present, b \in Present :
          /\ a # b
          /\ Begin(s, [kind |-> "merge", source |-> a, target |-> b], MergeRows(a, b))
    BY <1>5 DEF BeginMerge
  <2>2. AimOfNew([kind |-> "merge", source |-> a, target |-> b], MergeRows(a, b))  BY <2>1
  <2> QED  BY <2>1, <2>2
<1>6. CASE BeginBulk(s)
  <2>1. PICK to \in Targets \cup {None}, ids \in SUBSET Present :
          Begin(s, [kind |-> "bulk", to |-> to], Ascending(ids))
    BY <1>6 DEF BeginBulk
  <2>2. \A i \in DOMAIN Ascending(ids) : Ascending(ids)[i] \in Present
    <3>1. ids \subseteq Cases /\ ids \subseteq Nat  BY ConversationAssumption DEF Present
    <3>2. Ascending(ids) \in Orders(ids)  BY <3>1, FiniteCases, AscendingIsSorted
    <3> QED  BY <3>2 DEF Orders
  <2> DEFINE rows == Ascending(ids)
  <2> HIDE DEF rows
  <2>3. AimOfNew([kind |-> "bulk", to |-> to], rows)  BY <2>2 DEF rows
  <2> QED  BY <2>1, <2>3 DEF rows
<1>7. CASE \E rows : \/ Begin(s, [kind |-> "label"], rows)
                     \/ Begin(s, [kind |-> "wake"], rows)
  <2>1. \A rows : AimOfNew([kind |-> "label"], rows) /\ AimOfNew([kind |-> "wake"], rows)  OBVIOUS
  <2> QED  BY <1>7, <2>1
<1>8. CASE \E t, rows : Begin(s, t, rows) /\ t.kind \in {"setCustomer", "clearCustomer", "findCases", "reverse"}
  BY <1>8
<1>9. CASE BeginTell(s)
  <2>1. PICK c \in tells[s] : Begin(s, [kind |-> "tell", conv |-> c], <<c>>)  BY <1>9 DEF BeginTell
  <2>2. AimOfNew([kind |-> "tell", conv |-> c], <<c>>)  OBVIOUS
  <2> QED  BY <2>1, <2>2
<1>10. ASSUME NEW r \in Requests, BeginPost(s, r) PROVE \E t, rows : Begin(s, t, rows) /\ AimOfNew(t, rows)
  <2>1. r.conv \in Present /\ Begin(s, [kind |-> "post", req |-> r, conv |-> r.conv], <<r.conv>>)
    BY <1>10 DEF BeginPost
  <2>2. AimOfNew([kind |-> "post", req |-> r, conv |-> r.conv], <<r.conv>>)  BY <2>1
  <2> QED  BY <2>1, <2>2
<1>11. ASSUME NEW r \in Requests, BeginStart(s, r) PROVE \E t, rows : Begin(s, t, rows) /\ AimOfNew(t, rows)
  <2>1. PICK c \in Conversations \ Present :
          /\ \A u \in Sessions : tx[u] # None /\ tx[u].kind = "start" => tx[u].conv # c
          /\ Begin(s, [kind |-> "start", req |-> r, conv |-> c], <<Share(r.customer), Team>>)
    BY <1>11 DEF BeginStart
  <2>2. AimOfNew([kind |-> "start", req |-> r, conv |-> c], <<Share(r.customer), Team>>)  BY <2>1
  <2> QED  BY <2>1, <2>2
<1>12. CASE BeginLabel(s) \/ BeginTicket(s) \/ BeginWake(s)
  BY <1>7, <1>12 DEF BeginLabel, BeginTicket, BeginWake
<1>13. CASE BeginSetCustomer(s) \/ BeginMergeCustomers(s) \/ BeginReverse(s)
  <2>1. CASE BeginSetCustomer(s)
    <3>1. PICK t : \/ \E a : Begin(s, [kind |-> "setCustomer", case |-> t, to |-> a], <<t, Share(a)>>)
                   \/ Begin(s, [kind |-> "clearCustomer", case |-> t], <<t>>)
      BY <2>1 DEF BeginSetCustomer
    <3>2. CASE \E a : Begin(s, [kind |-> "setCustomer", case |-> t, to |-> a], <<t, Share(a)>>)
      BY <1>8, <3>2
    <3>3. CASE Begin(s, [kind |-> "clearCustomer", case |-> t], <<t>>)  BY <1>8, <3>3
    <3> QED  BY <3>1, <3>2, <3>3
  <2>2. CASE BeginMergeCustomers(s)
    <3>1. PICK a, b : Begin(s, [kind |-> "findCases", winner |-> a, loser |-> b], Ascending({a, b}))
      BY <2>2 DEF BeginMergeCustomers
    <3> QED  BY <1>8, <3>1
  <2>3. CASE BeginReverse(s)
    <3>1. PICK i, C, rows : Begin(s, [kind |-> "reverse", record |-> i, cases |-> C], rows)
      BY <2>3 DEF BeginReverse
    <3> QED  BY <1>8, <3>1
  <2> QED  BY <1>13, <2>1, <2>2, <2>3
<1> QED
  BY <1>3, <1>4, <1>5, <1>6, <1>9, <1>10, <1>11, <1>12, <1>13 DEF Opens, BeginOperation

LEMMA OpensThread ==
  ASSUME Typed, ThreadInv, NEW s \in Sessions, Opens(s)
  PROVE  ThreadInv' /\ NumbersKept
<1>0. /\ Present' = Present /\ TellsKnown' /\ AbsentEmpty' /\ EventsTellState' /\ NumbersKept
  BY NothingWritten DEF Opens
<1>1. /\ AimOf(s)'
      /\ tx'[s].kind = "start" =>
           \A u \in Sessions \ {s} : tx[u] # None /\ tx[u].kind = "start" => tx[u].conv # tx'[s].conv
  BY OpensAims
<1>2. \A u \in Sessions \ {s} : tx'[u] = tx[u] /\ todo'[u] = todo[u] /\ held'[u] = held[u] /\ tells'[u] = tells[u]
  <2>1. UNCHANGED tells  BY DEF Opens
  <2>2. \E t, rows : Begin(s, t, rows)
    BY DEF Opens, BeginOperation, BeginSetState, BeginSnooze, BeginMerge, BeginBulk, BeginLabel, BeginTicket,
           BeginSetCustomer, BeginMergeCustomers, BeginReverse, BeginWake, BeginTell, BeginPost, BeginStart
  <2> QED  BY <2>1, <2>2 DEF Begin, Typed, SessionsTyped
<1>3. Aims'
  <2>1. ASSUME NEW u \in Sessions \ {s} PROVE AimOf(u)'
    <3>1. AimOf(u)  BY DEF ThreadInv, Aims
    <3> QED  BY <1>0, <1>2, <3>1 DEF AimOf
  <2> QED  BY <1>1, <2>1 DEF Aims
<1>4. NewAlone'  BY <1>1, <1>2 DEF NewAlone, ThreadInv
<1> QED  BY <1>0, <1>3, <1>4 DEF ThreadInv

LEMMA LocksThread ==
  ASSUME Typed, ThreadInv, NEW s \in Sessions, Lock(s) \/ FindCases(s)
  PROVE  ThreadInv' /\ NumbersKept
<1>0. /\ UNCHANGED <<store, tells>>
      /\ tx \in [Sessions -> Operations \cup {None}] /\ todo \in [Sessions -> Seq(Named)]
      /\ held \in [Sessions -> SUBSET Rows]
      /\ NewAlone /\ \A u \in Sessions : AimOf(u)
  BY DEF Lock, FindCases, Typed, SessionsTyped, ThreadInv, Aims
<1>1. Present' = Present /\ TellsKnown' /\ AbsentEmpty' /\ EventsTellState' /\ NumbersKept
  BY <1>0, NothingWritten
<1>2. CASE Lock(s)
  <2>1. UNCHANGED tx  BY <1>2 DEF Lock
  <2>2. \A u \in Sessions \ {s} : todo'[u] = todo[u] /\ held'[u] = held[u]
    BY <1>0, <1>2 DEF Lock
  <2>3. /\ todo'[s] = todo[s] \/ todo'[s] = Tail(todo[s])
        /\ held'[s] = held[s] \cup Wants(s) /\ todo[s] # <<>>
    BY <1>0, <1>2 DEF Lock
  <2>4. ASSUME tx[s].kind = "bulk", tx[s] # None,
               \A i \in DOMAIN todo[s] : todo[s][i] \in Present,
               held[s] \cap Conversations \subseteq Present
        PROVE  /\ \A i \in DOMAIN todo'[s] : todo'[s][i] \in Present
               /\ held'[s] \cap Conversations \subseteq Present
    <3>1. todo[s] \in Seq(Named)  BY <1>0
    <3>2. \A i \in DOMAIN Tail(todo[s]) : i + 1 \in DOMAIN todo[s] /\ Tail(todo[s])[i] = todo[s][i + 1]
      BY <2>3, <3>1
    <3>3. \A i \in DOMAIN todo'[s] : todo'[s][i] \in Present  BY <2>3, <2>4, <3>2
    <3>4. Head(todo[s]) \in Present  BY <2>3, <2>4, <3>1
    <3>5. Wants(s) \cap Conversations \subseteq Present
      BY <2>3, <3>4, ConversationAssumption DEF Wants
    <3> QED  BY <2>3, <2>4, <3>3, <3>5
  <2>5. AimOf(s)'  BY <1>0, <1>1, <2>1, <2>4 DEF AimOf
  <2>6. \A u \in Sessions \ {s} : AimOf(u)'  BY <1>0, <1>1, <2>1, <2>2 DEF AimOf
  <2>7. NewAlone'  BY <1>0, <2>1 DEF NewAlone
  <2> QED  BY <1>1, <2>5, <2>6, <2>7 DEF ThreadInv, Aims
<1>3. CASE FindCases(s)
  <2>1. \A u \in Sessions \ {s} : tx'[u] = tx[u] /\ todo'[u] = todo[u] /\ held'[u] = held[u]
    BY <1>0, <1>3 DEF FindCases
  <2>2. tx'[s].kind = "mergeCustomers"  BY <1>0, <1>3 DEF FindCases
  <2>3. AimOf(s)'  BY <2>2 DEF AimOf
  <2>4. \A u \in Sessions \ {s} : AimOf(u)'  BY <1>0, <1>1, <2>1 DEF AimOf
  <2>5. NewAlone'
    <3> SUFFICES ASSUME NEW u \in Sessions, NEW v \in Sessions, u # v, tx'[u] # None, tx'[v] # None,
                        tx'[u].kind = "start", tx'[v].kind = "start"
                 PROVE  tx'[u].conv # tx'[v].conv
      BY DEF NewAlone
    <3>1. u # s /\ v # s  BY <2>2
    <3> QED  BY <1>0, <2>1, <3>1 DEF NewAlone
  <2> QED  BY <1>1, <2>3, <2>4, <2>5 DEF ThreadInv, Aims
<1> QED  BY <1>2, <1>3

LEMMA UndoneThread ==
  ASSUME Typed, ThreadInv, NEW s \in Sessions, Undone(s)
  PROVE  ThreadInv' /\ NumbersKept
<1>0. /\ \A u \in Sessions \ {s} : tx'[u] = tx[u] /\ todo'[u] = todo[u] /\ held'[u] = held[u] /\ tells'[u] = tells[u]
      /\ tx'[s] = None /\ tells'[s] = {}
  BY DEF Undone, Close, Typed, SessionsTyped
<1>1. Present' = Present /\ TellsKnown' /\ AbsentEmpty' /\ EventsTellState' /\ NumbersKept
  BY <1>0, NothingWritten DEF Undone
<1>2. Aims' /\ NewAlone'  BY <1>0, <1>1 DEF ThreadInv, Aims, AimOf, NewAlone
<1> QED  BY <1>1, <1>2 DEF ThreadInv

LEMMA EndsThread ==
  ASSUME Typed, ThreadInv, NEW s \in Sessions, Ends(s)
  PROVE  ThreadInv' /\ NumbersKept
<1>0. ThreadStep(s)  BY CommitSteps DEF Ends, CanCommit
<1>1. /\ \A u \in Sessions \ {s} : tx'[u] = tx[u] /\ todo'[u] = todo[u] /\ held'[u] = held[u]
      /\ tx'[s] = None
  BY DEF Ends, Close, Typed, SessionsTyped
<1>2. tx[s] # None  BY DEF Ends, CanCommit
<1>3. Aims'
  <2>1. AimOf(s)'  BY <1>1 DEF AimOf
  <2>2. ASSUME NEW u \in Sessions \ {s} PROVE AimOf(u)'
    <3>1. AimOf(u) /\ NewAlone  BY DEF ThreadInv, Aims
    <3>2. tells'[u] = tells[u] /\ Present \subseteq Present'  BY <1>0 DEF ThreadStep
    <3>3. ASSUME tx[u] # None, tx[u].kind = "start" PROVE tx[u].conv \notin Present'
      <4>1. tx[u].conv \in Conversations \ Present
        BY <3>1, <3>3, Fields DEF AimOf, Typed, SessionsTyped
      <4>2. tx[s].kind = "start" => tx[s].conv # tx[u].conv  BY <1>2, <3>1, <3>3 DEF NewAlone
      <4> QED  BY <1>0, <4>1, <4>2 DEF ThreadStep
    <3> QED  BY <1>1, <3>1, <3>2, <3>3, AimStays
  <2> QED  BY <2>1, <2>2 DEF Aims
<1>4. NewAlone'  BY <1>1 DEF ThreadInv, NewAlone
<1>5. AbsentEmpty'
  <2> SUFFICES ASSUME NEW c \in Conversations, c \notin Present' PROVE thread'[c] = <<>>
    BY DEF AbsentEmpty
  <2>1. c \notin Present  BY <1>0 DEF ThreadStep
  <2>2. thread[c] = <<>>  BY <2>1 DEF ThreadInv, AbsentEmpty
  <2>3. CASE thread'[c] = thread[c]  BY <2>2, <2>3
  <2>4. CASE tx[s].kind = "start" /\ c = tx[s].conv
    <3>1. Effects(s) /\ tx[s] \in Operations  BY <1>2 DEF Ends, Typed, SessionsTyped
    <3>2. CommitStart(s)
      BY <2>4, <3>1 DEF Effects, CommitPost, CommitState, CommitSnooze, CommitMerge, CommitBulk, CommitWake,
                        CommitTell, CommitCustomer
    <3>3. state \in [Conversations -> States]  BY DEF Typed, StoreTyped
    <3>4. state'[c] # "absent"  BY <2>4, <3>2, <3>3 DEF CommitStart
    <3> QED  BY <3>4 DEF Present
  <2> QED  BY <1>0, <2>1, <2>3, <2>4 DEF ThreadStep
<1> QED  BY <1>0, <1>3, <1>4, <1>5 DEF ThreadInv, ThreadStep

LEMMA ThreadStepInv ==
  ASSUME Typed, ClaimInv, ThreadInv, [Next]_vars
  PROVE  ThreadInv' /\ NumbersKept
<1>1. CASE Quiet
  <2>1. Present' = Present /\ TellsKnown' /\ AbsentEmpty' /\ EventsTellState' /\ NumbersKept
    BY <1>1, NothingWritten DEF Quiet
  <2>2. Aims' /\ NewAlone'  BY <1>1, <2>1 DEF Quiet, locks, ThreadInv, Aims, AimOf, NewAlone
  <2> QED  BY <2>1, <2>2 DEF ThreadInv
<1> QED  BY <1>1, StepsOfTransactions, OpensThread, LocksThread, EndsThread, UndoneThread

LEMMA InitThread == Init => ThreadInv
<1> SUFFICES ASSUME Init PROVE ThreadInv  OBVIOUS
<1>1. TellsKnown /\ Aims /\ NewAlone /\ AbsentEmpty
  BY DEF Init, ConvInit, TellsKnown, Aims, AimOf, NewAlone, AbsentEmpty
<1>2. EventsTellState  BY DEF Init, ConvInit, EventsTellState
<1> QED  BY <1>1, <1>2 DEF ThreadInv

-----------------------------------------------------------------------------
(* Locks *)

\* Two sessions never have locks that do not go together.
Exclusive ==
  \A s, u \in Sessions : s # u => \A w \in held[s] : InWay(w) \cap held[u] = {} \/ Together(w, s, u)

\* Of two rows x and y, s has locked neither yet, or x, or both.
Pair(s, x, y) ==
  \/ todo[s] = <<x, y>> /\ held[s] = {}
  \/ todo[s] = <<y>> /\ held[s] = {x}
  \/ todo[s] = <<>> /\ held[s] = {x, y}

\* Transactions that lock one row, and then the counter.
SingleRow == {"post", "state", "snooze", "tell", "label", "clearCustomer"}

\* The way of a transaction through its rows, by its kind.
PathOf(s) ==
  tx[s] # None =>
    /\ tx[s].kind # "bulk" => Counter \notin held[s]
    /\ tx[s].kind \in SingleRow =>
         \/ todo[s] = <<>>
         \/ Tail(todo[s]) = <<>> /\ held[s] = {}
    /\ tx[s].kind = "merge" => \E x, y \in Conversations : x < y /\ Pair(s, x, y)
    /\ tx[s].kind = "start" => Pair(s, Share(tx[s].req.customer), Team)
    /\ tx[s].kind = "setCustomer" => Pair(s, tx[s].case, Share(tx[s].to))
    /\ tx[s].kind = "findCases" =>
         \E x, y \in Customers : x < y /\ {x, y} = {tx[s].winner, tx[s].loser} /\ Pair(s, x, y)
    /\ tx[s].kind = "mergeCustomers" =>
         /\ tx[s].winner # tx[s].loser
         /\ {tx[s].winner, tx[s].loser} \subseteq held[s]
         /\ held[s] \subseteq {tx[s].winner, tx[s].loser} \cup tx[s].cases
         /\ todo[s] \in Seq(tx[s].cases)
    /\ tx[s].kind = "reverse" =>
         LET loser == merges[tx[s].record].loser
         IN  loser \in held[s] \/ (todo[s] # <<>> /\ Head(todo[s]) = loser)
Paths == \A s \in Sessions : PathOf(s)

LockInv == Exclusive /\ Paths

\* Numbers of customers, of what refers to them and of cases.
LEMMA SharesAre ==
  ASSUME NEW a \in Customers
  PROVE  /\ a \in Nat \ {0} /\ Share(a) \in Int /\ Share(a) < 0 /\ Share(Share(a)) = a
         /\ InWay(a) = {a, Share(a)} /\ InWay(Share(a)) = {a}
         /\ Share(a) \notin Customers /\ Share(a) \notin Cases \cup {Counter, Team}
         /\ a \notin Cases \cup {Counter, Team}
<1>1. a \in Nat \ {0} /\ Share(a) \in Int /\ Share(a) < 0 /\ Share(Share(a)) = a
  BY ConversationAssumption DEF Share
<1>2. Share(a) \notin Customers  BY <1>1, ConversationAssumption
<1>3. InWay(a) = {a, Share(a)} /\ InWay(Share(a)) = {a}  BY <1>1, <1>2 DEF InWay
<1>4. Share(a) \notin Cases \cup {Counter, Team} /\ a \notin Cases \cup {Counter, Team}
  BY ConversationAssumption DEF Share
<1> QED  BY <1>1, <1>2, <1>3, <1>4

LEMMA OthersInWay ==
  ASSUME NEW w \in Cases \cup {Counter, Team}
  PROVE  InWay(w) = {w}
<1>1. w \notin Customers  BY ConversationAssumption
<1>2. \A a \in Customers : w # Share(a)  BY SharesAre
<1> QED  BY <1>1, <1>2 DEF InWay

LEMMA InWayTwoWays ==
  ASSUME NEW v \in Rows, NEW w \in Rows, v \in InWay(w)
  PROVE  w \in InWay(v)
<1>1. CASE w \in Customers
  <2>1. v = w \/ v = Share(w)  BY <1>1, SharesAre
  <2> QED  BY <1>1, <2>1, SharesAre
<1>2. CASE \E a \in Customers : w = Share(a)
  <2>1. PICK a \in Customers : w = Share(a)  BY <1>2
  <2>2. v = a  BY <2>1, SharesAre
  <2> QED  BY <2>1, <2>2, SharesAre
<1>3. CASE w \in Cases \cup {Counter, Team}
  <2>1. v = w  BY <1>3, OthersInWay
  <2> QED  BY <1>3, <2>1, OthersInWay
<1> QED  BY <1>1, <1>2, <1>3 DEF Rows

\* A lock is taken only when it goes with every other.
LEMMA LockExclusive ==
  ASSUME Typed, Exclusive, NEW s \in Sessions, Lock(s)
  PROVE  Exclusive'
<1>0. /\ held \in [Sessions -> SUBSET Rows] /\ todo[s] \in Seq(Named) /\ todo[s] # <<>>
      /\ held' = [held EXCEPT ![s] = held[s] \cup Wants(s)]
      /\ \A u \in Sessions \ {s} : \A w \in Wants(s) : InWay(w) \cap held[u] = {} \/ Together(w, s, u)
      /\ tx' = tx
  BY DEF Typed, SessionsTyped, Lock, WaitsFor
<1>1. Wants(s) \subseteq Rows
  <2>1. Head(todo[s]) \in Named  BY <1>0
  <2> QED  BY <2>1, RowsAre DEF Wants
<1>2. SUFFICES ASSUME NEW u \in Sessions, NEW v \in Sessions, u # v,
                      NEW w \in held'[u], NEW x \in InWay(w), x \in held'[v]
               PROVE  Together(w, u, v)
  BY <1>0 DEF Exclusive, Together
<1>3. w \in Rows /\ x \in Rows  BY <1>0, <1>1, <1>2
<1>4. CASE w \in held[u] /\ x \in held[v]  BY <1>2, <1>4 DEF Exclusive
<1>5. CASE u = s /\ w \in Wants(s) /\ x \in held[v]  BY <1>0, <1>2, <1>5
<1>6. CASE v = s /\ x \in Wants(s) /\ w \in held[u]
  <2>1. w \in InWay(x)  BY <1>2, <1>3, InWayTwoWays
  <2>2. Together(x, s, u)  BY <1>0, <1>2, <1>6, <2>1
  <2>3. x \in Conversations  BY <2>2 DEF Together
  <2>4. w = x  BY <2>1, <2>3, RowsAre, OthersInWay
  <2> QED  BY <1>6, <2>2, <2>4 DEF Together
<1> QED  BY <1>0, <1>2, <1>4, <1>5, <1>6

\* Who is not a bulk update locks the next row.
LEMMA LocksNext ==
  ASSUME Typed, NEW s \in Sessions, Lock(s), tx[s].kind # "bulk"
  PROVE  /\ todo[s] # <<>> /\ Head(todo[s]) \in Named /\ Wants(s) = {Head(todo[s])}
         /\ todo'[s] = Tail(todo[s]) /\ held'[s] = held[s] \cup {Head(todo[s])}
<1>0. /\ todo \in [Sessions -> Seq(Named)] /\ held \in [Sessions -> SUBSET Rows] /\ todo[s] # <<>>
  BY DEF Typed, SessionsTyped, Lock
<1>1. Head(todo[s]) \in Named  BY <1>0
<1>2. ~Dirty(s)  BY <1>0 DEF Dirty
<1>3. Wants(s) = {Head(todo[s])}  BY <1>0, <1>2 DEF Wants
<1>4. Wants(s) # {Counter}  BY <1>1, <1>3 DEF Named
<1> QED  BY <1>0, <1>1, <1>3, <1>4 DEF Lock

\* Of two rows, the next one.
LEMMA PairNext ==
  ASSUME NEW s \in Sessions, NEW x, NEW y, Pair(s, x, y), todo[s] # <<>>,
         todo'[s] = Tail(todo[s]), held'[s] = held[s] \cup {Head(todo[s])}
  PROVE  /\ Pair(s, x, y)' /\ Head(todo[s]) \in {x, y}
         /\ held[s] # {} => held[s] = {x} /\ Head(todo[s]) = y
<1>1. CASE todo[s] = <<x, y>> /\ held[s] = {}
  <2>1. Head(<<x, y>>) = x /\ Tail(<<x, y>>) = <<y>>  OBVIOUS
  <2> QED  BY <1>1, <2>1 DEF Pair
<1>2. CASE todo[s] = <<y>> /\ held[s] = {x}
  <2>1. Head(<<y>>) = y /\ Tail(<<y>>) = <<>>  OBVIOUS
  <2> QED  BY <1>2, <2>1 DEF Pair
<1> QED  BY <1>1, <1>2 DEF Pair

LEMMA LockPath ==
  ASSUME Typed, NEW s \in Sessions, PathOf(s), Lock(s)
  PROVE  PathOf(s)'
<1>0. /\ UNCHANGED <<tx, merges>> /\ tx[s] # None /\ todo \in [Sessions -> Seq(Named)]
  BY DEF Lock, store, crm, Typed, SessionsTyped
<1>1. CASE tx[s].kind = "bulk"  BY <1>0, <1>1 DEF PathOf, SingleRow
<1>2. CASE tx[s].kind # "bulk"
  <2>0. /\ todo[s] # <<>> /\ Head(todo[s]) \in Named
        /\ todo'[s] = Tail(todo[s]) /\ held'[s] = held[s] \cup {Head(todo[s])}
    BY <1>2, LocksNext
  <2>1. Counter \notin held'[s]  BY <1>0, <1>2, <2>0 DEF PathOf, Named
  <2>2. CASE tx[s].kind \in SingleRow
    <3>1. Tail(todo[s]) = <<>>  BY <1>0, <2>0, <2>2 DEF PathOf, SingleRow
    <3> QED  BY <1>0, <2>0, <2>1, <2>2, <3>1 DEF PathOf, SingleRow
  <2>3. CASE tx[s].kind = "merge"
    <3>1. PICK x \in Conversations, y \in Conversations : x < y /\ Pair(s, x, y)  BY <1>0, <2>3 DEF PathOf, SingleRow
    <3>2. Pair(s, x, y)'  BY <2>0, <3>1, PairNext
    <3>3. \E v, w \in Conversations : v < w /\ Pair(s, v, w)'  BY <3>1, <3>2
    <3> QED  BY <1>0, <2>1, <2>3, <3>3 DEF PathOf, SingleRow
  <2>4. CASE tx[s].kind = "start"
    <3>1. Pair(s, Share(tx[s].req.customer), Team)  BY <1>0, <2>4 DEF PathOf, SingleRow
    <3> DEFINE x == Share(tx[s].req.customer)
    <3>2. x' = x  BY <1>0 DEF Share
    <3> HIDE DEF x
    <3>3. Pair(s, x, Team)  BY <3>1 DEF x
    <3>4. Pair(s, x, Team)'  BY <2>0, <3>2, <3>3, PairNext DEF Pair
    <3> QED  BY <1>0, <2>1, <2>4, <3>4 DEF PathOf, SingleRow, x
  <2>5. CASE tx[s].kind = "setCustomer"
    <3>1. Pair(s, tx[s].case, Share(tx[s].to))  BY <1>0, <2>5 DEF PathOf, SingleRow
    <3> DEFINE x == tx[s].case  y == Share(tx[s].to)
    <3>2. x' = x /\ y' = y  BY <1>0 DEF Share
    <3> HIDE DEF x, y
    <3>3. Pair(s, x, y)  BY <3>1 DEF x, y
    <3>4. Pair(s, x, y)'  BY <2>0, <3>2, <3>3, PairNext DEF Pair
    <3> QED  BY <1>0, <2>1, <2>5, <3>4 DEF PathOf, SingleRow, x, y
  <2>6. CASE tx[s].kind = "findCases"
    <3>1. PICK x \in Customers, y \in Customers :
            x < y /\ {x, y} = {tx[s].winner, tx[s].loser} /\ Pair(s, x, y)
      BY <1>0, <2>6 DEF PathOf, SingleRow
    <3>2. Pair(s, x, y)'  BY <2>0, <3>1, PairNext
    <3>3. \E v, w \in Customers : v < w /\ {v, w} = {tx'[s].winner, tx'[s].loser} /\ Pair(s, v, w)'
      BY <1>0, <3>1, <3>2
    <3> QED  BY <1>0, <2>1, <2>6, <3>3 DEF PathOf, SingleRow
  <2>7. CASE tx[s].kind = "mergeCustomers"
    <3>1. todo[s] \in Seq(tx[s].cases)  BY <1>0, <2>7 DEF PathOf, SingleRow
    <3>2. Head(todo[s]) \in tx[s].cases /\ Tail(todo[s]) \in Seq(tx[s].cases)
      BY <2>0, <3>1, HeadTailProperties
    <3> QED  BY <1>0, <2>0, <2>1, <2>7, <3>2 DEF PathOf, SingleRow
  <2>8. CASE tx[s].kind = "reverse"
    BY <1>0, <2>0, <2>1, <2>8 DEF PathOf, SingleRow
  <2>9. CASE tx[s].kind \notin SingleRow \cup {"merge", "start", "setCustomer", "findCases", "mergeCustomers", "reverse"}
    BY <1>0, <2>1, <2>9 DEF PathOf, SingleRow
  <2> QED  BY <2>2, <2>3, <2>4, <2>5, <2>6, <2>7, <2>8, <2>9
<1> QED  BY <1>1, <1>2

\* Everybody else's way stays; records keep their losers.
LEMMA PathStays ==
  ASSUME Typed, NEW u \in Sessions, PathOf(u), RecordsStay,
         tx'[u] = tx[u], todo'[u] = todo[u], held'[u] = held[u]
  PROVE  PathOf(u)'
<1>1. CASE tx[u] # None /\ tx[u].kind = "reverse"
  <2>1. tx[u].record \in 1..Len(merges)  BY <1>1 DEF Typed, Recorded
  <2>2. merges'[tx[u].record].loser = merges[tx[u].record].loser  BY <2>1 DEF RecordsStay
  <2> QED  BY <1>1, <2>2 DEF PathOf
<1>2. \A x, y : Pair(u, x, y) => Pair(u, x, y)'  BY DEF Pair
<1>3. CASE tx[u] # None /\ tx[u].kind \in {"merge", "findCases"}
  <2>1. tx[u].kind = "merge" => \E x, y \in Conversations : x < y /\ Pair(u, x, y)'
    BY <1>2, <1>3 DEF PathOf
  <2>2. tx[u].kind = "findCases" =>
          \E x, y \in Customers : x < y /\ {x, y} = {tx'[u].winner, tx'[u].loser} /\ Pair(u, x, y)'
    BY <1>2, <1>3 DEF PathOf
  <2> QED  BY <1>3, <2>1, <2>2 DEF PathOf
<1>4. CASE tx[u] # None /\ tx[u].kind \in {"start", "setCustomer"}
  BY <1>2, <1>4 DEF PathOf, Share, Pair
<1>5. CASE ~(tx[u] # None /\ tx[u].kind \in {"reverse", "merge", "findCases", "start", "setCustomer"})
  BY <1>5 DEF PathOf
<1> QED  BY <1>1, <1>3, <1>4, <1>5

LEMMA OpensPath ==
  ASSUME Typed, NEW s \in Sessions, Opens(s)
  PROVE  /\ PathOf(s)' /\ tx'[s].kind # "mergeCustomers"
         /\ tx'[s].kind = "reverse" => ~merges[tx'[s].record].reversed
         /\ \A u \in Sessions \ {s} : tx'[u] = tx[u]
<1>0. /\ UNCHANGED merges /\ customers \subseteq Customers /\ merges \in Seq(Record)
      /\ tx \in [Sessions -> Operations \cup {None}] /\ todo \in [Sessions -> Seq(Named)]
      /\ tx[s] = None => held[s] = {}
  BY DEF Opens, store, crm, Typed, SessionsTyped, StoreTyped
<1>1. ASSUME NEW t, NEW rows, Begin(s, t, rows)
      PROVE  tx'[s] = t /\ todo'[s] = rows /\ held'[s] = {}
  BY <1>0, <1>1 DEF Begin
<1> DEFINE PathOfNew(t, rows) ==
      /\ t.kind \in SingleRow => Tail(rows) = <<>>
      /\ t.kind = "merge" => \E x, y \in Conversations : x < y /\ rows = <<x, y>>
      /\ t.kind = "start" => rows = <<Share(t.req.customer), Team>>
      /\ t.kind = "setCustomer" => rows = <<t.case, Share(t.to)>>
      /\ t.kind = "findCases" =>
           \E x, y \in Customers : x < y /\ {x, y} = {t.winner, t.loser} /\ rows = <<x, y>>
      /\ t.kind # "mergeCustomers"
      /\ t.kind = "reverse" =>
           rows # <<>> /\ Head(rows) = merges[t.record].loser /\ ~merges[t.record].reversed
<1>2. SUFFICES \E t, rows : Begin(s, t, rows) /\ PathOfNew(t, rows)
  <2>1. PICK t, rows : Begin(s, t, rows) /\ PathOfNew(t, rows)  BY <1>2
  <2>2. tx'[s] = t /\ todo'[s] = rows /\ held'[s] = {}  BY <1>1, <2>1
  <2>3. \A x, y : rows = <<x, y>> => Pair(s, x, y)'  BY <2>2 DEF Pair
  <2>4. t.kind = "start" => Pair(s, Share(tx[s].req.customer), Team)'
    BY <2>1, <2>2 DEF Pair, Share
  <2>5. t.kind = "setCustomer" => Pair(s, tx[s].case, Share(tx[s].to))'
    BY <2>1, <2>2 DEF Pair, Share
  <2>6. t.kind = "merge" => \E x, y \in Conversations : x < y /\ Pair(s, x, y)'
    BY <2>1, <2>3
  <2>7. t.kind = "findCases" =>
          \E x, y \in Customers : x < y /\ {x, y} = {t.winner, t.loser} /\ Pair(s, x, y)'
    BY <2>1, <2>3
  <2>8. PathOf(s)'  BY <1>0, <2>1, <2>2, <2>4, <2>5, <2>6, <2>7 DEF PathOf
  <2>9. \A u \in Sessions \ {s} : tx'[u] = tx[u]  BY <1>0, <2>1 DEF Begin
  <2> QED  BY <2>1, <2>2, <2>8, <2>9
<1>3. \A x : Tail(<<x>>) = <<>>  OBVIOUS
<1>4. ASSUME NEW k \in SingleRow, NEW t, t.kind = k, NEW x
      PROVE  PathOfNew(t, <<x>>)
  BY <1>3, <1>4 DEF SingleRow
<1>5. CASE BeginSetState(s)
  <2>1. PICK c, to : Begin(s, [kind |-> "state", conv |-> c, to |-> to], <<c>>)  BY <1>5 DEF BeginSetState
  <2>2. PathOfNew([kind |-> "state", conv |-> c, to |-> to], <<c>>)  BY <1>4 DEF SingleRow
  <2> QED  BY <2>1, <2>2
<1>6. CASE BeginSnooze(s) \/ BeginTell(s)
  <2>1. PICK c : Begin(s, [kind |-> "snooze", conv |-> c], <<c>>) \/ Begin(s, [kind |-> "tell", conv |-> c], <<c>>)
    BY <1>6 DEF BeginSnooze, BeginTell
  <2>2. PathOfNew([kind |-> "snooze", conv |-> c], <<c>>) /\ PathOfNew([kind |-> "tell", conv |-> c], <<c>>)
    BY <1>4 DEF SingleRow
  <2> QED  BY <2>1, <2>2
<1>7. CASE BeginLabel(s) \/ BeginTicket(s)
  <2>1. PICK c : Begin(s, [kind |-> "label"], <<c>>)  BY <1>7 DEF BeginLabel, BeginTicket
  <2>2. PathOfNew([kind |-> "label"], <<c>>)  BY <1>4 DEF SingleRow
  <2> QED  BY <2>1, <2>2
<1>8. CASE BeginMerge(s)
  <2>1. PICK a \in Conversations, b \in Conversations :
          a # b /\ Begin(s, [kind |-> "merge", source |-> a, target |-> b], MergeRows(a, b))
    BY <1>8 DEF BeginMerge, Present
  <2>2. \E x, y \in Conversations : x < y /\ MergeRows(a, b) = <<x, y>>
    <3>1. a \in Nat /\ b \in Nat  BY ConversationAssumption
    <3>2. CASE a < b  BY <3>2 DEF MergeRows
    <3>3. CASE b < a  BY <3>1, <3>3 DEF MergeRows
    <3> QED  BY <2>1, <3>1, <3>2, <3>3
  <2>3. PathOfNew([kind |-> "merge", source |-> a, target |-> b], MergeRows(a, b))  BY <2>2 DEF SingleRow
  <2> QED  BY <2>1, <2>3
<1>9. CASE BeginBulk(s)
  <2>1. PICK to, rows : Begin(s, [kind |-> "bulk", to |-> to], rows)  BY <1>9 DEF BeginBulk
  <2>2. PathOfNew([kind |-> "bulk", to |-> to], rows)  BY DEF SingleRow
  <2> QED  BY <2>1, <2>2
<1>10. CASE BeginWake(s)
  <2>1. PICK rows : Begin(s, [kind |-> "wake"], rows)  BY <1>10 DEF BeginWake
  <2>2. PathOfNew([kind |-> "wake"], rows)  BY DEF SingleRow
  <2> QED  BY <2>1, <2>2
<1>11. CASE BeginSetCustomer(s)
  <2>1. PICK t : \/ \E a : Begin(s, [kind |-> "setCustomer", case |-> t, to |-> a], <<t, Share(a)>>)
                 \/ Begin(s, [kind |-> "clearCustomer", case |-> t], <<t>>)
    BY <1>11 DEF BeginSetCustomer
  <2>2. \A a : PathOfNew([kind |-> "setCustomer", case |-> t, to |-> a], <<t, Share(a)>>)  BY DEF SingleRow
  <2>3. PathOfNew([kind |-> "clearCustomer", case |-> t], <<t>>)  BY <1>4 DEF SingleRow
  <2> QED  BY <2>1, <2>2, <2>3
<1>12. CASE BeginMergeCustomers(s)
  <2>1. PICK a \in Customers, b \in Customers :
          a # b /\ Begin(s, [kind |-> "findCases", winner |-> a, loser |-> b], Ascending({a, b}))
    BY <1>0, <1>12 DEF BeginMergeCustomers
  <2>2. \E x, y \in Customers : x < y /\ {x, y} = {a, b} /\ Ascending({a, b}) = <<x, y>>
    <3>1. a \in Nat /\ b \in Nat  BY ConversationAssumption
    <3>2. CASE a < b  BY <3>1, <3>2, AscendingPair
    <3>3. CASE b < a
      <4>1. Ascending({b, a}) = <<b, a>> /\ {b, a} = {a, b}  BY <3>1, <3>3, AscendingPair
      <4> QED  BY <3>3, <4>1
    <3> QED  BY <2>1, <3>1, <3>2, <3>3
  <2>3. PathOfNew([kind |-> "findCases", winner |-> a, loser |-> b], Ascending({a, b}))  BY <2>2 DEF SingleRow
  <2> QED  BY <2>1, <2>3
<1>13. CASE BeginReverse(s)
  <2>1. PICK i \in DOMAIN merges : ~merges[i].reversed /\ \E p, q :
          /\ p \in Orders(merges[i].cases \cap Conversations) /\ q \in Orders(merges[i].cases \cap Tickets)
          /\ Begin(s, [kind |-> "reverse", record |-> i, cases |-> merges[i].cases], <<merges[i].loser>> \o p \o q)
    BY <1>13 DEF BeginReverse
  <2>2. PICK p, q :
          /\ p \in Orders(merges[i].cases \cap Conversations) /\ q \in Orders(merges[i].cases \cap Tickets)
          /\ Begin(s, [kind |-> "reverse", record |-> i, cases |-> merges[i].cases], <<merges[i].loser>> \o p \o q)
    BY <2>1
  <2>3. merges[i] \in Record  BY <1>0
  <2>4. merges[i].loser \in Named /\ merges[i].cases \subseteq Cases  BY <2>3, RowsAre DEF Record
  <2>5. p \in Seq(Named) /\ q \in Seq(Named)  BY <2>2, <2>4, FiniteCases
  <2> DEFINE rows == <<merges[i].loser>> \o p \o q
  <2>6. rows # <<>> /\ Head(rows) = merges[i].loser
    <3> DEFINE l == merges[i].loser
    <3> HIDE DEF l
    <3>1. l \in Named  BY <2>4 DEF l
    <3>2. <<l>> \o p \o q # <<>> /\ Head(<<l>> \o p \o q) = l  BY <2>5, <3>1
    <3> QED  BY <3>2 DEF l
  <2> HIDE DEF rows
  <2>7. PathOfNew([kind |-> "reverse", record |-> i, cases |-> merges[i].cases], rows)  BY <2>1, <2>6 DEF SingleRow
  <2> QED  BY <2>2, <2>7 DEF rows
<1>14. ASSUME NEW r, BeginPost(s, r) PROVE \E t, rows : Begin(s, t, rows) /\ PathOfNew(t, rows)
  <2>1. Begin(s, [kind |-> "post", req |-> r, conv |-> r.conv], <<r.conv>>)  BY <1>14 DEF BeginPost
  <2>2. PathOfNew([kind |-> "post", req |-> r, conv |-> r.conv], <<r.conv>>)  BY <1>4 DEF SingleRow
  <2> QED  BY <2>1, <2>2
<1>15. ASSUME NEW r, BeginStart(s, r) PROVE \E t, rows : Begin(s, t, rows) /\ PathOfNew(t, rows)
  <2>1. PICK c : Begin(s, [kind |-> "start", req |-> r, conv |-> c], <<Share(r.customer), Team>>)
    BY <1>15 DEF BeginStart
  <2>2. PathOfNew([kind |-> "start", req |-> r, conv |-> c], <<Share(r.customer), Team>>)  BY DEF SingleRow
  <2> QED  BY <2>1, <2>2
<1> QED
  BY <1>5, <1>6, <1>7, <1>8, <1>9, <1>10, <1>11, <1>12, <1>13, <1>14, <1>15 DEF Opens, BeginOperation

LEMMA FindPath ==
  ASSUME Typed, NEW s \in Sessions, PathOf(s), FindCases(s)
  PROVE  /\ PathOf(s)' /\ held' = held /\ tx[s].kind = "findCases"
         /\ tx'[s].kind = "mergeCustomers" /\ tx'[s].winner = tx[s].winner /\ tx'[s].loser = tx[s].loser
         /\ tx'[s].cases = OwnedBy(tx[s].loser)
         /\ held[s] = {tx[s].winner, tx[s].loser} /\ tx[s].winner # tx[s].loser
<1> DEFINE cases == OwnedBy(tx[s].loser)
           t == [kind |-> "mergeCustomers", winner |-> tx[s].winner, loser |-> tx[s].loser, cases |-> cases]
<1>0. /\ tx[s] # None /\ tx[s].kind = "findCases" /\ todo[s] = <<>>
      /\ tx' = [tx EXCEPT ![s] = t] /\ held' = held
      /\ tx \in [Sessions -> Operations \cup {None}] /\ todo \in [Sessions -> Seq(Named)]
  BY DEF FindCases, Typed, SessionsTyped
<1>1. PICK p \in Orders(cases \cap Conversations), q \in Orders(cases \cap Tickets) :
        todo' = [todo EXCEPT ![s] = p \o q]
  BY DEF FindCases
<1>2. p \o q \in Seq(cases)
  <2>1. cases \subseteq Cases  BY DEF OwnedBy
  <2>2. p \in Seq(cases \cap Conversations) /\ q \in Seq(cases \cap Tickets)  BY <2>1, FiniteCases
  <2> HIDE DEF cases
  <2>3. p \in Seq(cases) /\ q \in Seq(cases)  BY <2>2, SeqMonotonic
  <2> QED  BY <2>3, ConcatProperties
<1>3. tx'[s] = t /\ todo'[s] = p \o q  BY <1>0, <1>1
<1>4. PICK x \in Customers, y \in Customers :
        x < y /\ {x, y} = {tx[s].winner, tx[s].loser} /\ Pair(s, x, y)
  BY <1>0 DEF PathOf
<1>5. held[s] = {tx[s].winner, tx[s].loser}
  <2>1. <<>> # <<x, y>> /\ <<>> # <<y>>  OBVIOUS
  <2>2. held[s] = {x, y}  BY <1>0, <1>4, <2>1 DEF Pair
  <2> QED  BY <1>4, <2>2
<1>6. tx[s].winner # tx[s].loser
  <2>1. x \in Nat /\ y \in Nat  BY ConversationAssumption
  <2> QED  BY <1>4, <2>1
<1>7. Counter \notin held[s]  BY <1>0 DEF PathOf
<1> DEFINE l == tx[s].loser  w == tx[s].winner
<1>8. /\ tx'[s].kind = "mergeCustomers" /\ tx'[s].winner = w /\ tx'[s].loser = l
      /\ tx'[s].cases = cases
  BY <1>3
<1> HIDE DEF cases, t, l, w
<1>9. PathOf(s)'
  BY <1>0, <1>2, <1>3, <1>5, <1>6, <1>7, <1>8 DEF PathOf, SingleRow, l, w
<1> QED  BY <1>0, <1>5, <1>6, <1>8, <1>9 DEF l, w, cases

LEMMA LockStep ==
  ASSUME Typed, ClaimInv, LockInv, [Next]_vars
  PROVE  LockInv'
<1>0. Exclusive /\ (\A u \in Sessions : PathOf(u)) /\ Len(merges) \in Nat
      /\ tx \in [Sessions -> Operations \cup {None}] /\ todo \in [Sessions -> Seq(Named)]
      /\ held \in [Sessions -> SUBSET Rows]
  BY LenProperties DEF LockInv, Paths, Typed, SessionsTyped, StoreTyped
<1>1. UNCHANGED merges => RecordsStay  BY <1>0 DEF RecordsStay
<1>2. CASE Quiet
  <2>1. UNCHANGED <<tx, todo, held, merges>>  BY <1>2 DEF Quiet, locks, store, crm
  <2>2. Exclusive'  BY <1>0, <2>1 DEF Exclusive, Together
  <2>3. \A u \in Sessions : PathOf(u)'  BY <1>0, <1>1, <2>1, PathStays
  <2> QED  BY <2>2, <2>3 DEF LockInv, Paths
<1>3. ASSUME NEW s \in Sessions, Opens(s) \/ Lock(s) \/ FindCases(s) PROVE LockInv'
  <2>1. UNCHANGED merges  BY <1>3 DEF Opens, Lock, FindCases, store, crm
  <2>2. \A u \in Sessions \ {s} : tx'[u] = tx[u] /\ todo'[u] = todo[u] /\ held'[u] = held[u]
    <3>1. CASE Opens(s)
      <4>1. \E t, rows : Begin(s, t, rows)
        BY <3>1 DEF Opens, BeginOperation, BeginSetState, BeginSnooze, BeginMerge, BeginBulk, BeginLabel,
             BeginTicket, BeginSetCustomer, BeginMergeCustomers, BeginReverse, BeginWake, BeginTell, BeginPost, BeginStart
      <4> QED  BY <1>0, <4>1 DEF Begin
    <3>2. CASE Lock(s)  BY <1>0, <3>2 DEF Lock
    <3>3. CASE FindCases(s)  BY <1>0, <3>3 DEF FindCases
    <3> QED  BY <1>3, <3>1, <3>2, <3>3
  <2>3. Exclusive'
    <3>1. CASE Lock(s)  BY <1>0, <3>1, LockExclusive
    <3>2. CASE FindCases(s)
      <4>1. held' = held /\ tx[s].kind = "findCases" /\ \A u \in Sessions \ {s} : tx'[u] = tx[u]
        BY <1>0, <3>2 DEF FindCases
      <4>2. \A w : \A u \in Sessions : ~Together(w, s, u) /\ ~Together(w, u, s)
        BY <4>1 DEF Together, Updates
      <4>3. \A w : \A u, v \in Sessions \ {s} : Together(w, u, v)' <=> Together(w, u, v)
        BY <4>1 DEF Together
      <4> QED  BY <1>0, <4>1, <4>2, <4>3 DEF Exclusive
    <3>3. CASE Opens(s)
      <4>1. held' = held
        BY <3>3 DEF Opens, BeginOperation, BeginSetState, BeginSnooze, BeginMerge, BeginBulk, BeginLabel,
             BeginTicket, BeginSetCustomer, BeginMergeCustomers, BeginReverse, BeginWake, BeginTell, BeginPost,
             BeginStart, Begin
      <4>2. held[s] = {}
        BY <3>3 DEF Opens, BeginOperation, BeginSetState, BeginSnooze, BeginMerge, BeginBulk, BeginLabel,
             BeginTicket, BeginSetCustomer, BeginMergeCustomers, BeginReverse, BeginWake, BeginTell, BeginPost,
             BeginStart, Begin, Typed, SessionsTyped
      <4>3. \A w : \A u, v \in Sessions \ {s} : Together(w, u, v)' <=> Together(w, u, v)
        BY <2>2 DEF Together
      <4> QED  BY <1>0, <4>1, <4>2, <4>3 DEF Exclusive
    <3> QED  BY <1>3, <3>1, <3>2, <3>3
  <2>4. PathOf(s)'  BY <1>0, <1>3, OpensPath, LockPath, FindPath
  <2>5. \A u \in Sessions \ {s} : PathOf(u)'  BY <1>0, <1>1, <2>1, <2>2, PathStays
  <2> QED  BY <2>3, <2>4, <2>5 DEF LockInv, Paths
<1>4. ASSUME NEW s \in Sessions, Ends(s) \/ Undone(s) PROVE LockInv'
  <2>1. /\ tx'[s] = None /\ held'[s] = {}
        /\ \A u \in Sessions \ {s} : tx'[u] = tx[u] /\ todo'[u] = todo[u] /\ held'[u] = held[u]
    BY <1>0, <1>4 DEF Ends, Undone, Close
  <2>2. Exclusive'
    <3>1. \A w : \A u, v \in Sessions \ {s} : Together(w, u, v)' <=> Together(w, u, v)
      BY <2>1 DEF Together
    <3> QED  BY <1>0, <2>1, <3>1 DEF Exclusive
  <2>3. RecordsStay
    <3>1. CASE Ends(s)  BY <3>1, EndsRecords
    <3>2. CASE Undone(s)  BY <1>1, <3>2 DEF Undone, store, crm
    <3> QED  BY <1>4, <3>1, <3>2
  <2>4. PathOf(s)'  BY <2>1 DEF PathOf
  <2>5. \A u \in Sessions \ {s} : PathOf(u)'  BY <1>0, <2>1, <2>3, PathStays
  <2> QED  BY <2>2, <2>4, <2>5 DEF LockInv, Paths
<1> QED  BY <1>2, <1>3, <1>4, StepsOfTransactions

LEMMA InitLock == Init => LockInv
BY DEF Init, ConvInit, LockInv, Exclusive, Paths, PathOf

-----------------------------------------------------------------------------
(* Whose the cases are *)

\* A case belongs to a customer who is there, or to none, and then it was given to none.
OwnersThere == \A c \in Cases : owner[c] \in customers \/ (owner[c] = None /\ given[c] = None)

\* s moves the cases of one customer to another.
MergesNow(s) == tx[s] # None /\ tx[s].kind = "mergeCustomers"

\* A conversation that is still to be started is nobody's and on nobody's list.
Unowned ==
  \A c \in Conversations \ Present :
    /\ owner[c] = None
    /\ \A i \in 1..Len(merges) : c \notin merges[i].cases
    /\ \A s \in Sessions : MergesNow(s) => c \notin tx[s].cases

\* A merge has all the loser's cases on its list, and of the others there only
\* some that changed hands since.
ListOf(s) ==
  MergesNow(s) =>
    /\ OwnedBy(tx[s].loser) \subseteq tx[s].cases
    /\ \A c \in tx[s].cases \ entangled : owner[c] = tx[s].loser

OwnerInv == OwnersThere /\ Unowned /\ \A s \in Sessions : ListOf(s)

\* Nobody else has a lock on a customer, or on who refers to it, that a session has locked.
LEMMA CustomerAlone ==
  ASSUME LockInv, NEW s \in Sessions, NEW u \in Sessions, s # u, NEW a \in Customers, a \in held[u]
  PROVE  a \notin held[s] /\ Share(a) \notin held[s]
<1>1. InWay(a) = {a, Share(a)}  BY SharesAre
<1>2. a \notin Conversations  BY ConversationAssumption
<1>3. InWay(a) \cap held[s] = {}  BY <1>2 DEF LockInv, Exclusive, Together
<1> QED  BY <1>1, <1>3

\* At the commit every customer that is locked is there, but the one restored.
LEMMA CommitHolds ==
  ASSUME Typed, LockInv, NEW s \in Sessions, CanCommit(s)
  PROVE  /\ tx[s] \in Operations /\ tx[s] # None
         /\ tx[s].kind = "start" =>
              tx[s].req.customer \in customers /\ Share(tx[s].req.customer) \in held[s]
         /\ tx[s].kind = "setCustomer" => tx[s].to \in customers /\ Share(tx[s].to) \in held[s]
         /\ tx[s].kind = "mergeCustomers" =>
              tx[s].winner \in customers /\ tx[s].winner # tx[s].loser /\ {tx[s].winner, tx[s].loser} \subseteq held[s]
         /\ tx[s].kind = "reverse" => merges[tx[s].record].loser \in held[s]
<1>0. /\ tx[s] \in Operations /\ tx[s] # None /\ todo[s] = <<>> /\ PathOf(s)
      /\ tx[s].kind # "reverse" =>
           \A a \in Customers : a \in held[s] \/ Share(a) \in held[s] => a \in customers
  BY DEF CanCommit, Refused, Typed, SessionsTyped, LockInv, Paths
<1>1. ASSUME NEW x, NEW y, Pair(s, x, y) PROVE x \in held[s] /\ y \in held[s]
  <2>1. <<>> # <<x, y>> /\ <<>> # <<y>>  OBVIOUS
  <2> QED  BY <1>0, <1>1, <2>1 DEF Pair
<1>2. CASE tx[s].kind = "start"
  <2>1. tx[s].req.customer \in Customers
    BY <1>0, <1>2, Fields, RequestAssumption
  <2>2. Share(tx[s].req.customer) \in held[s]  BY <1>0, <1>1, <1>2 DEF PathOf
  <2> QED  BY <1>0, <1>2, <2>1, <2>2
<1>3. CASE tx[s].kind = "setCustomer"
  <2>1. tx[s].to \in Customers  BY <1>0, <1>3, Fields
  <2>2. Share(tx[s].to) \in held[s]  BY <1>0, <1>1, <1>3 DEF PathOf
  <2> QED  BY <1>0, <1>3, <2>1, <2>2
<1>4. CASE tx[s].kind = "mergeCustomers"
  <2>1. tx[s].winner \in Customers  BY <1>0, <1>4, Fields
  <2> QED  BY <1>0, <1>4, <2>1 DEF PathOf
<1>5. CASE tx[s].kind = "reverse"  BY <1>0, <1>5 DEF PathOf
<1> QED  BY <1>0, <1>2, <1>3, <1>4, <1>5

\* A case is given to none, or to a customer who is there and whom no merge has
\* locked, and if a merge has the case on its list, it is known to be entangled.
LEMMA GivenAway ==
  ASSUME Typed, OwnersThere, NEW c \in Cases, NEW a \in customers \cup {None}, NEW lists, GiveCase(c, a, lists)
  PROVE  /\ OwnersThere'
         /\ \A d \in Cases \ {c} : owner'[d] = owner[d]
         /\ \A u \in Sessions :
              (/\ MergesNow(u) /\ tx[u].loser # a /\ ListOf(u)
               /\ c \notin tx[u].cases \/ tx[u].cases \in lists)
              => /\ {d \in Cases : owner'[d] = tx[u].loser} \subseteq tx[u].cases
                 /\ \A d \in tx[u].cases \ entangled' : owner'[d] = tx[u].loser
<1>0. /\ owner \in [Cases -> Customers \cup {None}] /\ given \in [Cases -> Customers \cup {None}]
      /\ tx \in [Sessions -> Operations \cup {None}]
      /\ owner' = [owner EXCEPT ![c] = a] /\ given' = [given EXCEPT ![c] = a]
      /\ customers' = customers
      /\ entangled' = entangled \cup ({c} \cap UNION (lists \cup Standing(DOMAIN merges)))
  BY DEF GiveCase, Typed, StoreTyped, SessionsTyped
<1>1. \A d \in Cases \ {c} : owner'[d] = owner[d] /\ given'[d] = given[d]  BY <1>0
<1>2. owner'[c] = a /\ given'[c] = a  BY <1>0
<1>3. OwnersThere'  BY <1>0, <1>1, <1>2 DEF OwnersThere
<1>4. ASSUME NEW u \in Sessions, MergesNow(u), tx[u].loser # a, ListOf(u),
             c \notin tx[u].cases \/ tx[u].cases \in lists
      PROVE  /\ {d \in Cases : owner'[d] = tx[u].loser} \subseteq tx[u].cases
             /\ \A d \in tx[u].cases \ entangled' : owner'[d] = tx[u].loser
  <2>1. tx[u].cases \subseteq Cases  BY <1>0, <1>4, Fields DEF MergesNow
  <2>2. ASSUME NEW d \in Cases, owner'[d] = tx[u].loser PROVE d \in tx[u].cases
    <3>1. d # c  BY <1>2, <1>4, <2>2
    <3>2. owner[d] = tx[u].loser  BY <1>1, <2>2, <3>1
    <3> QED  BY <1>4, <3>2 DEF ListOf, OwnedBy
  <2>3. ASSUME NEW d \in tx[u].cases, d \notin entangled' PROVE owner'[d] = tx[u].loser
    <3>1. d \notin entangled /\ d \in Cases  BY <1>0, <2>1, <2>3
    <3>2. d # c
      <4>1. SUFFICES ASSUME d = c PROVE FALSE  OBVIOUS
      <4>2. c \in UNION lists  BY <1>4, <2>3, <4>1
      <4> QED  BY <1>0, <2>3, <4>1, <4>2
    <3> QED  BY <1>1, <1>4, <2>3, <3>1, <3>2 DEF ListOf
  <2> QED  BY <2>2, <2>3
<1> QED  BY <1>1, <1>3, <1>4

\* What a commit of s must keep of the lists of the others.
ListsKept(s) ==
  \A u \in Sessions \ {s} : MergesNow(u) =>
    /\ {d \in Cases : owner'[d] = tx[u].loser} \subseteq tx[u].cases
    /\ \A d \in tx[u].cases \ entangled' : owner'[d] = tx[u].loser

LEMMA StartOwner ==
  ASSUME Typed, ThreadInv, LockInv, OwnerInv, NEW s \in Sessions, CanCommit(s), CommitStart(s)
  PROVE  /\ OwnersThere' /\ ListsKept(s) /\ UNCHANGED merges
         /\ \A c \in Conversations \ Present' : owner'[c] = owner[c]
<1> DEFINE c == tx[s].conv  a == tx[s].req.customer
<1>0. /\ tx[s] \in Operations /\ tx[s] # None /\ tx[s].kind = "start"
      /\ a \in customers /\ Share(a) \in held[s] /\ a \in Customers
      /\ c \in Conversations \ Present /\ c \in Cases
      /\ GiveCase(c, a, {}) /\ state' = [state EXCEPT ![c] = IF tx[s].req.author = "customer" THEN "open" ELSE "new"]
  <2>1. tx[s] \in Operations /\ tx[s] # None /\ tx[s].kind = "start"  BY CommitHolds DEF CommitStart
  <2>2. a \in customers /\ Share(a) \in held[s]  BY <2>1, CommitHolds
  <2>3. customers \subseteq Customers  BY DEF Typed, StoreTyped
  <2>4. c \in Conversations  BY <2>1, Fields
  <2>5. c \notin Present  BY <2>1 DEF ThreadInv, Aims, AimOf
  <2> QED  BY <2>1, <2>2, <2>3, <2>4, <2>5, RowsAre DEF CommitStart
<1> HIDE DEF c, a
<1>1. ListsKept(s)
  <2> SUFFICES ASSUME NEW u \in Sessions \ {s}, MergesNow(u)
               PROVE  /\ {d \in Cases : owner'[d] = tx[u].loser} \subseteq tx[u].cases
                      /\ \A d \in tx[u].cases \ entangled' : owner'[d] = tx[u].loser
    BY DEF ListsKept
  <2>1. c \notin tx[u].cases /\ ListOf(u)  BY <1>0 DEF OwnerInv, Unowned
  <2>2. tx[u].loser # a
    <3>1. tx[u].loser \in held[u]  BY DEF MergesNow, LockInv, Paths, PathOf
    <3> QED  BY <1>0, <3>1, CustomerAlone
  <2> QED  BY <1>0, <2>1, <2>2, GivenAway DEF OwnerInv
<1>2. OwnersThere' /\ \A d \in Cases \ {c} : owner'[d] = owner[d]
  BY <1>0, GivenAway DEF OwnerInv
<1>3. c \in Present'
  <2>1. state \in [Conversations -> States]  BY DEF Typed, StoreTyped
  <2> QED  BY <1>0, <2>1 DEF Present
<1> QED  BY <1>0, <1>1, <1>2, <1>3, RowsAre DEF GiveCase

LEMMA SetCustomerOwner ==
  ASSUME Typed, LockInv, OwnerInv, NEW s \in Sessions, CanCommit(s), NEW a,
         \/ tx[s].kind = "setCustomer" /\ a = tx[s].to
         \/ tx[s].kind = "clearCustomer" /\ a = None,
         GiveCase(tx[s].case, a, OpenLists(s))
  PROVE  /\ OwnersThere' /\ ListsKept(s) /\ UNCHANGED merges
         /\ \A c \in Conversations : owner'[c] = owner[c]
<1> DEFINE c == tx[s].case
<1>0. /\ tx[s] \in Operations /\ a \in customers \cup {None}
      /\ a # None => Share(a) \in held[s] /\ a \in Customers
      /\ c \in Tickets /\ c \in Cases
      /\ GiveCase(c, a, OpenLists(s))
  <2>1. tx[s] \in Operations  BY CommitHolds
  <2>2. CASE tx[s].kind = "setCustomer" /\ a = tx[s].to
    <3>1. a \in customers /\ Share(a) \in held[s]  BY <2>2, CommitHolds
    <3>2. c \in Tickets /\ a \in Customers  BY <2>1, <2>2, Fields
    <3> QED  BY <2>1, <3>1, <3>2, RowsAre
  <2>3. CASE tx[s].kind = "clearCustomer" /\ a = None
    <3>1. c \in Tickets  BY <2>1, <2>3, Fields
    <3> QED  BY <2>1, <2>3, <3>1, RowsAre
  <2> QED  BY <2>2, <2>3
<1> HIDE DEF c
<1>1. ListsKept(s)
  <2> SUFFICES ASSUME NEW u \in Sessions \ {s}, MergesNow(u)
               PROVE  /\ {d \in Cases : owner'[d] = tx[u].loser} \subseteq tx[u].cases
                      /\ \A d \in tx[u].cases \ entangled' : owner'[d] = tx[u].loser
    BY DEF ListsKept
  <2>1. tx[u].cases \in OpenLists(s) /\ ListOf(u)  BY DEF OwnerInv, OpenLists, MergesNow
  <2>2. tx[u].loser # a
    <3>1. tx[u].loser \in held[u]  BY DEF MergesNow, LockInv, Paths, PathOf
    <3>2. tx[u].loser # None
      <4>1. tx[u] \in Operations  BY DEF MergesNow, Typed, SessionsTyped
      <4> QED  BY <4>1, Fields, CustomerAssumption DEF MergesNow
    <3> QED  BY <1>0, <3>1, <3>2, CustomerAlone
  <2> QED  BY <1>0, <2>1, <2>2, GivenAway DEF OwnerInv
<1>2. OwnersThere' /\ \A d \in Cases \ {c} : owner'[d] = owner[d]
  BY <1>0, GivenAway DEF OwnerInv
<1> QED  BY <1>0, <1>1, <1>2, RowsAre, ConversationAssumption DEF GiveCase

\* The merge that commits has missed none of the loser's cases.
LEMMA AbsorbOwner ==
  ASSUME Typed, LockInv, OwnerInv, NEW s \in Sessions, CanCommit(s),
         tx[s].kind = "mergeCustomers", AbsorbCustomer(tx[s].winner, tx[s].loser, tx[s].cases)
  PROVE  /\ OwnersThere' /\ ListsKept(s)
         /\ \A c \in Conversations \ Present : owner'[c] = owner[c]
         /\ \A i \in 1..Len(merges') : i \in 1..Len(merges) \/ merges'[i].cases = tx[s].cases
<1> DEFINE w == tx[s].winner  l == tx[s].loser  C == tx[s].cases
<1>0. /\ tx[s] \in Operations /\ tx[s] # None /\ MergesNow(s) /\ ListOf(s)
      /\ w \in customers /\ w # l /\ {w, l} \subseteq held[s] /\ C \subseteq Cases /\ l \in Customers /\ w \in Customers
      /\ OwnedBy(l) \subseteq C
      /\ None \notin Customers
      /\ owner \in [Cases -> Customers \cup {None}]
      /\ merges \in Seq(Record)
  BY CommitHolds, Fields, CustomerAssumption DEF OwnerInv, ListOf, MergesNow, Typed, StoreTyped
<1>1. /\ customers' = customers \ {l} /\ UNCHANGED <<given, entangled>>
      /\ owner' = [c \in Cases |-> IF c \in C THEN w ELSE IF owner[c] = l THEN None ELSE owner[c]]
      /\ merges' = Append(merges, [winner |-> w, loser |-> l, cases |-> C, reversed |-> FALSE])
  BY DEF AbsorbCustomer
<1>2. \A c \in C : owner[c] = l \/ c \in entangled  BY <1>0 DEF ListOf
<1> HIDE DEF w, l, C
<1>3. \A c \in Cases : owner'[c] = IF c \in C THEN w ELSE owner[c]
  BY <1>0, <1>1 DEF OwnedBy
<1>4. OwnersThere'
  <2> SUFFICES ASSUME NEW c \in Cases PROVE owner'[c] \in customers' \/ (owner'[c] = None /\ given'[c] = None)
    BY DEF OwnersThere
  <2>1. CASE c \in C  BY <1>0, <1>1, <1>3, <2>1
  <2>2. CASE c \notin C
    <3>1. owner'[c] = owner[c] /\ owner[c] # l  BY <1>0, <1>3, <2>2 DEF OwnedBy
    <3>2. owner[c] \in customers \/ (owner[c] = None /\ given[c] = None)  BY DEF OwnerInv, OwnersThere
    <3> QED  BY <1>1, <3>1, <3>2
  <2> QED  BY <2>1, <2>2
<1>5. ListsKept(s)
  <2> SUFFICES ASSUME NEW u \in Sessions \ {s}, MergesNow(u)
               PROVE  /\ {d \in Cases : owner'[d] = tx[u].loser} \subseteq tx[u].cases
                      /\ \A d \in tx[u].cases \ entangled : owner'[d] = tx[u].loser
    BY <1>1 DEF ListsKept
  <2>0. tx[u] \in Operations  BY DEF MergesNow, Typed, SessionsTyped
  <2>1. ListOf(u) /\ tx[u].loser \in held[u] /\ tx[u].loser \in Customers /\ tx[u].cases \subseteq Cases
    BY <2>0, Fields DEF OwnerInv, MergesNow, LockInv, Paths, PathOf
  <2>2. tx[u].loser # l /\ tx[u].loser # w  BY <1>0, <2>1, CustomerAlone
  <2>3. ASSUME NEW d \in Cases, owner'[d] = tx[u].loser PROVE d \in tx[u].cases
    <3>1. owner[d] = tx[u].loser  BY <1>3, <2>2, <2>3
    <3> QED  BY <2>1, <3>1 DEF ListOf, OwnedBy
  <2>4. ASSUME NEW d \in tx[u].cases, d \notin entangled PROVE owner'[d] = tx[u].loser
    <3>1. owner[d] = tx[u].loser /\ d \in Cases  BY <2>1, <2>4 DEF ListOf
    <3>2. d \notin C  BY <1>2, <2>2, <2>4, <3>1
    <3> QED  BY <1>3, <3>1, <3>2
  <2> QED  BY <2>3, <2>4
<1>6. \A c \in Conversations \ Present : owner'[c] = owner[c]
  <2> SUFFICES ASSUME NEW c \in Conversations, c \notin Present PROVE owner'[c] = owner[c]  OBVIOUS
  <2>1. c \notin C  BY <1>0 DEF OwnerInv, Unowned, C
  <2> QED  BY <1>3, <2>1, RowsAre
<1>7. \A i \in 1..Len(merges') : i \in 1..Len(merges) \/ merges'[i].cases = C
  <2> DEFINE r == [winner |-> w, loser |-> l, cases |-> C, reversed |-> FALSE]
  <2>1. r.cases = C /\ r \in Record  BY <1>0 DEF Record
  <2> HIDE DEF r
  <2>2. merges' = Append(merges, r)  BY <1>1 DEF r
  <2>3. Len(merges') = Len(merges) + 1 /\ Len(merges) \in Nat /\ merges'[Len(merges) + 1] = r
    BY <1>0, <2>1, <2>2, AppendProperties, LenProperties
  <2> QED  BY <2>1, <2>3
<1> QED  BY <1>4, <1>5, <1>6, <1>7 DEF C

LEMMA RestoreOwner ==
  ASSUME Typed, LockInv, OwnerInv, NEW s \in Sessions, CanCommit(s),
         tx[s].kind = "reverse", RestoreCustomer(tx[s].record, OpenLists(s))
  PROVE  /\ OwnersThere' /\ ListsKept(s)
         /\ \A c \in Conversations \ Present : owner'[c] = owner[c]
         /\ Len(merges') = Len(merges)
<1> DEFINE i == tx[s].record  m == merges[i]
<1>0. /\ tx[s] # None /\ m.loser \in held[s] /\ i \in 1..Len(merges)
      /\ merges \in Seq(Record) /\ m \in Record
  <2>1. tx[s] # None /\ m.loser \in held[s]  BY CommitHolds
  <2>2. i \in 1..Len(merges)  BY <2>1 DEF Typed, Recorded
  <2>3. merges \in Seq(Record)  BY DEF Typed, StoreTyped
  <2> QED  BY <2>1, <2>2, <2>3
<1>1. m.loser \in Customers /\ m.cases \subseteq Cases  BY <1>0 DEF Record
<1>2. /\ customers' = customers \cup {m.loser} /\ given' = given
      /\ owner' = [c \in Cases |-> IF c \in m.cases THEN m.loser ELSE owner[c]]
      /\ merges' = [merges EXCEPT ![i].reversed = TRUE]
      /\ entangled \subseteq entangled'
      /\ m.cases \cap UNION OpenLists(s) \subseteq entangled'
  BY DEF RestoreCustomer
<1> HIDE DEF m, i
<1>3. OwnersThere'  BY <1>1, <1>2 DEF OwnersThere, OwnerInv
<1>4. ListsKept(s)
  <2> SUFFICES ASSUME NEW u \in Sessions \ {s}, MergesNow(u)
               PROVE  /\ {d \in Cases : owner'[d] = tx[u].loser} \subseteq tx[u].cases
                      /\ \A d \in tx[u].cases \ entangled' : owner'[d] = tx[u].loser
    BY DEF ListsKept
  <2>0. tx[u] \in Operations  BY DEF MergesNow, Typed, SessionsTyped
  <2>1. /\ ListOf(u) /\ tx[u].loser \in held[u] /\ tx[u].loser \in Customers /\ tx[u].cases \subseteq Cases
        /\ tx[u].cases \in OpenLists(s)
    BY <2>0, Fields DEF OwnerInv, MergesNow, LockInv, Paths, PathOf, OpenLists
  <2>2. tx[u].loser # m.loser  BY <1>0, <1>1, <2>1, CustomerAlone
  <2>3. ASSUME NEW d \in Cases, owner'[d] = tx[u].loser PROVE d \in tx[u].cases
    <3>1. owner[d] = tx[u].loser  BY <1>2, <2>2, <2>3
    <3> QED  BY <2>1, <3>1 DEF ListOf, OwnedBy
  <2>4. ASSUME NEW d \in tx[u].cases, d \notin entangled' PROVE owner'[d] = tx[u].loser
    <3>1. owner[d] = tx[u].loser /\ d \in Cases  BY <1>2, <2>1, <2>4 DEF ListOf
    <3>2. d \in UNION OpenLists(s)  BY <2>1, <2>4
    <3>3. d \notin m.cases  BY <1>2, <2>4, <3>2
    <3> QED  BY <1>2, <3>1, <3>3
  <2> QED  BY <2>3, <2>4
<1>5. \A c \in Conversations \ Present : owner'[c] = owner[c]
  <2> SUFFICES ASSUME NEW c \in Conversations, c \notin Present PROVE owner'[c] = owner[c]  OBVIOUS
  <2>1. c \notin m.cases  BY <1>0 DEF OwnerInv, Unowned, m
  <2> QED  BY <1>2, <2>1, RowsAre
<1>6. Len(merges') = Len(merges)
  <2>1. [m EXCEPT !.reversed = TRUE] \in Record  BY <1>0 DEF Record
  <2>2. merges' = [merges EXCEPT ![i] = [m EXCEPT !.reversed = TRUE]]  BY <1>2 DEF m
  <2> QED  BY <1>0, <2>1, <2>2, ExceptSeq
<1> QED  BY <1>3, <1>4, <1>5, <1>6

LEMMA NothingGiven ==
  ASSUME OwnerInv, NEW s \in Sessions, UNCHANGED crm
  PROVE  /\ OwnersThere' /\ ListsKept(s) /\ UNCHANGED merges
         /\ \A c \in Conversations : owner'[c] = owner[c]
<1>1. OwnersThere'  BY DEF crm, OwnerInv, OwnersThere
<1>2. ListsKept(s)  BY DEF crm, OwnerInv, ListsKept, ListOf, OwnedBy
<1> QED  BY <1>1, <1>2 DEF crm

LEMMA EndsOwner ==
  ASSUME Typed, ThreadInv, LockInv, OwnerInv, NEW s \in Sessions, Ends(s)
  PROVE  OwnerInv'
<1>0. /\ CanCommit(s) /\ Effects(s) /\ tx[s] # None
      /\ Present \subseteq Present' /\ RecordsStay
      /\ Len(merges) \in Nat /\ merges \in Seq(Record)
      /\ tx'[s] = None /\ \A u \in Sessions \ {s} : tx'[u] = tx[u]
  BY CommitSteps, EndsRecords, LenProperties
     DEF Ends, CanCommit, ThreadStep, Close, Typed, SessionsTyped, StoreTyped
<1> DEFINE Owned ==
      /\ OwnersThere' /\ ListsKept(s)
      /\ \A c \in Conversations \ Present' : owner'[c] = owner[c]
      /\ \A i \in 1..Len(merges') : i \in 1..Len(merges) \/ (MergesNow(s) /\ merges'[i].cases = tx[s].cases)
<1>1. Owned
  <2>1. CASE UNCHANGED crm
    <3>1. Len(merges') = Len(merges)  BY <2>1 DEF crm
    <3> QED  BY <2>1, <3>1, NothingGiven
  <2>2. CASE CommitStart(s)
    <3>1. Len(merges') = Len(merges)  BY <2>2 DEF CommitStart, GiveCase
    <3> QED  BY <1>0, <2>2, <3>1, StartOwner
  <2>3. CASE tx[s].kind = "setCustomer" /\ GiveCase(tx[s].case, tx[s].to, OpenLists(s))
    <3>1. Len(merges') = Len(merges)  BY <2>3 DEF GiveCase
    <3> QED  BY <1>0, <2>3, <3>1, SetCustomerOwner
  <2>3a. CASE tx[s].kind = "clearCustomer" /\ GiveCase(tx[s].case, None, OpenLists(s))
    <3>1. Len(merges') = Len(merges)  BY <2>3a DEF GiveCase
    <3> QED  BY <1>0, <2>3a, <3>1, SetCustomerOwner
  <2>4. CASE tx[s].kind = "mergeCustomers" /\ AbsorbCustomer(tx[s].winner, tx[s].loser, tx[s].cases)
    <3>1. MergesNow(s)  BY <1>0, <2>4 DEF MergesNow
    <3> QED  BY <1>0, <2>4, <3>1, AbsorbOwner
  <2>5. CASE tx[s].kind = "reverse" /\ RestoreCustomer(tx[s].record, OpenLists(s))
    BY <1>0, <2>5, RestoreOwner
  <2>6. CASE CommitCustomer(s)  BY <2>1, <2>3, <2>3a, <2>4, <2>5, <2>6 DEF CommitCustomer
  <2> QED  BY <1>0, <2>1, <2>2, <2>6 DEF Effects
<1>2. ASSUME NEW u \in Sessions PROVE ListOf(u)'
  <2>1. CASE u = s  BY <1>0, <2>1 DEF ListOf, MergesNow
  <2>2. CASE u # s
    <3>1. tx'[u] = tx[u]  BY <1>0, <2>2
    <3>2. ASSUME MergesNow(u)
          PROVE  /\ {d \in Cases : owner'[d] = tx[u].loser} \subseteq tx[u].cases
                 /\ \A d \in tx[u].cases \ entangled' : owner'[d] = tx[u].loser
      BY <1>1, <2>2, <3>2 DEF ListsKept
    <3> QED  BY <3>1, <3>2 DEF ListOf, MergesNow, OwnedBy
  <2> QED  BY <2>1, <2>2
<1>3. Unowned'
  <2> SUFFICES ASSUME NEW c \in Conversations, c \notin Present'
               PROVE  /\ owner'[c] = None
                      /\ \A i \in 1..Len(merges') : c \notin merges'[i].cases
                      /\ \A u \in Sessions : MergesNow(u)' => c \notin tx'[u].cases
    BY DEF Unowned
  <2>1. /\ owner[c] = None
        /\ \A i \in 1..Len(merges) : c \notin merges[i].cases
        /\ \A u \in Sessions : MergesNow(u) => c \notin tx[u].cases
    BY <1>0 DEF OwnerInv, Unowned
  <2>2. owner'[c] = None  BY <1>1, <2>1
  <2>3. ASSUME NEW i \in 1..Len(merges') PROVE c \notin merges'[i].cases
    <3>1. CASE i \in 1..Len(merges)  BY <1>0, <2>1, <3>1 DEF RecordsStay
    <3>2. CASE MergesNow(s) /\ merges'[i].cases = tx[s].cases  BY <2>1, <3>2
    <3> QED  BY <1>1, <3>1, <3>2
  <2>4. \A u \in Sessions : MergesNow(u)' => c \notin tx'[u].cases
    BY <1>0, <2>1 DEF MergesNow
  <2> QED  BY <2>2, <2>3, <2>4
<1> HIDE DEF Owned
<1> QED  BY <1>1, <1>2, <1>3 DEF OwnerInv, Owned

\* Steps that commit nothing and find no cases.
LEMMA IdleOwner ==
  ASSUME OwnerInv, UNCHANGED store,
         \A u \in Sessions : MergesNow(u)' => MergesNow(u) /\ tx'[u] = tx[u]
  PROVE  OwnerInv'
<1>0. UNCHANGED <<customers, owner, merges, given, entangled>> /\ Present' = Present
  BY DEF store, crm, Present
<1>1. OwnersThere'  BY <1>0 DEF OwnerInv, OwnersThere
<1>2. Unowned'
  <2> SUFFICES ASSUME NEW c \in Conversations, c \notin Present
               PROVE  /\ owner'[c] = None
                      /\ \A i \in 1..Len(merges') : c \notin merges'[i].cases
                      /\ \A u \in Sessions : MergesNow(u)' => c \notin tx'[u].cases
    BY <1>0 DEF Unowned
  <2> QED  BY <1>0 DEF OwnerInv, Unowned
<1>3. \A u \in Sessions : ListOf(u)'
  BY <1>0 DEF OwnerInv, ListOf, OwnedBy
<1> QED  BY <1>1, <1>2, <1>3 DEF OwnerInv

\* The cases are read when the loser is locked, so the list is complete.
LEMMA FindOwner ==
  ASSUME Typed, LockInv, OwnerInv, NEW s \in Sessions, FindCases(s)
  PROVE  OwnerInv'
<1>0. /\ UNCHANGED <<customers, owner, merges, given, entangled>> /\ Present' = Present
      /\ tx[s] \in Operations /\ tx[s].kind = "findCases"
      /\ \A u \in Sessions \ {s} : tx'[u] = tx[u]
      /\ tx'[s].loser = tx[s].loser /\ tx'[s].cases = OwnedBy(tx[s].loser)
      /\ tx[s].loser \in Customers /\ None \notin Customers
  <2>1. tx[s] \in Operations /\ tx[s].kind = "findCases" /\ PathOf(s)
    BY DEF FindCases, Typed, SessionsTyped, LockInv, Paths
  <2>2. tx[s].loser \in Customers  BY <2>1, Fields
  <2> QED  BY <2>1, <2>2, FindPath, CustomerAssumption
           DEF FindCases, store, crm, Present, Typed, SessionsTyped
<1>1. OwnersThere'  BY <1>0 DEF OwnerInv, OwnersThere
<1>2. Unowned'
  <2> SUFFICES ASSUME NEW c \in Conversations, c \notin Present
               PROVE  /\ owner'[c] = None
                      /\ \A i \in 1..Len(merges') : c \notin merges'[i].cases
                      /\ \A u \in Sessions : MergesNow(u)' => c \notin tx'[u].cases
    BY <1>0 DEF Unowned
  <2>1. owner[c] = None /\ \A u \in Sessions : MergesNow(u) => c \notin tx[u].cases
    BY DEF OwnerInv, Unowned
  <2>2. c \notin tx'[s].cases  BY <1>0, <2>1 DEF OwnedBy
  <2>3. \A u \in Sessions : MergesNow(u)' => c \notin tx'[u].cases
    BY <1>0, <2>1, <2>2 DEF MergesNow
  <2> QED  BY <1>0, <2>1, <2>3 DEF OwnerInv, Unowned
<1>3. ASSUME NEW u \in Sessions PROVE ListOf(u)'
  <2>1. CASE u = s
    BY <1>0, <2>1 DEF ListOf, OwnedBy
  <2>2. CASE u # s
    BY <1>0, <2>2 DEF ListOf, OwnedBy, MergesNow, OwnerInv
  <2> QED  BY <2>1, <2>2
<1> QED  BY <1>1, <1>2, <1>3 DEF OwnerInv

LEMMA OwnerStep ==
  ASSUME Typed, ClaimInv, ThreadInv, LockInv, OwnerInv, [Next]_vars
  PROVE  OwnerInv'
<1>0. tx \in [Sessions -> Operations \cup {None}]  BY DEF Typed, SessionsTyped
<1>1. CASE Quiet  BY <1>1, IdleOwner DEF Quiet, locks, MergesNow
<1>2. ASSUME NEW s \in Sessions, Opens(s) PROVE OwnerInv'
  <2>1. tx'[s].kind # "mergeCustomers" /\ \A u \in Sessions \ {s} : tx'[u] = tx[u]  BY <1>2, OpensPath
  <2>2. \A u \in Sessions : MergesNow(u)' => MergesNow(u) /\ tx'[u] = tx[u]
    BY <2>1 DEF MergesNow
  <2> QED  BY <1>2, <2>2, IdleOwner DEF Opens
<1>3. ASSUME NEW s \in Sessions, Lock(s) PROVE OwnerInv'
  BY <1>3, IdleOwner DEF Lock, MergesNow
<1>4. ASSUME NEW s \in Sessions, Undone(s) PROVE OwnerInv'
  <2>1. \A u \in Sessions : MergesNow(u)' => MergesNow(u) /\ tx'[u] = tx[u]
    BY <1>0, <1>4 DEF Undone, Close, MergesNow
  <2> QED  BY <1>4, <2>1, IdleOwner DEF Undone
<1> QED  BY <1>1, <1>2, <1>3, <1>4, EndsOwner, FindOwner, StepsOfTransactions

LEMMA InitOwner == Init => OwnerInv
<1> SUFFICES ASSUME Init PROVE OwnerInv  OBVIOUS
<1>0. /\ customers = Customers /\ merges = <<>> /\ given = owner
      /\ owner = [c \in Cases |-> IF c \in DOMAIN Owners THEN Owners[c] ELSE None]
      /\ tx = [s \in Sessions |-> None]
      /\ state = [c \in Conversations |-> IF c \in Existing THEN "new" ELSE "absent"]
  BY DEF Init, ConvInit, CustomerInit
<1>1. OwnersThere  BY <1>0, CustomerAssumption DEF OwnersThere
<1>2. \A s \in Sessions : ~MergesNow(s)  BY <1>0 DEF MergesNow
<1>3. Unowned
  <2>1. ASSUME NEW c \in Conversations, c \notin Present PROVE owner[c] = None
    <3>1. c \notin Existing  BY <1>0, <2>1 DEF Present
    <3>2. c \notin DOMAIN Owners /\ c \in Cases  BY <3>1, ConversationAssumption
    <3> QED  BY <1>0, <3>2
  <2>2. Len(merges) = 0  BY <1>0
  <2> QED  BY <1>2, <2>1, <2>2 DEF Unowned
<1> QED  BY <1>1, <1>2, <1>3 DEF OwnerInv, ListOf

-----------------------------------------------------------------------------
(* Deadlocks *)

\* Of finitely many, one has the greatest number.
LEMMA HasGreatest ==
  ASSUME NEW T, IsFiniteSet(T), T # {}, NEW f \in [T -> Nat]
  PROVE  \E s \in T : \A u \in T : f[u] <= f[s]
<1> DEFINE Bad(S) == S # {} /\ ~\E s \in S : \A u \in S : f[u] <= f[s]
           Sizes == {n \in Nat : \E S \in SUBSET T : Bad(S) /\ Cardinality(S) = n}
<1>1. SUFFICES ASSUME Bad(T) PROVE FALSE  OBVIOUS
<1>2. Cardinality(T) \in Sizes  BY <1>1, FS_CardinalityType
<1>3. PICK n \in Sizes : \A m \in Sizes : n <= m
  <2>1. Sizes \subseteq Nat  OBVIOUS
  <2> HIDE DEF Sizes
  <2> QED  BY <1>2, <2>1, HasLeast
<1>4. PICK S \in SUBSET T : Bad(S) /\ Cardinality(S) = n  OBVIOUS
<1>5. PICK x \in S : TRUE  BY <1>4
<1>6. IsFiniteSet(S)  BY FS_Subset
<1>7. IsFiniteSet(S \ {x}) /\ Cardinality(S \ {x}) = n - 1 /\ Cardinality(S \ {x}) \in Nat
  BY <1>4, <1>5, <1>6, FS_RemoveElement, FS_CardinalityType
<1>8. ~Bad(S \ {x})
  <2>1. n - 1 \notin Sizes  BY <1>3
  <2>2. S \ {x} \in SUBSET T  OBVIOUS
  <2> QED  BY <1>7, <2>1, <2>2
<1>9. CASE S \ {x} = {}  BY <1>4, <1>9
<1>10. CASE S \ {x} # {}
  <2>1. PICK y \in S \ {x} : \A u \in S \ {x} : f[u] <= f[y]  BY <1>8, <1>10
  <2>2. \A u \in S : f[u] \in Nat  OBVIOUS
  <2>3. CASE f[x] <= f[y]
    <3>1. \A u \in S : f[u] <= f[y]  BY <2>1, <2>3
    <3> QED  BY <1>4, <3>1
  <2>4. CASE f[y] <= f[x]
    <3>1. \A u \in S : f[u] <= f[x]  BY <2>1, <2>2, <2>4
    <3> QED  BY <1>4, <1>5, <3>1
  <2> QED  BY <1>5, <2>2, <2>3, <2>4
<1> QED  BY <1>9, <1>10

\* What a session that has a lock and waits for a row has, and which row it is.
Stuck(s) ==
  LET next == Head(todo[s]) IN
  \/ tx[s].kind = "merge" /\ \E x \in Conversations : held[s] = {x} /\ next \in Conversations /\ x < next
  \/ tx[s].kind = "start" /\ next = Team /\ \E a \in Customers : held[s] = {Share(a)}
  \/ tx[s].kind = "setCustomer" /\ held[s] \subseteq Tickets /\ \E a \in Customers : next = Share(a)
  \/ tx[s].kind = "findCases" /\ \E x \in Customers : held[s] = {x} /\ next \in Customers /\ x < next
  \/ tx[s].kind = "mergeCustomers" /\ next \in tx[s].cases /\ held[s] \subseteq Customers \cup tx[s].cases
  \/ tx[s].kind = "reverse"

LEMMA PairStuck ==
  ASSUME NEW s \in Sessions, NEW x, NEW y, Pair(s, x, y), held[s] # {}, todo[s] # <<>>
  PROVE  held[s] = {x} /\ Head(todo[s]) = y
<1>1. Head(<<y>>) = y  OBVIOUS
<1> QED  BY <1>1 DEF Pair

LEMMA HoldingAndWaiting ==
  ASSUME Typed, LockInv, NEW s \in Sessions, tx[s] # None, held[s] # {}, todo[s] # <<>>,
         tx[s].kind \notin {"bulk", "wake"}
  PROVE  Stuck(s)
<1>0. tx[s] \in Operations /\ PathOf(s)  BY DEF Typed, SessionsTyped, LockInv, Paths
<1>1. tx[s].kind \notin SingleRow  BY <1>0 DEF PathOf
<1>2. CASE tx[s].kind = "merge"
  <2>1. PICK x \in Conversations, y \in Conversations : x < y /\ Pair(s, x, y)  BY <1>0, <1>2 DEF PathOf
  <2>2. held[s] = {x} /\ Head(todo[s]) = y  BY <2>1, PairStuck
  <2> QED  BY <1>2, <2>1, <2>2 DEF Stuck
<1>3. CASE tx[s].kind = "start"
  <2>1. tx[s].req.customer \in Customers  BY <1>0, <1>3, Fields, RequestAssumption
  <2>2. held[s] = {Share(tx[s].req.customer)} /\ Head(todo[s]) = Team
    BY <1>0, <1>3, PairStuck DEF PathOf
  <2> QED  BY <1>3, <2>1, <2>2 DEF Stuck
<1>4. CASE tx[s].kind = "setCustomer"
  <2>1. tx[s].to \in Customers /\ tx[s].case \in Tickets  BY <1>0, <1>4, Fields
  <2>2. held[s] = {tx[s].case} /\ Head(todo[s]) = Share(tx[s].to)
    BY <1>0, <1>4, PairStuck DEF PathOf
  <2> QED  BY <1>4, <2>1, <2>2 DEF Stuck
<1>5. CASE tx[s].kind = "findCases"
  <2>1. PICK x \in Customers, y \in Customers : x < y /\ Pair(s, x, y)  BY <1>0, <1>5 DEF PathOf
  <2>2. held[s] = {x} /\ Head(todo[s]) = y  BY <2>1, PairStuck
  <2> QED  BY <1>5, <2>1, <2>2 DEF Stuck
<1>6. CASE tx[s].kind = "mergeCustomers"
  <2>1. tx[s].winner \in Customers /\ tx[s].loser \in Customers  BY <1>0, <1>6, Fields
  <2>2. held[s] \subseteq {tx[s].winner, tx[s].loser} \cup tx[s].cases /\ todo[s] \in Seq(tx[s].cases)
    BY <1>0, <1>6 DEF PathOf
  <2>3. Head(todo[s]) \in tx[s].cases  BY <2>2
  <2> QED  BY <1>6, <2>1, <2>2, <2>3 DEF Stuck
<1> QED  BY <1>0, <1>1, <1>2, <1>3, <1>4, <1>5, <1>6, Fields DEF Stuck, SingleRow

\* Sessions that wait for each other in a circle cannot each wait for a greater row.
LEMMA NoAscent ==
  ASSUME NEW F, F \subseteq Sessions, F # {}, \A s \in F : Head(todo[s]) \in Nat,
         \A s \in F : \E u \in F : Head(todo[s]) < Head(todo[u])
  PROVE  FALSE
<1> DEFINE f == [s \in F |-> Head(todo[s])]
<1>1. f \in [F -> Nat] /\ \A s \in F : f[s] = Head(todo[s])  OBVIOUS
<1> HIDE DEF f
<1>2. IsFiniteSet(F)  BY ConversationAssumption, FS_Subset
<1>3. PICK s \in F : \A u \in F : f[u] <= f[s]  BY <1>1, <1>2, HasGreatest
<1>4. PICK u \in F : Head(todo[s]) < Head(todo[u])  OBVIOUS
<1> QED  BY <1>1, <1>3, <1>4

\* A circle of which no bulk update, wake or reversal is part, nor a customers'
\* merge together with a conversations' merge or a ticket that changes hands, and
\* whose merges of customers have no case in common that changed hands: there is
\* none.
LEMMA NoCircle ==
  ASSUME Typed, LockInv, OwnerInv, NEW D \in SUBSET Sessions, Deadlocked(D),
         \A s \in D : tx[s].kind \notin {"bulk", "wake", "reverse"},
         (\E s \in D : tx[s].kind = "mergeCustomers") => \A s \in D : tx[s].kind \notin {"merge", "setCustomer"},
         \A s \in D : \A u \in D \ {s} :
            (tx[s].kind = "mergeCustomers" /\ tx[u].kind = "mergeCustomers")
              => tx[s].cases \cap tx[u].cases \cap entangled = {}
  PROVE  FALSE
<1> DEFINE E == {u \in D : \E s \in D : WaitsFor(s, u)}
<1>1. E \subseteq D /\ E # {} /\ \A s \in D : \E u \in E : WaitsFor(s, u)  BY DEF Deadlocked
<1>2. \A u \in E : held[u] # {}  BY DEF WaitsFor
<1> HIDE DEF E
<1>3. ASSUME NEW s \in D, tx[s] # None PROVE Counter \notin held[s]
  BY <1>3 DEF LockInv, Paths, PathOf
<1>4. ASSUME NEW s \in E
      PROVE  /\ Stuck(s) /\ tx[s] \in Operations /\ tx[s] # None
             /\ \E u \in E : u # s /\ InWay(Head(todo[s])) \cap held[u] # {}
  <2>1. PICK u \in E : WaitsFor(s, u)  BY <1>1
  <2>2. tx[s] # None /\ tx[u] # None /\ tx[s] \in Operations
    BY <1>1, <1>2 DEF Typed, SessionsTyped
  <2>3. Counter \notin held[u]  BY <1>1, <1>3, <2>2
  <2>4. InWay(Counter) \cap held[u] = {}  BY <2>3, OthersInWay
  <2>5. todo[s] # <<>> /\ InWay(Head(todo[s])) \cap held[u] # {} /\ u # s
    BY <2>1, <2>4 DEF WaitsFor, Wants
  <2>6. Stuck(s)  BY <1>1, <1>2, <2>2, <2>5, HoldingAndWaiting
  <2> QED  BY <2>2, <2>5, <2>6
<1>5. ASSUME NEW s \in E, tx[s].kind = "start" PROVE FALSE
  <2>1. Head(todo[s]) = Team  BY <1>4, <1>5 DEF Stuck
  <2>2. PICK u \in E : InWay(Team) \cap held[u] # {}  BY <1>4, <2>1
  <2>3. Team \in held[u]  BY <2>2, OthersInWay
  <2>4. Stuck(u) /\ tx[u] \in Operations /\ tx[u].kind # "reverse"  BY <1>1, <1>4
  <2>5. tx[u].kind = "mergeCustomers" => tx[u].cases \subseteq Cases  BY <2>4, Fields
  <2> QED  BY <2>3, <2>4, <2>5, SharesAre, RowsAre, ConversationAssumption DEF Stuck
<1>6. ASSUME NEW s \in E, tx[s].kind = "findCases"
      PROVE  \E u \in E : \/ tx[u].kind = "findCases" /\ Head(todo[s]) < Head(todo[u])
                          \/ tx[u].kind = "mergeCustomers"
  <2>1. Head(todo[s]) \in Customers  BY <1>4, <1>6 DEF Stuck
  <2> DEFINE y == Head(todo[s])
  <2>2. InWay(y) = {y, Share(y)}  BY <2>1, SharesAre
  <2>3. PICK u \in E : y \in held[u] \/ Share(y) \in held[u]  BY <1>4, <2>2
  <2>4. Stuck(u) /\ tx[u].kind # "reverse" /\ tx[u].kind # "start"  BY <1>1, <1>4, <1>5
  <2>5. y \notin Cases /\ Share(y) \notin Cases /\ Share(y) \notin Customers  BY <2>1, SharesAre
  <2>6. tx[u].kind # "merge" /\ tx[u].kind # "setCustomer"
    BY <2>3, <2>4, <2>5, RowsAre DEF Stuck
  <2>7. CASE tx[u].kind = "findCases"
    BY <2>3, <2>4, <2>5, <2>7 DEF Stuck
  <2> QED  BY <2>4, <2>6, <2>7 DEF Stuck
<1>7. ASSUME NEW s \in E, tx[s].kind = "merge"
      PROVE  \E u \in E : \/ tx[u].kind = "merge" /\ Head(todo[s]) < Head(todo[u])
                          \/ tx[u].kind = "mergeCustomers"
  <2>1. Head(todo[s]) \in Conversations  BY <1>4, <1>7 DEF Stuck
  <2> DEFINE y == Head(todo[s])
  <2>2. InWay(y) = {y}  BY <2>1, RowsAre, OthersInWay
  <2>3. PICK u \in E : y \in held[u]  BY <1>4, <2>2
  <2>4. Stuck(u) /\ tx[u].kind # "reverse" /\ tx[u].kind # "start"  BY <1>1, <1>4, <1>5
  <2>5. y \notin Customers /\ y \notin Tickets  BY <2>1, ConversationAssumption
  <2>6. CASE tx[u].kind = "merge"  BY <2>3, <2>4, <2>6 DEF Stuck
  <2> QED  BY <2>3, <2>4, <2>5, <2>6 DEF Stuck
<1>8. CASE \A s \in E : tx[s].kind # "mergeCustomers"
  <2>1. CASE \E s \in E : tx[s].kind = "findCases"
    <3> DEFINE F == {s \in E : tx[s].kind = "findCases"}
    <3>1. F \subseteq Sessions /\ F # {}  BY <1>1, <2>1
    <3>2. \A s \in F : Head(todo[s]) \in Nat  BY <1>4, ConversationAssumption DEF Stuck
    <3>3. \A s \in F : \E u \in F : Head(todo[s]) < Head(todo[u])  BY <1>6, <1>8
    <3> HIDE DEF F
    <3> QED  BY <3>1, <3>2, <3>3, NoAscent
  <2>2. CASE \A s \in E : tx[s].kind # "findCases"
    <3>1. CASE \E s \in E : tx[s].kind = "merge"
      <4> DEFINE F == {s \in E : tx[s].kind = "merge"}
      <4>1. F \subseteq Sessions /\ F # {}  BY <1>1, <3>1
      <4>2. \A s \in F : Head(todo[s]) \in Nat  BY <1>4, ConversationAssumption DEF Stuck
      <4>3. \A s \in F : \E u \in F : Head(todo[s]) < Head(todo[u])  BY <1>7, <1>8
      <4> HIDE DEF F
      <4> QED  BY <4>1, <4>2, <4>3, NoAscent
    <3>2. CASE \A s \in E : tx[s].kind # "merge"
      <4>1. \A s \in E : tx[s].kind = "setCustomer"
        BY <1>1, <1>4, <1>5, <1>8, <2>2, <3>2 DEF Stuck
      <4>2. PICK s \in E : TRUE  BY <1>1
      <4>3. PICK a \in Customers : Head(todo[s]) = Share(a)  BY <1>4, <4>1 DEF Stuck
      <4>4. PICK u \in E : a \in held[u]  BY <1>4, <4>3, SharesAre
      <4>5. held[u] \subseteq Tickets  BY <1>4, <4>1 DEF Stuck
      <4> QED  BY <4>4, <4>5, ConversationAssumption
    <3> QED  BY <3>1, <3>2
  <2> QED  BY <2>1, <2>2
<1>9. CASE \E s \in E : tx[s].kind = "mergeCustomers"
  <2>1. PICK s \in E : tx[s].kind = "mergeCustomers"  BY <1>9
  <2>2. tx[s] \in Operations /\ tx[s].cases \subseteq Cases /\ Head(todo[s]) \in tx[s].cases
    BY <1>4, <2>1, Fields DEF Stuck
  <2> DEFINE c == Head(todo[s])
  <2>3. InWay(c) = {c}  BY <2>2, OthersInWay
  <2>4. PICK u \in E : u # s /\ c \in held[u]  BY <1>4, <2>3
  <2>5. Stuck(u) /\ tx[u].kind \in {"findCases", "mergeCustomers"}
    <3>1. tx[u].kind \notin {"merge", "setCustomer", "reverse"}  BY <1>1, <2>1
    <3> QED  BY <1>4, <1>5, <3>1 DEF Stuck
  <2>6. c \notin Customers  BY <2>2, ConversationAssumption
  <2>7. tx[u].kind = "mergeCustomers" /\ c \in tx[u].cases
    BY <2>4, <2>5, <2>6 DEF Stuck
  <2>8. c \notin entangled  BY <1>1, <2>1, <2>2, <2>4, <2>7
  <2>9. owner[c] = tx[s].loser /\ owner[c] = tx[u].loser
    BY <1>1, <1>4, <2>1, <2>2, <2>7, <2>8 DEF OwnerInv, ListOf, MergesNow
  <2>10. tx[s].loser \in held[s] /\ tx[u].loser \in held[u] /\ tx[u].loser \in Customers
    BY <1>1, <1>4, <2>1, <2>7, Fields DEF LockInv, Paths, PathOf
  <2> QED  BY <1>1, <2>4, <2>9, <2>10, CustomerAlone
<1> QED  BY <1>8, <1>9

LEMMA DeadlocksKnown ==
  ASSUME Typed, LockInv, OwnerInv
  PROVE  DeadlocksAreKnown
<1> SUFFICES ASSUME NEW D \in SUBSET Sessions, Deadlocked(D),
                    {tx[s].kind : s \in D} \cap {"bulk", "wake"} = {},
                    \/ {tx[s].kind : s \in D} \cap {"mergeCustomers", "reverse"} = {}
                    \/ {tx[s].kind : s \in D} \cap {"reverse", "merge", "setCustomer"} = {},
                    ~\E s, u \in D :
                       /\ s # u /\ tx[s].kind = "mergeCustomers" /\ tx[u].kind = "mergeCustomers"
                       /\ tx[s].cases \cap tx[u].cases \cap entangled # {}
             PROVE  FALSE
  BY DEF DeadlocksAreKnown
<1>1. \A s \in D : tx[s].kind \notin {"bulk", "wake", "reverse"}  OBVIOUS
<1>2. (\E s \in D : tx[s].kind = "mergeCustomers") => \A s \in D : tx[s].kind \notin {"merge", "setCustomer"}
  OBVIOUS
<1>3. \A s \in D : \A u \in D \ {s} :
         (tx[s].kind = "mergeCustomers" /\ tx[u].kind = "mergeCustomers")
           => tx[s].cases \cap tx[u].cases \cap entangled = {}
  OBVIOUS
<1> QED  BY <1>1, <1>2, <1>3, NoCircle

-----------------------------------------------------------------------------
(* Sessions, the requests they serve and their transactions *)

\* A session handles a request exactly while its transaction is a message's, and
\* is then in the middle of its attempt.
ServesOf(s) ==
  /\ phase[s] = "idle" <=> serving[s] = None
  /\ phase[s] = "handling" =>
       tx[s] # None /\ tx[s].kind \in {"post", "start"} /\ tx[s].req = serving[s]
  /\ phase[s] \notin {"idle", "handling"} => tx[s] = None
  /\ phase[s] = "idle" /\ tx[s] # None => tx[s].kind \notin {"post", "start"}
  /\ tx[s] # None /\ tx[s].kind = "post" => tx[s].conv = tx[s].req.conv

ServeInv == \A s \in Sessions : ServesOf(s)

\* Whatever a session begins in the background, it is not a message.
LEMMA BackgroundBegins ==
  ASSUME Typed, NEW s \in Sessions, Background(s) \/ Wakes(s)
  PROVE  /\ tx'[s] # None /\ tx'[s].kind \notin {"post", "start"}
         /\ phase[s] = "idle" /\ UNCHANGED middleware
         /\ \A u \in Sessions \ {s} : tx'[u] = tx[u]
<1>0. tx \in [Sessions -> Operations \cup {None}]  BY DEF Typed, SessionsTyped
<1>1. phase[s] = "idle" /\ UNCHANGED middleware  BY DEF Background, Wakes
<1>2. Opens(s)
  <2>1. CASE BeginTell(s) \/ Wakes(s)
    BY <2>1 DEF Wakes, BeginTell, BeginWake, Opens
  <2>2. CASE BeginOperation(s)
    BY <2>2 DEF BeginOperation, BeginSetState, BeginSnooze, BeginMerge, BeginBulk, BeginLabel,
                BeginTicket, BeginSetCustomer, BeginMergeCustomers, BeginReverse, Begins, Opens
  <2> QED  BY <2>1, <2>2 DEF Background
<1>3. tx'[s] # None /\ \A u \in Sessions \ {s} : tx'[u] = tx[u]
  BY <1>2, OpensTyped, OpensPath, NoneAssumption
<1>4. tx'[s].kind \notin {"post", "start"}
  <2>1. CASE BeginSetState(s) \/ BeginSnooze(s)  BY <1>0, <2>1 DEF BeginSetState, BeginSnooze, Begin
  <2>2. CASE BeginMerge(s)  BY <1>0, <2>2 DEF BeginMerge, Begin
  <2>3. CASE BeginBulk(s)  BY <1>0, <2>3 DEF BeginBulk, Begin
  <2>4. CASE BeginLabel(s) \/ BeginTicket(s)  BY <1>0, <2>4 DEF BeginLabel, BeginTicket, Begin
  <2>5. CASE BeginSetCustomer(s)  BY <1>0, <2>5 DEF BeginSetCustomer, Begin
  <2>6. CASE BeginMergeCustomers(s)  BY <1>0, <2>6 DEF BeginMergeCustomers, Begin
  <2>7. CASE BeginReverse(s)  BY <1>0, <2>7 DEF BeginReverse, Begin
  <2>8. CASE BeginTell(s) \/ Wakes(s)  BY <1>0, <2>8 DEF BeginTell, Wakes, BeginWake, Begin
  <2> QED
    BY <2>1, <2>2, <2>3, <2>4, <2>5, <2>6, <2>7, <2>8 DEF Background, BeginOperation
<1> QED  BY <1>1, <1>3, <1>4

\* A request that is handled has a transaction of its kind.
LEMMA HandleBegins ==
  ASSUME Typed, NEW s \in Sessions, NEW r \in Requests, NEW g, Handle(s, r, g)
  PROVE  /\ Opens(s) /\ tx[s] = None
         /\ tx'[s] # None /\ tx'[s].kind = r.kind /\ tx'[s].req = r
         /\ r.kind \in {"post", "start"} /\ (r.kind = "post" => tx'[s].conv = r.conv)
         /\ \A u \in Sessions \ {s} : tx'[u] = tx[u]
<1>0. tx \in [Sessions -> Operations \cup {None}]  BY DEF Typed, SessionsTyped
<1>1. Opens(s)  BY RequestAssumption DEF Handle, BeginStart, BeginPost, Opens
<1>2. tx'[s] # None /\ \A u \in Sessions \ {s} : tx'[u] = tx[u]
  BY <1>1, OpensTyped, OpensPath, NoneAssumption
<1>3. CASE r.kind = "start"
  <2>1. BeginStart(s, r)  BY <1>3 DEF Handle
  <2> QED  BY <1>0, <1>1, <1>2, <1>3, <2>1 DEF BeginStart, Begin
<1>4. CASE r.kind = "post"
  <2>1. BeginPost(s, r)  BY <1>4 DEF Handle
  <2> QED  BY <1>0, <1>1, <1>2, <1>4, <2>1 DEF BeginPost, Begin
<1> QED  BY <1>3, <1>4, RequestAssumption

LEMMA ServeFrame ==
  ASSUME ServeInv, NEW s \in Sessions, ServesOf(s)',
         \A u \in Sessions \ {s} : tx'[u] = tx[u] /\ serving'[u] = serving[u] /\ phase'[u] = phase[u]
  PROVE  ServeInv'
BY DEF ServeInv, ServesOf

\* An attempt that ends, or goes on to settle its claim, has no transaction any more.
LEMMA AttemptOver ==
  ASSUME LedgerTypeOK, ServeInv, NEW s \in Sessions, phase[s] # "idle", tx'[s] = None,
         \A u \in Sessions \ {s} : tx'[u] = tx[u],
         \/ Leave(s)
         \/ UNCHANGED serving /\ \E p \in {"completing", "releasing"} : phase' = [phase EXCEPT ![s] = p]
  PROVE  ServeInv'
<1>1. \A u \in Sessions \ {s} : serving'[u] = serving[u] /\ phase'[u] = phase[u]
  BY DEF Leave, LedgerTypeOK
<1>2. ServesOf(s)'
  BY DEF Leave, LedgerTypeOK, ServeInv, ServesOf
<1> QED  BY <1>1, <1>2, ServeFrame

LEMMA ServeStep ==
  ASSUME Typed, ClaimInv, ServeInv, [Next]_vars
  PROVE  ServeInv'
<1>0. /\ LedgerTypeOK /\ tx \in [Sessions -> Operations \cup {None}]
      /\ None \notin Requests /\ None \notin Operations
  BY NoneAssumption DEF ClaimInv, Typed, SessionsTyped
<1>1. CASE UNCHANGED <<tx, serving, phase>>
  BY <1>1 DEF ServeInv, ServesOf
<1>2. ASSUME NEW s \in Sessions, Background(s) \/ Wakes(s) PROVE ServeInv'
  <2>1. /\ tx'[s] # None /\ tx'[s].kind \notin {"post", "start"} /\ phase[s] = "idle"
        /\ UNCHANGED <<serving, phase>> /\ \A u \in Sessions \ {s} : tx'[u] = tx[u]
    BY <1>2, BackgroundBegins DEF middleware
  <2>2. ServesOf(s)'  BY <2>1 DEF ServeInv, ServesOf
  <2> QED  BY <2>1, <2>2, ServeFrame
<1>3. ASSUME NEW s \in Sessions, NEW r \in Requests, NEW g, Handle(s, r, g) PROVE ServeInv'
  <2>1. /\ tx'[s] # None /\ tx'[s].kind \in {"post", "start"} /\ tx'[s].req = r
        /\ tx'[s].kind = "post" => tx'[s].conv = r.conv
        /\ \A u \in Sessions \ {s} : tx'[u] = tx[u]
    BY <1>3, HandleBegins
  <2>2. serving' = [serving EXCEPT ![s] = r] /\ phase' = [phase EXCEPT ![s] = "handling"]
    BY <1>3 DEF Handle
  <2>3. serving'[s] = r /\ phase'[s] = "handling" /\ r # None  BY <1>0, <2>2 DEF LedgerTypeOK
  <2>4. ServesOf(s)'  BY <2>1, <2>3 DEF ServesOf
  <2>5. \A u \in Sessions \ {s} : serving'[u] = serving[u] /\ phase'[u] = phase[u]
    BY <1>0, <2>2 DEF LedgerTypeOK
  <2> QED  BY <2>1, <2>4, <2>5, ServeFrame
<1>4. ASSUME NEW s \in Sessions, NEW r \in Requests, Claim(s, r) \/ ClaimFails(s, r) PROVE ServeInv'
  BY <1>3, <1>4 DEF Claim, ClaimFails
<1>5. ASSUME NEW s \in Sessions, ReadGone(s) PROVE ServeInv'
  BY <1>3, <1>5 DEF ReadGone, ClaimInv, ClaimsInUse
<1>6. ASSUME NEW s \in Sessions, NEW r \in Requests, Conflict(s, r) PROVE ServeInv'
  <2>1. /\ UNCHANGED tx /\ tx[s] = None
        /\ serving' = [serving EXCEPT ![s] = r] /\ phase' = [phase EXCEPT ![s] = "reading"]
    BY <1>6 DEF Conflict, Send, Busy, locks
  <2>2. ServesOf(s)'  BY <1>0, <2>1 DEF LedgerTypeOK, ServesOf
  <2>3. \A u \in Sessions \ {s} : serving'[u] = serving[u] /\ phase'[u] = phase[u]
    BY <1>0, <2>1 DEF LedgerTypeOK
  <2> QED  BY <2>1, <2>2, <2>3, ServeFrame
<1>7. ASSUME NEW s \in Sessions,
             ReadRefused(s) \/ ReadDone(s) \/ Complete(s) \/ Release(s) \/ LedgerWriteFails(s)
      PROVE  ServeInv'
  <2>1. phase[s] \in {"reading", "completing", "releasing"} /\ UNCHANGED tx /\ Leave(s)
    BY <1>7 DEF ReadRefused, ReadDone, Complete, Release, LedgerWriteFails, convVars, locks
  <2>2. tx[s] = None  BY <2>1 DEF ServeInv, ServesOf
  <2> QED  BY <1>0, <2>1, <2>2, AttemptOver
<1>8. ASSUME NEW s \in Sessions, HandlerCommits(s) \/ HandlerCommitsUnheard(s) \/ HandlerFails(s)
      PROVE  ServeInv'
  <2>1. Close(s)
    BY <1>8 DEF HandlerCommits, HandlerCommitsUnheard, HandlerFails, Commit, CommitUnheard, Cancelled, Fail, RollBack
  <2>2. tx'[s] = None /\ \A u \in Sessions \ {s} : tx'[u] = tx[u]
    BY <1>0, <2>1 DEF Close
  <2>3. CASE serving[s] = None
    <3>1. UNCHANGED <<serving, phase>>
      BY <1>8, <2>3 DEF HandlerCommits, HandlerCommitsUnheard, HandlerFails
    <3>2. ServesOf(s)'  BY <2>2, <2>3, <3>1 DEF ServeInv, ServesOf
    <3> QED  BY <2>2, <3>1, <3>2, ServeFrame
  <2>4. CASE serving[s] # None
    <3>1. ReturnOk(s) \/ ReturnError(s)
      BY <1>8, <2>4 DEF HandlerCommits, HandlerCommitsUnheard, HandlerFails
    <3>2. \/ Leave(s)
          \/ UNCHANGED serving /\ \E p \in {"completing", "releasing"} : phase' = [phase EXCEPT ![s] = p]
      BY <3>1 DEF ReturnOk, ReturnError
    <3>3. phase[s] # "idle"  BY <2>4 DEF ServeInv, ServesOf
    <3> QED  BY <1>0, <2>2, <3>2, <3>3, AttemptOver
  <2> QED  BY <2>3, <2>4
<1>9. ASSUME NEW s \in Sessions, Crash(s) PROVE ServeInv'
  <2>1. Close(s) /\ Leave(s)  BY <1>9 DEF Crash, RollBack
  <2>2. tx'[s] = None /\ \A u \in Sessions \ {s} : tx'[u] = tx[u]
    BY <1>0, <2>1 DEF Close
  <2>3. /\ serving'[s] = None /\ phase'[s] = "idle"
        /\ \A u \in Sessions \ {s} : serving'[u] = serving[u] /\ phase'[u] = phase[u]
    BY <1>0, <2>1 DEF Leave, LedgerTypeOK
  <2>4. ServesOf(s)'  BY <2>2, <2>3 DEF ServesOf
  <2> QED  BY <2>2, <2>3, <2>4, ServeFrame
<1>10. ASSUME NEW s \in Sessions, HandlerLocks(s) PROVE ServeInv'
  <2>1. UNCHANGED <<serving, phase>>  BY <1>10 DEF HandlerLocks, middleware
  <2>2. CASE Lock(s)  BY <1>1, <2>1, <2>2 DEF Lock
  <2>3. CASE FindCases(s)
    <3>1. /\ tx[s] # None /\ tx[s].kind = "findCases"
          /\ tx'[s].kind = "mergeCustomers" /\ \A u \in Sessions \ {s} : tx'[u] = tx[u]
      BY <1>0, <2>3 DEF FindCases
    <3>2. ServesOf(s)'  BY <2>1, <3>1 DEF ServeInv, ServesOf
    <3> QED  BY <2>1, <3>1, <3>2, ServeFrame
  <2> QED  BY <1>10, <2>2, <2>3 DEF HandlerLocks
<1> QED
  <2>1. CASE UNCHANGED vars  BY <1>1, <2>1 DEF vars, convVars, locks, middleware
  <2> QED  BY <1>2, <1>4, <1>5, <1>6, <1>7, <1>8, <1>9, <1>10, <2>1 DEF Next

LEMMA InitServe == Init => ServeInv
BY DEF Init, ConvInit, ServeInv, ServesOf

-----------------------------------------------------------------------------
(* Messages and their keys *)

Has(k) == \E c \in Conversations : \E i \in DOMAIN thread[c] : thread[c][i].key = k

Twice(k) ==
  \E c, d \in Conversations : \E i \in DOMAIN thread[c], j \in DOMAIN thread[d] :
    /\ c # d \/ i # j
    /\ thread[c][i].key = k /\ thread[d][j].key = k

\* A message that was posted to a conversation is there, unless it was merged away.
Home ==
  \A c \in Conversations : \A i \in DOMAIN thread[c] :
    thread[c][i].kind = "post" => thread[c][i].conv = c \/ thread[c][i].conv \in emptied

\* What becomes of the keys when a transaction for request r, or for none, ends.
Settled(r) ==
  /\ \A k : Has(k) => Has(k)'
  /\ \A k : Has(k)' => Has(k) \/ (r # None /\ k = r.key)
  /\ \A k : Twice(k)' =>
       \/ Twice(k)
       \/ /\ r # None /\ k = r.key /\ Has(k)
          /\ r.kind = "post" => ~Replays(r.conv, r)
  /\ r # None => Has(r.key)'
  /\ emptied \subseteq emptied' /\ Home'

LEMMA SameThreads ==
  ASSUME Home, UNCHANGED thread, emptied \subseteq emptied', NEW r, r # None => Has(r.key)
  PROVE  Settled(r)
BY DEF Settled, Has, Twice, Home

\* Messages that are moved are neither lost nor doubled.
LEMMA MovedThreads ==
  ASSUME Typed, Home, NEW a \in Conversations, NEW b \in Conversations, a # b,
         MoveMessages(a, b), emptied' = emptied \cup {a}
  PROVE  Settled(None)
<1>0. thread \in [Conversations -> Seq(Requests)]  BY DEF Typed, StoreTyped
<1> DEFINE p == thread[b]  q == thread[a]  r == thread'[b]  n == Len(p)
<1>1. /\ thread'[a] = <<>> /\ r = p \o q
      /\ \A d \in Conversations \ {a, b} : thread'[d] = thread[d]
      /\ p \in Seq(Requests) /\ q \in Seq(Requests)
  BY <1>0 DEF MoveMessages
<1>2. DOMAIN thread'[a] = {}  BY <1>1
<1>3. /\ n \in Nat /\ DOMAIN p = 1..n /\ DOMAIN q = 1..Len(q) /\ DOMAIN r = 1..(n + Len(q)) /\ Len(q) \in Nat
      /\ \A i \in DOMAIN p : i \in DOMAIN r /\ r[i] = p[i]
      /\ \A i \in DOMAIN q : n + i \in DOMAIN r /\ r[n + i] = q[i]
  <2> HIDE DEF p, q, r
  <2>1. r = p \o q /\ p \in Seq(Requests) /\ q \in Seq(Requests)  BY <1>1
  <2>2. /\ Len(p) \in Nat /\ Len(q) \in Nat /\ DOMAIN p = 1..Len(p) /\ DOMAIN q = 1..Len(q)
        /\ DOMAIN r = 1..(Len(p) + Len(q))
    BY <2>1, LenProperties, ConcatProperties
  <2>3. /\ \A i \in DOMAIN p : i \in DOMAIN r /\ r[i] = p[i]
        /\ \A i \in DOMAIN q : Len(p) + i \in DOMAIN r /\ r[Len(p) + i] = q[i]
    BY <2>1, JoinedThreads
  <2> QED  BY <2>2, <2>3
<1>a. p = thread[b] /\ q = thread[a] /\ r = thread'[b]  OBVIOUS
<1> HIDE DEF p, q, r, n
\* Where the message at place i of thread c was before.
<1> DEFINE From(c, i) == IF c = b /\ i > n THEN a ELSE c
           At(c, i) == IF c = b /\ i > n THEN i - n ELSE i
<1>4. ASSUME NEW c \in Conversations, NEW i \in DOMAIN thread'[c]
      PROVE  /\ From(c, i) \in Conversations /\ At(c, i) \in DOMAIN thread[From(c, i)]
             /\ thread[From(c, i)][At(c, i)] = thread'[c][i] /\ c # a
             /\ c # b => From(c, i) = c /\ At(c, i) = i /\ c # a
  <2>1. c # a  BY <1>2
  <2>2. CASE c # b  BY <1>1, <2>1, <2>2
  <2>3. CASE c = b
    <3>1. i \in 1..(n + Len(q))  BY <1>3, <1>a, <2>3
    <3>2. CASE i > n
      <4>1. i - n \in DOMAIN q /\ i = n + (i - n)  BY <1>3, <3>1, <3>2
      <4>2. r[i] = q[i - n]  BY <1>3, <4>1
      <4> QED  BY <1>a, <2>1, <2>3, <3>2, <4>1, <4>2
    <3>3. CASE ~(i > n)
      <4>1. i \in DOMAIN p  BY <1>3, <3>1, <3>3
      <4> QED  BY <1>3, <1>a, <2>1, <2>3, <3>3, <4>1
    <3> QED  BY <3>2, <3>3
  <2> QED  BY <2>2, <2>3
<1>5. ASSUME NEW c \in Conversations, NEW i \in DOMAIN thread'[c], NEW d \in Conversations,
             NEW j \in DOMAIN thread'[d], c # d \/ i # j
      PROVE  From(c, i) # From(d, j) \/ At(c, i) # At(d, j)
  <2>1. c # a /\ d # a  BY <1>2
  <2>2. (c = b => i \in Nat) /\ (d = b => j \in Nat)  BY <1>3, <1>a
  <2> QED  BY <1>3, <1>5, <2>1, <2>2
<1>6. \A k : Has(k) => Has(k)'
  <2> SUFFICES ASSUME NEW k, NEW c \in Conversations, NEW i \in DOMAIN thread[c], thread[c][i].key = k
               PROVE  \E d \in Conversations : \E j \in DOMAIN thread'[d] : thread'[d][j].key = k
    BY DEF Has
  <2>1. CASE c = a
    <3>1. n + i \in DOMAIN r /\ r[n + i] = q[i]  BY <1>3, <1>a, <2>1
    <3> QED  BY <1>a, <2>1, <3>1
  <2>2. CASE c = b
    <3>1. i \in DOMAIN r /\ r[i] = p[i]  BY <1>3, <1>a, <2>2
    <3> QED  BY <1>a, <2>2, <3>1
  <2>3. CASE c \notin {a, b}  BY <1>1, <2>3
  <2> QED  BY <2>1, <2>2, <2>3
<1>7. \A k : Has(k)' => Has(k)
  <2> SUFFICES ASSUME NEW k, NEW c \in Conversations, NEW i \in DOMAIN thread'[c], thread'[c][i].key = k
               PROVE  Has(k)
    BY DEF Has
  <2> HIDE DEF From, At
  <2> QED  BY <1>4 DEF Has
<1>8. \A k : Twice(k)' => Twice(k)
  <2> SUFFICES ASSUME NEW k, NEW c \in Conversations, NEW d \in Conversations,
                      NEW i \in DOMAIN thread'[c], NEW j \in DOMAIN thread'[d],
                      c # d \/ i # j, thread'[c][i].key = k, thread'[d][j].key = k
               PROVE  Twice(k)
    BY DEF Twice
  <2>1. From(c, i) # From(d, j) \/ At(c, i) # At(d, j)  BY <1>5
  <2>2. /\ From(c, i) \in Conversations /\ At(c, i) \in DOMAIN thread[From(c, i)]
        /\ thread[From(c, i)][At(c, i)] = thread'[c][i]
    BY <1>4
  <2>3. /\ From(d, j) \in Conversations /\ At(d, j) \in DOMAIN thread[From(d, j)]
        /\ thread[From(d, j)][At(d, j)] = thread'[d][j]
    BY <1>4
  <2> HIDE DEF From, At
  <2> QED  BY <2>1, <2>2, <2>3 DEF Twice
<1>9. Home'
  <2> SUFFICES ASSUME NEW c \in Conversations, NEW i \in DOMAIN thread'[c], thread'[c][i].kind = "post"
               PROVE  thread'[c][i].conv = c \/ thread'[c][i].conv \in emptied \cup {a}
    BY DEF Home
  <2>1. From(c, i) \in {c, a}  OBVIOUS
  <2>2. /\ From(c, i) \in Conversations /\ At(c, i) \in DOMAIN thread[From(c, i)]
        /\ thread[From(c, i)][At(c, i)] = thread'[c][i]
    BY <1>4
  <2> HIDE DEF From, At
  <2> QED  BY <2>1, <2>2 DEF Home
<1> QED  BY <1>6, <1>7, <1>8, <1>9 DEF Settled

\* A message is added that was not there.
LEMMA AddedThread ==
  ASSUME Typed, Home, NEW c \in Conversations, NEW r \in Requests, UNCHANGED emptied,
         thread' = [thread EXCEPT ![c] = Append(thread[c], r)],
         r.kind = "post" => c = r.conv /\ ~Replays(c, r)
  PROVE  Settled(r)
<1>0. thread \in [Conversations -> Seq(Requests)] /\ r # None
  BY NoneAssumption DEF Typed, StoreTyped
<1> DEFINE n == Len(thread[c])
<1>1. /\ n \in Nat /\ DOMAIN thread[c] = 1..n /\ DOMAIN thread'[c] = 1..(n + 1)
      /\ thread'[c][n + 1] = r /\ \A i \in 1..n : thread'[c][i] = thread[c][i]
      /\ \A d \in Conversations \ {c} : thread'[d] = thread[d]
  <2>1. thread'[c] = Append(thread[c], r) /\ thread[c] \in Seq(Requests)  BY <1>0
  <2> QED  BY <1>0, <2>1, AppendProperties, LenProperties
<1> HIDE DEF n
<1>2. ASSUME NEW d \in Conversations, NEW i \in DOMAIN thread'[d]
      PROVE  \/ i \in DOMAIN thread[d] /\ thread'[d][i] = thread[d][i]
             \/ d = c /\ i = n + 1 /\ thread'[d][i] = r
  BY <1>1
<1>3. ASSUME NEW d \in Conversations, NEW i \in DOMAIN thread[d]
      PROVE  i \in DOMAIN thread'[d] /\ thread'[d][i] = thread[d][i]
  BY <1>1
<1>4. n + 1 \in DOMAIN thread'[c] /\ thread'[c][n + 1] = r  BY <1>1
<1>5. \A k : Has(k) => Has(k)'  BY <1>3 DEF Has
<1>6. \A k : Has(k)' => Has(k) \/ k = r.key  BY <1>2 DEF Has
<1>7. Has(r.key)'  BY <1>4 DEF Has
<1>8. \A k : Twice(k)' => Twice(k) \/ (k = r.key /\ Has(k))
  <2> SUFFICES ASSUME NEW k, NEW d \in Conversations, NEW e \in Conversations,
                      NEW i \in DOMAIN thread'[d], NEW j \in DOMAIN thread'[e],
                      d # e \/ i # j, thread'[d][i].key = k, thread'[e][j].key = k
               PROVE  Twice(k) \/ (k = r.key /\ Has(k))
    BY DEF Twice
  <2>1. CASE /\ i \in DOMAIN thread[d] /\ thread'[d][i] = thread[d][i]
             /\ j \in DOMAIN thread[e] /\ thread'[e][j] = thread[e][j]
    BY <2>1 DEF Twice
  <2>2. CASE d = c /\ i = n + 1 /\ thread'[d][i] = r
    <3>1. j \in DOMAIN thread[e] /\ thread'[e][j] = thread[e][j]  BY <1>2, <2>2
    <3> QED  BY <2>2, <3>1 DEF Has
  <2>3. CASE e = c /\ j = n + 1 /\ thread'[e][j] = r
    <3>1. i \in DOMAIN thread[d] /\ thread'[d][i] = thread[d][i]  BY <1>2, <2>3
    <3> QED  BY <2>3, <3>1 DEF Has
  <2> QED  BY <1>2, <2>1, <2>2, <2>3
<1>9. Home'
  <2> SUFFICES ASSUME NEW d \in Conversations, NEW i \in DOMAIN thread'[d], thread'[d][i].kind = "post"
               PROVE  thread'[d][i].conv = d \/ thread'[d][i].conv \in emptied
    BY DEF Home
  <2> QED  BY <1>2 DEF Home
<1> QED  BY <1>0, <1>5, <1>6, <1>7, <1>8, <1>9 DEF Settled

\* The request whose message transaction s writes, or None.
Carries(s) == IF tx[s].kind \in {"post", "start"} THEN tx[s].req ELSE None

LEMMA EndsSettled ==
  ASSUME Typed, ThreadInv, Home, NEW s \in Sessions, ServesOf(s), Ends(s)
  PROVE  Settled(Carries(s))
<1>1. tx[s] \in Operations /\ Effects(s)  BY DEF Ends, CanCommit, Typed, SessionsTyped
<1>2. AimOf(s) /\ AbsentEmpty  BY DEF ThreadInv, Aims
<1>3. thread \in [Conversations -> Seq(Requests)]  BY DEF Typed, StoreTyped
<1>4. CASE CommitPost(s)
  <2> DEFINE c == tx[s].conv  r == tx[s].req
  <2>1. c \in Conversations /\ r \in Requests /\ r.kind = "post" /\ c = r.conv /\ Carries(s) = r
    BY <1>1, <1>4, Fields DEF CommitPost, Carries, ServesOf
  <2>2. CASE Replays(c, r)
    <3>1. Has(r.key)  BY <2>1, <2>2 DEF Replays, SameClient, Has
    <3>2. UNCHANGED <<thread, emptied>>  BY <1>4, <2>2 DEF CommitPost
    <3> QED  BY <2>1, <3>1, <3>2, SameThreads
  <2>3. CASE ~Replays(c, r)
    <3>1. thread' = [thread EXCEPT ![c] = Append(thread[c], r)] /\ UNCHANGED emptied
      BY <1>4, <2>3 DEF CommitPost
    <3> QED  BY <2>1, <2>3, <3>1, AddedThread
  <2> QED  BY <2>2, <2>3
<1>5. CASE CommitStart(s)
  <2> DEFINE c == tx[s].conv  r == tx[s].req
  <2>1. c \in Conversations /\ r \in Requests /\ r.kind = "start" /\ Carries(s) = r /\ c \notin Present
    BY <1>1, <1>2, <1>5, Fields DEF CommitStart, Carries, AimOf
  <2>2. thread[c] = <<>>  BY <1>2, <2>1 DEF AbsentEmpty
  <2>3. <<r>> = Append(<<>>, r)  BY <2>1
  <2>4. thread' = [thread EXCEPT ![c] = Append(thread[c], r)] /\ UNCHANGED emptied
    BY <1>5, <2>2, <2>3 DEF CommitStart
  <2> QED  BY <2>1, <2>4, AddedThread
<1>6. CASE CommitMerge(s)
  <2>1. /\ tx[s].source \in Conversations /\ tx[s].target \in Conversations /\ Carries(s) = None
        /\ tx[s].source # tx[s].target
    BY <1>1, <1>2, <1>6, Fields DEF CommitMerge, Carries, AimOf
  <2> QED  BY <1>6, <2>1, MovedThreads DEF CommitMerge
<1>7. CASE \/ CommitState(s) \/ CommitSnooze(s) \/ CommitBulk(s) \/ CommitWake(s) \/ CommitTell(s)
           \/ CommitCustomer(s) /\ UNCHANGED <<state, thread, told, silent, emptied, tells>>
  <2>1. Carries(s) = None /\ UNCHANGED <<thread, emptied>>
    BY <1>7 DEF CommitState, CommitSnooze, CommitBulk, CommitWake, CommitTell, CommitCustomer, Carries
  <2> QED  BY <2>1, SameThreads
<1> QED  BY <1>1, <1>4, <1>5, <1>6, <1>7 DEF Effects

-----------------------------------------------------------------------------
(* A request takes effect once *)

Sent == {k \in Keys : Has(k)}
Doubled == {k \in Keys : Twice(k)}
Slipped == {r.key : r \in slips}

\* A request with key k slipped, and nothing else protected its message.
Excused(k) == \E r \in slips : r.key = k /\ (r.kind = "post" /\ r.author = "agent" => r.conv \in emptied)

AnswersKept ==
  /\ \A r \in answered : r.key \in Sent
  /\ \A k \in Keys : ledger[k] # None /\ ledger[k].done => k \in Sent
  /\ \A s \in Sessions : phase[s] = "completing" => serving[s].key \in Sent

\* Two attempts do not have claims on one key, and a claim has its row.
ClaimsAlone ==
  /\ \A s \in Sessions : guarded[s] => ledger[serving[s].key] # None
  /\ \A s, u \in Sessions : s # u /\ guarded[s] /\ guarded[u] => serving[s].key # serving[u].key
  /\ \A s \in Sessions : phase[s] \in {"completing", "releasing"} => guarded[s]

SlipsKnown ==
  /\ slips \subseteq Requests
  /\ \A s \in Sessions : phase[s] = "handling" /\ ~guarded[s] => serving[s] \in slips

\* A key that never slipped has its row as long as it has its message, and an
\* attempt under a claim on it is the first to write that.
FirstOnly ==
  /\ \A k \in Sent \ Slipped : ledger[k] # None
  /\ \A s \in Sessions : guarded[s] /\ phase[s] # "completing" => serving[s].key \notin Sent \ Slipped
  /\ \A k \in Doubled : Excused(k)

OnceInv == Home /\ AnswersKept /\ ClaimsAlone /\ SlipsKnown /\ FirstOnly

LEMMA SameMessages ==
  ASSUME UNCHANGED <<thread, emptied>>
  PROVE  Sent' = Sent /\ Doubled' = Doubled /\ (Home => Home')
BY DEF Sent, Doubled, Home, Has, Twice

\* What is written under a key, when a transaction for r or for none ends.
LEMMA SettledKeys ==
  ASSUME NEW r, Settled(r), r \in Requests \cup {None}
  PROVE  /\ Sent \subseteq Sent'
         /\ \A k \in Sent' : k \in Sent \/ (r # None /\ k = r.key)
         /\ \A k \in Doubled' : \/ k \in Doubled
                                \/ /\ r # None /\ k = r.key /\ k \in Sent
                                   /\ r.kind = "post" => ~Replays(r.conv, r)
         /\ r # None => r.key \in Sent'
         /\ emptied \subseteq emptied' /\ Home'
BY KeyOfRequest DEF Settled, Sent, Doubled

LEMMA RowIsThere == \A r \in Requests : [req |-> r, done |-> FALSE] # None
<1>1. \A r \in Requests : [req |-> r, done |-> FALSE] \in [req : Requests, done : BOOLEAN]  OBVIOUS
<1> QED  BY <1>1, RowAssumption

\* An attempt is over that wrote nothing in this step.
LEMMA OnceLeaves ==
  ASSUME ClaimInv, OnceInv, NEW s \in Sessions, Leave(s), UNCHANGED <<thread, emptied, slips>>,
         answered' = answered \/ (answered' = answered \cup {serving[s]} /\ serving[s].key \in Sent),
         \A k \in Keys : \/ ledger'[k] = ledger[k]
                         \/ /\ k = serving[s].key /\ guarded[s]
                            /\ ledger'[k] = None => k \notin Sent \ Slipped
                            /\ ledger'[k] # None => k \in Sent
  PROVE  OnceInv'
<1>0. LedgerTypeOK /\ ClaimsInUse /\ Home /\ AnswersKept /\ ClaimsAlone /\ SlipsKnown /\ FirstOnly
  BY DEF ClaimInv, OnceInv
<1>1. /\ phase'[s] = "idle" /\ ~guarded'[s]
      /\ \A u \in Sessions \ {s} : phase'[u] = phase[u] /\ serving'[u] = serving[u] /\ guarded'[u] = guarded[u]
  BY <1>0 DEF Leave, LedgerTypeOK
<1>2. Sent' = Sent /\ Doubled' = Doubled /\ Home' /\ Slipped' = Slipped
  BY <1>0, SameMessages DEF Slipped
<1>3. Sent \subseteq Keys /\ \A u \in Sessions : guarded[u] => serving[u].key \in Keys
  BY <1>0, KeyOfRequest DEF Sent, ClaimsInUse
<1>4. AnswersKept'  BY <1>0, <1>1, <1>2, <1>3 DEF AnswersKept
<1>5. ClaimsAlone'
  <2>1. ASSUME NEW u \in Sessions, guarded'[u] PROVE ledger'[serving'[u].key] # None
    <3>1. u # s /\ guarded[u] /\ serving'[u] = serving[u]  BY <1>1, <2>1
    <3>2. guarded[s] => serving[s].key # serving[u].key  BY <1>0, <3>1 DEF ClaimsAlone
    <3>3. ledger[serving[u].key] # None /\ serving[u].key \in Keys  BY <1>0, <1>3, <3>1 DEF ClaimsAlone
    <3> QED  BY <3>1, <3>2, <3>3
  <2> QED  BY <1>0, <1>1, <2>1 DEF ClaimsAlone
<1>6. SlipsKnown'  BY <1>0, <1>1 DEF SlipsKnown
<1>7. FirstOnly'
  <2>1. \A k \in Doubled' : Excused(k)'  BY <1>0, <1>2 DEF FirstOnly, Excused
  <2>2. \A k \in Sent' \ Slipped' : ledger'[k] # None  BY <1>0, <1>2, <1>3 DEF FirstOnly
  <2>3. \A u \in Sessions : guarded'[u] /\ phase'[u] # "completing" => serving'[u].key \notin Sent' \ Slipped'
    BY <1>0, <1>1, <1>2 DEF FirstOnly
  <2> QED  BY <2>1, <2>2, <2>3 DEF FirstOnly
<1> QED  BY <1>2, <1>4, <1>5, <1>6, <1>7 DEF OnceInv

\* A request begins to be handled: under a new claim, or it slips.
LEMMA OnceHandles ==
  ASSUME ClaimInv, OnceInv, NEW s \in Sessions, NEW r \in Requests, NEW g \in BOOLEAN, Handle(s, r, g),
         ~guarded[s], UNCHANGED <<thread, emptied, answered>>,
         IF g THEN ledger[r.key] = None /\ ledger' = [ledger EXCEPT ![r.key] = [req |-> r, done |-> FALSE]]
              ELSE UNCHANGED ledger
  PROVE  OnceInv'
<1>0. LedgerTypeOK /\ ClaimsInUse /\ Home /\ AnswersKept /\ ClaimsAlone /\ SlipsKnown /\ FirstOnly
  BY DEF ClaimInv, OnceInv
<1>1. /\ phase'[s] = "handling" /\ serving'[s] = r /\ guarded'[s] = g /\ r.key \in Keys
      /\ \A u \in Sessions \ {s} : phase'[u] = phase[u] /\ serving'[u] = serving[u] /\ guarded'[u] = guarded[u]
  BY <1>0, KeyOfRequest DEF Handle, LedgerTypeOK
<1>2. Sent' = Sent /\ Doubled' = Doubled /\ Home'  BY <1>0, SameMessages
<1>3. /\ slips \subseteq slips' /\ slips' \subseteq slips \cup {r} /\ (~g => r \in slips')
      /\ Slipped \subseteq Slipped'
  BY DEF Handle, Slipped
<1>4. /\ \A k \in Keys : k # r.key => ledger'[k] = ledger[k]
      /\ ledger'[r.key] = ledger[r.key] \/ (g /\ ledger'[r.key] # None /\ ~ledger'[r.key].done)
  <2>1. [req |-> r, done |-> FALSE] # None  BY RowIsThere
  <2> QED  BY <1>0, <1>1, <2>1 DEF LedgerTypeOK
<1>5. Sent \subseteq Keys /\ \A u \in Sessions : guarded[u] => serving[u].key \in Keys
  BY <1>0, KeyOfRequest DEF Sent, ClaimsInUse
<1>6. AnswersKept'  BY <1>0, <1>1, <1>2, <1>4, <1>5 DEF AnswersKept
<1>7. ClaimsAlone'
  <2>1. ASSUME NEW u \in Sessions \ {s}, guarded[u] PROVE ledger'[serving[u].key] # None
    BY <1>0, <1>4, <1>5, <2>1 DEF ClaimsAlone
  <2>2. g => ledger'[r.key] # None
    BY <1>0, <1>1, RowIsThere DEF LedgerTypeOK
  <2>3. g => \A u \in Sessions \ {s} : guarded[u] => serving[u].key # r.key
    BY <1>0 DEF ClaimsAlone
  <2> QED  BY <1>0, <1>1, <2>1, <2>2, <2>3 DEF ClaimsAlone
<1>8. SlipsKnown'  BY <1>0, <1>1, <1>3 DEF SlipsKnown
<1>9. FirstOnly'
  <2>1. \A k \in Doubled' : Excused(k)'  BY <1>0, <1>2, <1>3 DEF FirstOnly, Excused
  <2>2. \A k \in Sent' \ Slipped' : ledger'[k] # None
    BY <1>0, <1>1, <1>2, <1>3, <1>4, <1>5 DEF FirstOnly
  <2>3. g => r.key \notin Sent \ Slipped  BY <1>0 DEF FirstOnly
  <2>4. \A u \in Sessions : guarded'[u] /\ phase'[u] # "completing" => serving'[u].key \notin Sent' \ Slipped'
    BY <1>0, <1>1, <1>2, <1>3, <2>3 DEF FirstOnly
  <2> QED  BY <2>1, <2>2, <2>4 DEF FirstOnly
<1> QED  BY <1>2, <1>6, <1>7, <1>8, <1>9 DEF OnceInv

\* A transaction ends with its effects, heard of or not.
LEMMA OnceCommits ==
  ASSUME Typed, ThreadInv, ClaimInv, ServeInv, OnceInv, NEW s \in Sessions,
         HandlerCommits(s) \/ HandlerCommitsUnheard(s)
  PROVE  OnceInv'
<1> DEFINE r == serving[s]
<1>0. /\ LedgerTypeOK /\ ClaimsInUse /\ Home /\ AnswersKept /\ ClaimsAlone /\ SlipsKnown /\ FirstOnly
      /\ ServesOf(s)
  BY DEF ClaimInv, OnceInv, ServeInv
<1>1. Ends(s) /\ tx[s] # None
  BY DEF HandlerCommits, HandlerCommitsUnheard, Commit, CommitUnheard, Ends, CanCommit
<1>2. r \in Requests \cup {None} /\ None \notin Requests  BY <1>0, NoneAssumption DEF LedgerTypeOK
<1>3. r # None => phase[s] = "handling"  BY <1>0, <1>1 DEF ServesOf, LedgerTypeOK, Phases
<1>4. Settled(r)
  <2>1. Carries(s) = r  BY <1>0, <1>1, <1>3 DEF Carries, ServesOf
  <2> QED  BY <1>0, <1>1, <2>1, EndsSettled
<1>5. /\ Sent \subseteq Sent' /\ Home' /\ emptied \subseteq emptied'
      /\ \A k \in Sent' : k \in Sent \/ (r # None /\ k = r.key)
      /\ \A k \in Doubled' : \/ k \in Doubled
                             \/ /\ r # None /\ k = r.key /\ k \in Sent
                                /\ r.kind = "post" => ~Replays(r.conv, r)
      /\ r # None => r.key \in Sent'
  BY <1>2, <1>4, SettledKeys
<1>6. /\ UNCHANGED ledger /\ slips \subseteq slips' /\ slips' \subseteq Requests
      /\ \/ UNCHANGED <<serving, phase, guarded, answered>> /\ r = None
         \/ r # None /\ ~guarded[s] /\ Leave(s) /\ answered' \in {answered, answered \cup {r}}
         \/ r # None /\ guarded[s] /\ UNCHANGED <<serving, guarded, answered>>
            /\ \/ phase' = [phase EXCEPT ![s] = "completing"]
               \/ phase' = [phase EXCEPT ![s] = "releasing"] /\ r \in slips'
  BY <1>0, <1>2 DEF HandlerCommits, HandlerCommitsUnheard, ReturnOk, ReturnError, AnswerOk, SlipsKnown
<1>7. /\ Slipped \subseteq Slipped' /\ Sent \subseteq Keys /\ Sent' \subseteq Keys
      /\ \A q \in slips' : q.key \in Slipped'
  BY <1>6 DEF Slipped, Sent
\* A session that writes under a key that never slipped has the claim on it.
<1>8. r # None /\ r.key \notin Slipped => guarded[s] /\ ledger[r.key] # None /\ r.key \notin Sent
  <2> SUFFICES ASSUME r # None, r.key \notin Slipped PROVE guarded[s] /\ ledger[r.key] # None /\ r.key \notin Sent
    OBVIOUS
  <2>1. phase[s] = "handling"  BY <1>3
  <2>2. guarded[s]  BY <1>0, <2>1 DEF SlipsKnown, Slipped
  <2> QED  BY <1>0, <2>1, <2>2 DEF ClaimsAlone, FirstOnly
<1>9. \A u \in Sessions \ {s} : phase'[u] = phase[u] /\ serving'[u] = serving[u] /\ guarded'[u] = guarded[u]
  BY <1>0, <1>6 DEF Leave, LedgerTypeOK
<1>10. \/ r = None /\ phase'[s] = phase[s] /\ serving'[s] = r /\ guarded'[s] = guarded[s]
       \/ r # None /\ phase'[s] = "idle" /\ ~guarded'[s]
       \/ /\ r # None /\ serving'[s] = r /\ guarded'[s] /\ guarded[s]
          /\ phase'[s] \in {"completing", "releasing"} /\ (phase'[s] = "releasing" => r \in slips')
  BY <1>0, <1>6 DEF Leave, LedgerTypeOK
<1>11. r = None => phase[s] = "idle" /\ ~guarded[s]  BY <1>0 DEF ServesOf, ClaimsInUse
<1> HIDE DEF r
<1>12. AnswersKept'
  <2>1. \A q \in answered' : q.key \in Sent'  BY <1>0, <1>5, <1>6 DEF AnswersKept
  <2>2. \A u \in Sessions : phase'[u] = "completing" => serving'[u].key \in Sent'
    BY <1>0, <1>5, <1>9, <1>10, <1>11 DEF AnswersKept
  <2> QED  BY <1>0, <1>5, <1>6, <2>1, <2>2 DEF AnswersKept
<1>13. ClaimsAlone'
  <2>0. r = serving[s]  BY DEF r
  <2>1. \A u \in Sessions : guarded'[u] => guarded[u] /\ serving'[u] = serving[u]
    BY <1>9, <1>10, <1>11, <2>0
  <2>2. \A u \in Sessions : phase'[u] \in {"completing", "releasing"} => guarded'[u]
    BY <1>0, <1>9, <1>10, <1>11 DEF ClaimsAlone
  <2> QED  BY <1>0, <1>6, <2>1, <2>2 DEF ClaimsAlone
<1>14. SlipsKnown'
  BY <1>0, <1>6, <1>9, <1>10, <1>11 DEF SlipsKnown
<1>15. FirstOnly'
  <2>0. r = serving[s]  BY DEF r
  <2>1. \A k \in Sent' \ Slipped' : ledger'[k] # None  BY <1>0, <1>5, <1>6, <1>7, <1>8 DEF FirstOnly
  <2>2. ASSUME NEW u \in Sessions, guarded'[u], phase'[u] # "completing"
        PROVE  serving'[u].key \notin Sent' \ Slipped'
    <3>1. CASE u = s  BY <1>7, <1>10, <1>11, <2>2, <3>1
    <3>2. CASE u # s
      <4>1. guarded[u] /\ serving'[u] = serving[u] /\ serving[u].key \notin Sent \ Slipped
        BY <1>0, <1>9, <2>2, <3>2 DEF FirstOnly
      <4>2. guarded[s] => serving[u].key # r.key  BY <1>0, <2>0, <3>2, <4>1 DEF ClaimsAlone
      <4> QED  BY <1>5, <1>7, <1>8, <4>1, <4>2
    <3> QED  BY <3>1, <3>2
  <2>3. ASSUME NEW k \in Doubled' PROVE Excused(k)'
    <3>1. Excused(k) => Excused(k)'  BY <1>5, <1>6 DEF Excused
    <3>2. CASE k \in Doubled  BY <1>0, <3>1, <3>2 DEF FirstOnly
    <3>3. CASE r # None /\ k = r.key /\ k \in Sent /\ (r.kind = "post" => ~Replays(r.conv, r))
      <4>1. PICK q \in slips : q.key = k  BY <1>8, <3>3 DEF Slipped
      <4>2. r \in Requests /\ q \in Requests  BY <1>0, <1>2, <3>3, <2>0 DEF r, SlipsKnown
      <4>3. ASSUME q.kind = "post", q.author = "agent" PROVE q.conv \in emptied
        <5>1. r.kind = "post" /\ r.author = "agent" /\ r.conv = q.conv
          BY <3>3, <4>1, <4>2, <4>3, KeyAssumption
        <5>2. PICK c \in Conversations : \E i \in DOMAIN thread[c] : thread[c][i].key = k
          BY <3>3 DEF Sent, Has
        <5>3. PICK i \in DOMAIN thread[c] : thread[c][i].key = k  BY <5>2
        <5> DEFINE m == thread[c][i]
        <5>4. thread[c] \in Seq(Requests)  BY DEF Typed, StoreTyped
        <5>5. m \in Requests  BY <5>4, ElementOfSeq, LenProperties
        <5>6. m.kind = "post" /\ m.author = "agent" /\ m.conv = q.conv
          BY <4>1, <4>2, <4>3, <5>3, <5>5, KeyAssumption
        <5>7. c # r.conv
          <6>1. SameClient(m, r)  BY <3>3, <5>1, <5>3, <5>6 DEF SameClient
          <6>2. ~Replays(r.conv, r)  BY <3>3, <5>1
          <6> QED  BY <6>1, <6>2 DEF Replays
        <5>8. m.conv = c \/ m.conv \in emptied  BY <1>0, <5>6 DEF Home
        <5> QED  BY <5>1, <5>6, <5>7, <5>8
      <4> QED  BY <1>5, <1>6, <4>1, <4>3 DEF Excused
    <3> QED  BY <1>5, <3>2, <3>3
  <2> QED  BY <2>1, <2>2, <2>3 DEF FirstOnly
<1> QED  BY <1>5, <1>12, <1>13, <1>14, <1>15 DEF OnceInv

\* The variables of the invariant.
onceVars == <<thread, emptied, ledger, serving, phase, guarded, answered, slips>>

LEMMA OnceStays == OnceInv /\ UNCHANGED onceVars => OnceInv'
<1> SUFFICES ASSUME OnceInv, UNCHANGED onceVars PROVE OnceInv'  OBVIOUS
<1>1. Sent' = Sent /\ Doubled' = Doubled /\ Home' /\ Slipped' = Slipped
  BY SameMessages DEF OnceInv, onceVars, Slipped
<1>2. \A k : Excused(k) => Excused(k)'  BY DEF onceVars, Excused
<1> QED  BY <1>1, <1>2 DEF OnceInv, onceVars, AnswersKept, ClaimsAlone, SlipsKnown, FirstOnly

\* A request finds its key taken, or a claimed one has failed: the session goes on
\* to read the row, or to release it.
LEMMA OnceGoesOn ==
  ASSUME ClaimInv, OnceInv, NEW s \in Sessions, NEW r \in Requests, NEW p \in {"reading", "releasing"},
         UNCHANGED <<thread, emptied, ledger, guarded, answered, slips>>,
         serving' = [serving EXCEPT ![s] = r], phase' = [phase EXCEPT ![s] = p],
         IF p = "reading" THEN ~guarded[s] ELSE guarded[s] /\ r = serving[s] /\ phase[s] # "completing"
  PROVE  OnceInv'
<1>0. LedgerTypeOK /\ Home /\ AnswersKept /\ ClaimsAlone /\ SlipsKnown /\ FirstOnly
  BY DEF ClaimInv, OnceInv
<1>1. /\ phase'[s] = p /\ serving'[s] = r
      /\ \A u \in Sessions \ {s} : phase'[u] = phase[u] /\ serving'[u] = serving[u]
  BY <1>0 DEF LedgerTypeOK
<1>2. \A u \in Sessions : guarded[u] => serving'[u] = serving[u]  BY <1>1
<1>3. Sent' = Sent /\ Doubled' = Doubled /\ Home' /\ Slipped' = Slipped
  BY <1>0, SameMessages DEF Slipped
<1>4. AnswersKept'  BY <1>0, <1>1, <1>3 DEF AnswersKept
<1>5. ClaimsAlone'
  <2>1. \A u \in Sessions : phase'[u] \in {"completing", "releasing"} => guarded'[u]
    BY <1>0, <1>1 DEF ClaimsAlone
  <2> QED  BY <1>0, <1>2, <2>1 DEF ClaimsAlone
<1>6. SlipsKnown'  BY <1>0, <1>1 DEF SlipsKnown
<1>7. FirstOnly'
  <2>1. \A k \in Doubled' : Excused(k)'  BY <1>0, <1>3 DEF FirstOnly, Excused
  <2>2. \A u \in Sessions : guarded'[u] /\ phase'[u] # "completing" => serving'[u].key \notin Sent' \ Slipped'
    BY <1>0, <1>1, <1>2, <1>3 DEF FirstOnly
  <2> QED  BY <1>0, <1>3, <2>1, <2>2 DEF FirstOnly
<1> QED  BY <1>3, <1>4, <1>5, <1>6, <1>7 DEF OnceInv

LEMMA OnceStep ==
  ASSUME Typed, ThreadInv, ClaimInv, ServeInv, OnceInv, [Next]_vars
  PROVE  OnceInv'
<1>0. LedgerTypeOK /\ ClaimsInUse /\ AnswersKept /\ ClaimsAlone /\ FirstOnly  BY DEF ClaimInv, OnceInv
<1>1. CASE UNCHANGED vars
  BY <1>1, OnceStays DEF vars, convVars, store, middleware, onceVars
<1>2. ASSUME NEW s \in Sessions, Background(s) \/ Wakes(s) \/ HandlerLocks(s) PROVE OnceInv'
  <2>1. UNCHANGED middleware /\ UNCHANGED store
    <3>1. CASE Background(s) \/ Wakes(s)
      BY <3>1 DEF Background, Wakes, BeginOperation, BeginWake, BeginTell, BeginSetState, BeginSnooze, BeginMerge,
                  BeginBulk, BeginLabel, BeginTicket, BeginSetCustomer, BeginMergeCustomers, BeginReverse, Begins
    <3> QED  BY <1>2, <3>1 DEF HandlerLocks, Lock, FindCases
  <2> QED  BY <2>1, OnceStays DEF middleware, store, onceVars
<1>3. ASSUME NEW s \in Sessions, NEW r \in Requests, Claim(s, r) \/ ClaimFails(s, r) PROVE OnceInv'
  <2>1. ~guarded[s]  BY <1>0, <1>3 DEF Claim, ClaimFails, Send, Busy, ClaimsInUse
  <2>2. UNCHANGED <<thread, emptied, answered>>
    BY <1>3 DEF Claim, ClaimFails, Handle, BeginPost, BeginStart, store
  <2>3. CASE Claim(s, r)  BY <2>1, <2>2, <2>3, OnceHandles DEF Claim
  <2>4. CASE ClaimFails(s, r)  BY <2>1, <2>2, <2>4, OnceHandles DEF ClaimFails
  <2> QED  BY <1>3, <2>3, <2>4
<1>4. ASSUME NEW s \in Sessions, NEW r \in Requests, Conflict(s, r) PROVE OnceInv'
  <2>1. ~guarded[s]  BY <1>0, <1>4 DEF Conflict, Send, Busy, ClaimsInUse
  <2> QED  BY <1>4, <2>1, OnceGoesOn DEF Conflict, store
<1>5. ASSUME NEW s \in Sessions, ReadGone(s) PROVE OnceInv'
  <2>1. ~guarded[s] /\ serving[s] \in Requests  BY <1>0, <1>5 DEF ReadGone, ClaimsInUse
  <2>2. UNCHANGED <<thread, emptied, answered, ledger>> /\ Handle(s, serving[s], FALSE)
    BY <1>5 DEF ReadGone, Handle, BeginPost, BeginStart, store
  <2> QED  BY <2>1, <2>2, OnceHandles
<1>6. ASSUME NEW s \in Sessions, ReadRefused(s) \/ ReadDone(s) PROVE OnceInv'
  <2>1. UNCHANGED <<thread, emptied, slips, ledger>> /\ Leave(s)
    BY <1>6 DEF ReadRefused, ReadDone, convVars, store
  <2>2. serving[s] \in Requests /\ serving[s].key \in Keys
    BY <1>0, <1>6, KeyOfRequest DEF ReadRefused, ReadDone, ClaimsInUse
  <2>3. answered' = answered \/ (answered' = answered \cup {serving[s]} /\ serving[s].key \in Sent)
    BY <1>0, <1>6, <2>2 DEF ReadRefused, ReadDone, AnswerOk, AnswersKept
  <2> QED  BY <2>1, <2>3, OnceLeaves
<1>7. ASSUME NEW s \in Sessions, Complete(s) \/ Release(s) PROVE OnceInv'
  <2>1. UNCHANGED <<thread, emptied, slips>> /\ Leave(s) /\ guarded[s]
    BY <1>0, <1>7 DEF Complete, Release, convVars, store, ClaimsAlone
  <2>2. serving[s].key \in Keys
    BY <1>0, <1>7, KeyOfRequest DEF Complete, Release, ClaimsInUse
  <2>3. CASE Complete(s)
    <3>1. serving[s].key \in Sent /\ answered' = answered \cup {serving[s]}
      BY <1>0, <2>3 DEF Complete, AnswerOk, AnswersKept
    <3>2. \A k \in Keys : ledger'[k] = ledger[k] \/ (k = serving[s].key /\ ledger[k] # None /\ ledger'[k] # None)
      <4> SUFFICES ASSUME NEW k \in Keys, k = serving[s].key, ledger[k] # None PROVE ledger'[k] # None
        BY <1>0, <2>3 DEF Complete, LedgerTypeOK
      <4>1. ledger[k] \in LedgerRow  BY <1>0 DEF LedgerTypeOK
      <4>2. ledger'[k] = [ledger[k] EXCEPT !.done = TRUE]  BY <1>0, <2>3 DEF Complete, LedgerTypeOK
      <4>3. ledger'[k] \in LedgerRow  BY <4>1, <4>2 DEF LedgerRow
      <4> QED  BY <4>3, RowAssumption DEF LedgerRow
    <3> QED  BY <2>1, <3>1, <3>2, OnceLeaves
  <2>4. CASE Release(s)
    <3>1. serving[s].key \notin Sent \ Slipped /\ answered' = answered
      BY <1>0, <2>1, <2>4 DEF Release, FirstOnly
    <3>2. \A k \in Keys : ledger'[k] = ledger[k] \/ (k = serving[s].key /\ ledger'[k] = None)
      BY <1>0, <2>4 DEF Release, LedgerTypeOK
    <3> QED  BY <2>1, <3>1, <3>2, OnceLeaves
  <2> QED  BY <1>7, <2>3, <2>4
<1>8. ASSUME NEW s \in Sessions, LedgerWriteFails(s) \/ Crash(s) PROVE OnceInv'
  <2>1. UNCHANGED <<thread, emptied, slips, ledger>> /\ Leave(s)
    BY <1>8 DEF LedgerWriteFails, Crash, RollBack, store
  <2>2. answered' = answered \/ (answered' = answered \cup {serving[s]} /\ serving[s].key \in Sent)
    BY <1>0, <1>8 DEF LedgerWriteFails, Crash, AnswerOk, AnswersKept
  <2> QED  BY <2>1, <2>2, OnceLeaves
<1>9. ASSUME NEW s \in Sessions, HandlerFails(s) PROVE OnceInv'
  <2>0. tx[s] # None
    <3>1. Wants(s) # {} => tx[s] # None  BY DEF Wants, Dirty, Typed, SessionsTyped
    <3>2. \A D : s \in D /\ Deadlocked(D) => Wants(s) # {}  BY DEF Deadlocked, WaitsFor
    <3> QED  BY <1>9, <3>1, <3>2 DEF HandlerFails, Cancelled, Fail, Refused
  <2>1. UNCHANGED <<thread, emptied, ledger, slips>> /\ answered' = answered
    BY <1>9 DEF HandlerFails, Cancelled, Fail, RollBack, store, ReturnError
  <2>2. CASE serving[s] = None
    BY <1>9, <2>1, <2>2, OnceStays DEF HandlerFails, onceVars
  <2>3. CASE serving[s] # None /\ guarded[s]
    <3>1. phase[s] = "handling" /\ serving[s] \in Requests
      BY <1>0, <2>0, <2>3 DEF ServeInv, ServesOf, LedgerTypeOK, Phases
    <3>2. /\ serving' = [serving EXCEPT ![s] = serving[s]] /\ UNCHANGED guarded
          /\ phase' = [phase EXCEPT ![s] = "releasing"]
      BY <1>0, <1>9, <2>3 DEF HandlerFails, ReturnError, LedgerTypeOK
    <3> QED  BY <2>1, <2>3, <3>1, <3>2, OnceGoesOn
  <2>4. CASE serving[s] # None /\ ~guarded[s]
    BY <1>9, <2>1, <2>4, OnceLeaves DEF HandlerFails, ReturnError
  <2> QED  BY <2>2, <2>3, <2>4
<1>10. ASSUME NEW s \in Sessions, HandlerCommits(s) \/ HandlerCommitsUnheard(s) PROVE OnceInv'
  BY <1>10, OnceCommits
<1> QED
  BY <1>1, <1>2, <1>3, <1>4, <1>5, <1>6, <1>7, <1>8, <1>9, <1>10 DEF Next

LEMMA InitOnce == Init => OnceInv
<1> SUFFICES ASSUME Init PROVE OnceInv  OBVIOUS
<1>1. \A c \in Conversations : DOMAIN thread[c] = {}  BY DEF Init, ConvInit
<1>2. Sent = {} /\ Doubled = {} /\ Home  BY <1>1 DEF Sent, Doubled, Has, Twice, Home
<1> QED
  BY <1>2 DEF Init, OnceInv, AnswersKept, ClaimsAlone, SlipsKnown, FirstOnly

-----------------------------------------------------------------------------
(* Counting messages *)

\* The number of a key's messages says no more than Has and Twice.
LEMMA CopiesCount ==
  ASSUME Typed, NEW k
  PROVE  /\ Has(k) => Copies(k) >= 1
         /\ Copies(k) > 1 => Twice(k)
<1> DEFINE places == UNION {{c} \X DOMAIN thread[c] : c \in Conversations}
           own == {p \in places : thread[p[1]][p[2]].key = k}
<1>1. IsFiniteSet(places)
  <2>1. IsFiniteSet(Conversations)  BY FiniteCases, RowsAre
  <2>2. ASSUME NEW c \in Conversations PROVE IsFiniteSet({c} \X DOMAIN thread[c])
    <3>1. thread[c] \in Seq(Requests)  BY DEF Typed, StoreTyped
    <3>2. DOMAIN thread[c] = 1..Len(thread[c]) /\ Len(thread[c]) \in Nat  BY <3>1, LenProperties
    <3>3. IsFiniteSet(DOMAIN thread[c])  BY <3>2, FS_Interval
    <3> QED  BY <3>3, FS_Singleton, FS_Product
  <2> DEFINE of == [c \in Conversations |-> {c} \X DOMAIN thread[c]]
             T == {{c} \X DOMAIN thread[c] : c \in Conversations}
  <2>3. IsFiniteSet(T)
    <3>1. of \in Surjection(Conversations, T)  BY DEF Surjection
    <3> HIDE DEF of, T
    <3> QED  BY <2>1, <3>1, FS_Surjection
  <2> QED  BY <2>2, <2>3, FS_UNION
<1>2. IsFiniteSet(own) /\ Cardinality(own) \in Nat
  BY <1>1, FS_Subset, FS_CardinalityType
<1>3. Copies(k) = Cardinality(own)  BY DEF Copies
<1>4. ASSUME Has(k) PROVE Cardinality(own) >= 1
  <2>0. PICK c \in Conversations : \E i \in DOMAIN thread[c] : thread[c][i].key = k  BY <1>4 DEF Has
  <2>1. PICK i \in DOMAIN thread[c] : thread[c][i].key = k  BY <2>0
  <2>2. <<c, i>> \in own  BY <2>1
  <2>3. Cardinality(own) # 0  BY <1>2, <2>2, FS_EmptySet
  <2> QED  BY <1>2, <2>3
<1>5. ASSUME Cardinality(own) > 1 PROVE Twice(k)
  <2>1. own # {}  BY <1>5, FS_EmptySet
  <2>2. PICK p \in own : TRUE  BY <2>1
  <2>3. own # {p}
    <3>1. Cardinality({p}) = 1  BY FS_Singleton
    <3> HIDE DEF own
    <3> QED  BY <1>5, <3>1
  <2>4. PICK q \in own : q # p  BY <2>2, <2>3
  <2>5. PICK c \in Conversations : p \in {c} \X DOMAIN thread[c]  BY <2>2
  <2>6. PICK d \in Conversations : q \in {d} \X DOMAIN thread[d]  BY <2>4
  <2> QED  BY <2>2, <2>4, <2>5, <2>6 DEF Twice
<1> QED  BY <1>3, <1>4, <1>5

-----------------------------------------------------------------------------
(* Whom a case follows *)

\* Record i is the last of those about its loser.
IsLast(i) == \A j \in 1..Len(merges) : merges[j].loser = merges[i].loser => j <= i

\* A customer that is gone was absorbed by a merge that stands, and none about the
\* customer came after it.  The customer it went to is there, or was itself
\* absorbed later.
Gone ==
  \A b \in Customers \ customers : \E i \in 1..Len(merges) :
    merges[i].loser = b /\ IsLast(i) /\ ~merges[i].reversed
Onward ==
  \A i \in 1..Len(merges) : IsLast(i) /\ merges[i].loser \notin customers =>
    \/ merges[i].winner \in customers
    \/ \E j \in (i + 1)..Len(merges) : merges[j].loser = merges[i].winner

\* What is undone a second time is known to be entangled.
Again ==
  \A s \in Sessions :
    tx[s] # None /\ tx[s].kind = "reverse" /\ merges[tx[s].record].reversed => tx[s].cases \subseteq entangled

\* The standing merges that moved case c.
Moved(c) == {j \in 1..Len(merges) : c \in merges[j].cases /\ ~merges[j].reversed}

\* After record i case c was with a: it is now, or the next merge that moved it
\* took it from a.
Link(c, i, a) ==
  \/ (\A j \in Moved(c) : j <= i) /\ owner[c] = a
  \/ \E j \in Moved(c) : i < j /\ merges[j].loser = a /\ \A k \in Moved(c) : i < k => j <= k

\* The standing merges took the case from the customer it was given to, step by
\* step to the one that has it, and ended each of these customers for good so far.
Chain(c) ==
  /\ Link(c, 0, given[c])
  /\ \A i \in Moved(c) : Link(c, i, merges[i].winner) /\ IsLast(i) /\ merges[i].loser \notin customers
Chained == \A c \in Cases \ entangled : Chain(c)

MergeInv == Gone /\ Onward /\ Again /\ Chained

\* The last record of a customer who is gone is the one that LastMerge names.
LEMMA LastIs ==
  ASSUME merges \in Seq(Record), NEW i \in 1..Len(merges), IsLast(i)
  PROVE  LastMerge(merges[i].loser) = i
<1>0. DOMAIN merges = 1..Len(merges) /\ Len(merges) \in Nat  BY LenProperties
<1> DEFINE b == merges[i].loser
           Is(k) == merges[k].loser = b /\ \A j \in DOMAIN merges : merges[j].loser = b => j <= k
<1>1. Is(i)  BY <1>0 DEF IsLast
<1>2. \A k \in DOMAIN merges : Is(k) => k = i
  <2> SUFFICES ASSUME NEW k \in DOMAIN merges, Is(k) PROVE k = i  OBVIOUS
  <2>1. i <= k /\ k <= i /\ k \in Int /\ i \in Int  BY <1>0, <1>1
  <2> QED  BY <2>1
<1>3. LastMerge(b) = CHOOSE k \in DOMAIN merges : Is(k)  BY DEF LastMerge
<1> HIDE DEF Is, b
<1>4. LastMerge(b) = i  BY <1>0, <1>1, <1>2, <1>3
<1> QED  BY <1>4 DEF b

\* Follow follows.  The customers whose last merge has a number from n on, and those
\* who are there, have a function that does for every n, down to 0.
FollowFrom(n) ==
  LET from == {b \in Customers : b \in customers \/ LastMerge(b) >= n}
  IN  \E g \in [from -> Customers] :
        \A b \in from : /\ b \in customers => g[b] = b
                        /\ b \notin customers => merges[LastMerge(b)].winner \in from
                                                 /\ g[b] = g[merges[LastMerge(b)].winner]

LEMMA FollowExists ==
  ASSUME Typed, Gone, Onward
  PROVE  FollowFrom(0)
<1>0. /\ merges \in Seq(Record) /\ DOMAIN merges = 1..Len(merges) /\ Len(merges) \in Nat
      /\ customers \subseteq Customers
  BY LenProperties DEF Typed, StoreTyped
<1>1. ASSUME NEW b \in Customers, b \notin customers
      PROVE  /\ LastMerge(b) \in 1..Len(merges)
             /\ merges[LastMerge(b)].loser = b
             /\ merges[LastMerge(b)].winner \in Customers
             /\ \/ merges[LastMerge(b)].winner \in customers
                \/ LastMerge(merges[LastMerge(b)].winner) > LastMerge(b)
  <2>1. PICK i \in 1..Len(merges) : merges[i].loser = b /\ IsLast(i)  BY <1>1 DEF Gone
  <2>2. LastMerge(b) = i  BY <1>0, <2>1, LastIs
  <2>3. merges[i].winner \in Customers
    <3>1. merges[i] \in Record  BY <1>0, <2>1
    <3> QED  BY <3>1 DEF Record
  <2>4. \/ merges[i].winner \in customers
        \/ LastMerge(merges[i].winner) > i
    <3> SUFFICES ASSUME merges[i].winner \notin customers
                 PROVE  LastMerge(merges[i].winner) > i  OBVIOUS
    <3>1. PICK j \in (i + 1)..Len(merges) : merges[j].loser = merges[i].winner
      BY <1>1, <2>1 DEF Onward
    <3>2. PICK k \in 1..Len(merges) : merges[k].loser = merges[i].winner /\ IsLast(k)
      BY <2>3 DEF Gone
    <3>3. LastMerge(merges[i].winner) = k  BY <1>0, <3>2, LastIs
    <3>4. j \in 1..Len(merges)  BY <1>0, <3>1
    <3>5. j <= k  BY <3>1, <3>2, <3>4 DEF IsLast
    <3> QED  BY <1>0, <3>1, <3>2, <3>3, <3>5
  <2> QED  BY <2>1, <2>2, <2>3, <2>4
<1> DEFINE N == Len(merges)
           Bad == {m \in 0..(N + 1) : ~FollowFrom(N + 1 - m)}
<1>2. SUFFICES ASSUME Bad # {} PROVE FALSE
  <2>1. N + 1 \in 0..(N + 1) /\ N + 1 - (N + 1) = 0  BY <1>0
  <2> QED  BY <2>1
<1>3. PICK m \in Bad : \A k \in Bad : m <= k
  <2>1. Bad \subseteq Nat  OBVIOUS
  <2> HIDE DEF Bad
  <2> QED  BY <1>2, <2>1, HasLeast
<1> DEFINE n == N + 1 - m
           From(k) == {b \in Customers : b \in customers \/ LastMerge(b) >= k}
           Follows(g, S) ==
             \A b \in S : /\ b \in customers => g[b] = b
                          /\ b \notin customers => merges[LastMerge(b)].winner \in S
                                                   /\ g[b] = g[merges[LastMerge(b)].winner]
<1>4. \A k : FollowFrom(k) <=> \E g \in [From(k) -> Customers] : Follows(g, From(k))
  BY DEF FollowFrom
<1>5. n \in 0..(N + 1) /\ ~FollowFrom(n)  BY <1>0, <1>3
<1>6. CASE m = 0
  <2>1. From(n) = customers  BY <1>0, <1>1, <1>6
  <2> DEFINE g == [b \in customers |-> b]
  <2>2. g \in [customers -> Customers] /\ \A b \in customers : g[b] = b  BY <1>0
  <2> HIDE DEF g
  <2>3. Follows(g, customers)  BY <2>2
  <2> HIDE DEF From, Follows, n
  <2> QED  BY <1>4, <1>5, <2>1, <2>2, <2>3
<1>7. CASE m # 0
  <2>1. m - 1 \in 0..(N + 1) /\ m - 1 \notin Bad /\ N + 1 - (m - 1) = n + 1
    <3>1. m \in 0..(N + 1)  OBVIOUS
    <3>2. m - 1 \in 0..(N + 1) /\ ~(m <= m - 1)  BY <1>0, <1>7, <3>1
    <3> QED  BY <1>0, <1>3, <3>1, <3>2
  <2>2. FollowFrom(n + 1)  BY <2>1
  <2>3. PICK h \in [From(n + 1) -> Customers] : Follows(h, From(n + 1))
    <3> HIDE DEF From, Follows, n
    <3> QED  BY <1>4, <2>2
  <2>4. \A b \in From(n) \ From(n + 1) :
           b \notin customers /\ LastMerge(b) = n /\ merges[LastMerge(b)].winner \in From(n + 1)
    BY <1>0, <1>1, <1>5
  <2>5. From(n + 1) \subseteq From(n)  BY <1>0, <1>1, <1>5
  <2> DEFINE g == [b \in From(n) |-> IF b \in From(n + 1) THEN h[b] ELSE h[merges[LastMerge(b)].winner]]
  <2> HIDE DEF From, n
  <2>6. \A b \in From(n) : /\ b \in From(n + 1) => g[b] = h[b]
                           /\ b \notin From(n + 1) => g[b] = h[merges[LastMerge(b)].winner]
    OBVIOUS
  <2>7. g \in [From(n) -> Customers]  BY <2>4
  <2> HIDE DEF g
  <2>8. Follows(g, From(n))
    <3> SUFFICES ASSUME NEW b \in From(n)
                 PROVE  /\ b \in customers => g[b] = b
                        /\ b \notin customers => merges[LastMerge(b)].winner \in From(n)
                                                 /\ g[b] = g[merges[LastMerge(b)].winner]
      OBVIOUS
    <3>1. CASE b \in From(n + 1)  BY <2>3, <2>5, <2>6, <3>1
    <3>2. CASE b \notin From(n + 1)  BY <2>4, <2>5, <2>6, <3>2
    <3> QED  BY <3>1, <3>2
  <2> HIDE DEF Follows
  <2> QED  BY <1>4, <1>5, <2>7, <2>8
<1> QED  BY <1>6, <1>7

LEMMA FollowIs ==
  ASSUME Typed, Gone, Onward
  PROVE  \A a \in Customers : Follow[a] = IF a \in customers THEN a ELSE Follow[merges[LastMerge(a)].winner]
<1> DEFINE Equation(g) == g = [a \in Customers |-> IF a \in customers THEN a ELSE g[merges[LastMerge(a)].winner]]
<1>1. \E g : Equation(g)
  <2>1. {b \in Customers : b \in customers \/ LastMerge(b) >= 0} = Customers
    <3>1. ASSUME NEW b \in Customers, b \notin customers PROVE LastMerge(b) >= 0
      <4>1. PICK i \in 1..Len(merges) : merges[i].loser = b /\ IsLast(i)  BY <3>1 DEF Gone
      <4>2. LastMerge(b) = i  BY <4>1, LastIs DEF Typed, StoreTyped
      <4> QED  BY <4>2
    <3> QED  BY <3>1
  <2>2. PICK g \in [Customers -> Customers] :
           \A b \in Customers : /\ b \in customers => g[b] = b
                                /\ b \notin customers => g[b] = g[merges[LastMerge(b)].winner]
    BY <2>1, FollowExists DEF FollowFrom
  <2>3. Equation(g)  BY <2>2
  <2> HIDE DEF Equation
  <2> QED  BY <2>3
<1>2. Follow = CHOOSE g : Equation(g)  BY DEF Follow
<1> HIDE DEF Equation
<1>3. Equation(Follow)  BY <1>1, <1>2
<1> QED  BY <1>3 DEF Equation

\* Along its chain a case is with the one that its customer was merged into.
LEMMA ChainFollows ==
  ASSUME Typed, OwnersThere, MergeInv
  PROVE  CaseFollowsCustomer
<1>0. /\ merges \in Seq(Record) /\ DOMAIN merges = 1..Len(merges) /\ Len(merges) \in Nat
      /\ customers \subseteq Customers
      /\ given \in [Cases -> Customers \cup {None}]
  BY LenProperties DEF Typed, StoreTyped
<1>1. \A a \in Customers : Follow[a] = IF a \in customers THEN a ELSE Follow[merges[LastMerge(a)].winner]
  BY FollowIs DEF MergeInv
<1>2. SUFFICES ASSUME NEW c \in Cases, c \notin entangled
               PROVE  owner[c] = IF given[c] = None THEN None ELSE Follow[given[c]]
  BY DEF CaseFollowsCustomer
<1>3. Chain(c)  BY <1>2 DEF MergeInv, Chained
<1>n. CASE given[c] = None
  <2>1. Link(c, 0, None)  BY <1>3, <1>n DEF Chain
  <2>2. \A j \in Moved(c) : merges[j] \in Record  BY <1>0 DEF Moved
  <2>3. \A j \in Moved(c) : merges[j].loser # None  BY <2>2, CustomerAssumption DEF Record
  <2> QED  BY <1>n, <2>1, <2>3 DEF Link
<1> SUFFICES ASSUME given[c] # None PROVE owner[c] = Follow[given[c]]  BY <1>n
<1>4. owner[c] \in customers  BY <1>2 DEF OwnersThere
<1>5. ASSUME NEW i \in Nat, NEW a \in Customers, Link(c, i, a),
             \A j \in Moved(c) : i < j => Follow[merges[j].winner] = owner[c]
      PROVE  Follow[a] = owner[c]
  <2>1. CASE owner[c] = a  BY <1>1, <1>4, <2>1
  <2>2. CASE \E j \in Moved(c) : i < j /\ merges[j].loser = a
    <3>1. PICK j \in Moved(c) : i < j /\ merges[j].loser = a  BY <2>2
    <3>2. IsLast(j) /\ a \notin customers /\ j \in 1..Len(merges)  BY <1>3, <3>1 DEF Chain, Moved
    <3>3. LastMerge(a) = j  BY <1>0, <3>1, <3>2, LastIs
    <3>4. Follow[a] = Follow[merges[j].winner]  BY <1>1, <3>2, <3>3
    <3> QED  BY <1>5, <3>1, <3>4
  <2> QED  BY <1>5, <2>1, <2>2 DEF Link
<1>6. \A j \in Moved(c) : Follow[merges[j].winner] = owner[c]
  <2> DEFINE Lost == {j \in Moved(c) : Follow[merges[j].winner] # owner[c]}
             f == [j \in Lost |-> j]
  <2>1. SUFFICES ASSUME Lost # {} PROVE FALSE  OBVIOUS
  <2>2. Lost \subseteq 1..Len(merges)  BY DEF Moved
  <2>3. IsFiniteSet(Lost) /\ Lost \subseteq Nat
    <3>1. IsFiniteSet(1..Len(merges))  BY <1>0, FS_Interval
    <3>2. 1..Len(merges) \subseteq Nat  BY <1>0
    <3> HIDE DEF Lost
    <3> QED  BY <2>2, <3>1, <3>2, FS_Subset
  <2>4. f \in [Lost -> Nat] /\ \A j \in Lost : f[j] = j  BY <2>3
  <2>5. PICK i \in Lost : \A u \in Lost : f[u] <= f[i]
    <3> HIDE DEF Lost, f
    <3> QED  BY <2>1, <2>3, <2>4, HasGreatest
  <2>6. \A j \in Moved(c) : i < j => Follow[merges[j].winner] = owner[c]
    <3> SUFFICES ASSUME NEW j \in Moved(c), i < j, Follow[merges[j].winner] # owner[c] PROVE FALSE  OBVIOUS
    <3>1. j \in Lost  OBVIOUS
    <3>2. j <= i  BY <2>4, <2>5, <3>1
    <3>3. i \in Nat /\ j \in Nat  BY <2>3, <3>1
    <3> QED  BY <3>2, <3>3
  <2>7. Link(c, i, merges[i].winner) /\ i \in Nat /\ merges[i] \in Record
    BY <1>0, <1>3, <2>2, <2>3 DEF Chain
  <2>8. merges[i].winner \in Customers  BY <2>7 DEF Record
  <2> QED  BY <1>5, <2>6, <2>7, <2>8
<1>7. Link(c, 0, given[c]) /\ given[c] \in Customers  BY <1>0, <1>2, <1>3 DEF Chain
<1> QED  BY <1>5, <1>6, <1>7

\* What the merges do: nothing; or one is undone again, or twice; or one more is done.
LEMMA MergeStays ==
  ASSUME MergeInv, UNCHANGED crm,
         \A s \in Sessions : tx'[s] # None /\ tx'[s].kind = "reverse" =>
            \/ tx'[s] = tx[s] /\ tx[s] # None
            \/ ~merges[tx'[s].record].reversed
  PROVE  MergeInv'
<1>0. UNCHANGED <<customers, owner, merges, given, entangled>>  BY DEF crm
<1>1. Gone' /\ Onward'  BY <1>0 DEF MergeInv, Gone, Onward, IsLast
<1>2. Again'  BY <1>0 DEF MergeInv, Again
<1>3. Chained'  BY <1>0 DEF MergeInv, Chained, Chain, Link, Moved, IsLast
<1> QED  BY <1>1, <1>2, <1>3 DEF MergeInv

\* The others' transactions are what they were when one ends.
LEMMA OthersAgain ==
  ASSUME Again, UNCHANGED merges, entangled \subseteq entangled', NEW s \in Sessions,
         tx'[s] = None, \A u \in Sessions \ {s} : tx'[u] = tx[u]
  PROVE  Again'
BY DEF Again

\* A case on no list that stands, or entangled, is given to a customer, or to none.
LEMMA GiveMerge ==
  ASSUME MergeInv, merges \in Seq(Record), NEW c \in Cases, NEW a, NEW lists, GiveCase(c, a, lists),
         owner \in [Cases -> Customers \cup {None}], given \in [Cases -> Customers \cup {None}]
  PROVE  Gone' /\ Onward' /\ Chained' /\ UNCHANGED merges /\ entangled \subseteq entangled'
<1>0. /\ owner' = [owner EXCEPT ![c] = a] /\ given' = [given EXCEPT ![c] = a]
      /\ UNCHANGED <<customers, merges>>
      /\ entangled' = entangled \cup ({c} \cap UNION (lists \cup Standing(DOMAIN merges)))
      /\ DOMAIN merges = 1..Len(merges)
  BY LenProperties DEF GiveCase
<1>1. Gone' /\ Onward'  BY <1>0 DEF MergeInv, Gone, Onward, IsLast
<1>2. ASSUME NEW d \in Cases, d \notin entangled' PROVE Chain(d)'
  <2>1. CASE d = c
    <3>1. Moved(d) = {}
      <4> SUFFICES ASSUME NEW i \in Moved(d) PROVE FALSE  OBVIOUS
      <4>1. merges[i].cases \in Standing(DOMAIN merges) /\ c \in merges[i].cases
        BY <1>0, <2>1 DEF Moved, Standing
      <4>2. c \in entangled'  BY <1>0, <4>1
      <4> QED  BY <1>2, <2>1, <4>2
    <3>2. Moved(d)' = {}  BY <1>0, <3>1 DEF Moved
    <3>3. owner'[d] = given'[d]  BY <1>0, <2>1
    <3> QED  BY <3>2, <3>3 DEF Chain, Link
  <2>2. CASE d # c
    <3>1. d \notin entangled /\ owner'[d] = owner[d] /\ given'[d] = given[d]  BY <1>0, <1>2, <2>2
    <3>2. Chain(d)  BY <1>2, <3>1 DEF MergeInv, Chained
    <3>3. Moved(d)' = Moved(d)  BY <1>0 DEF Moved
    <3>4. \A i, b : Link(d, i, b)' <=> Link(d, i, b)  BY <1>0, <3>1, <3>3 DEF Link
    <3> QED  BY <1>0, <3>1, <3>2, <3>3, <3>4 DEF Chain, IsLast
  <2> QED  BY <2>1, <2>2
<1> QED  BY <1>0, <1>1, <1>2 DEF Chained

\* A merge takes the loser's cases, and those that changed hands since it found them.
LEMMA AbsorbMerge ==
  ASSUME Typed, LockInv, OwnerInv, MergeInv, NEW s \in Sessions, CanCommit(s),
         tx[s].kind = "mergeCustomers", AbsorbCustomer(tx[s].winner, tx[s].loser, tx[s].cases),
         tx'[s] = None, \A u \in Sessions \ {s} : tx'[u] = tx[u]
  PROVE  MergeInv'
<1>w. PICK w, l, C, n : w = tx[s].winner /\ l = tx[s].loser /\ C = tx[s].cases /\ n = Len(merges)
  OBVIOUS
<1> DEFINE r == [winner |-> w, loser |-> l, cases |-> C, reversed |-> FALSE]
<1>0. /\ w \in customers /\ l \in customers /\ w # l /\ C \subseteq Cases
      /\ OwnedBy(l) \subseteq C /\ \A c \in C \ entangled : owner[c] = l
      /\ merges \in Seq(Record) /\ r \in Record /\ customers \subseteq Customers /\ n \in Nat
  <2>1. /\ tx[s] \in Operations /\ tx[s] # None /\ w \in customers /\ w # l /\ {w, l} \subseteq held[s]
    BY <1>w, CommitHolds
  <2>2. w \in Customers /\ l \in Customers /\ C \subseteq Cases  BY <1>w, <2>1, Fields
  <2>3. l \in customers  BY <2>1, <2>2 DEF CanCommit, Refused
  <2>4. ListOf(s) /\ MergesNow(s)  BY <2>1 DEF OwnerInv, MergesNow
  <2>5. merges \in Seq(Record) /\ customers \subseteq Customers  BY DEF Typed, StoreTyped
  <2>6. r \in Record  BY <2>2 DEF Record
  <2> QED  BY <2>1, <2>2, <2>3, <2>4, <2>5, <2>6, <1>w, LenProperties DEF ListOf
<1>1. /\ customers' = customers \ {l} /\ UNCHANGED <<given, entangled>>
      /\ owner' = [c \in Cases |-> IF c \in C THEN w ELSE IF owner[c] = l THEN None ELSE owner[c]]
      /\ merges' = Append(merges, r)
  BY <1>w DEF AbsorbCustomer
<1>2. r.winner = w /\ r.loser = l /\ r.cases = C /\ r.reversed = FALSE  OBVIOUS
<1> HIDE DEF r
<1>3. /\ Len(merges') = n + 1 /\ merges'[n + 1] = r
      /\ \A i \in 1..n : merges'[i] = merges[i] /\ i \in 1..Len(merges')
      /\ \A i \in 1..Len(merges') : i \in 1..n \/ i = n + 1
      /\ n + 1 \in 1..Len(merges')
  BY <1>w, <1>0, <1>1, AppendProperties
<1>4. \A i \in 1..n : i < n + 1 /\ i <= n + 1 /\ ~(n + 1 <= i)  BY <1>0
<1>5. \A i \in 1..n : merges[i].loser # l => (IsLast(i)' <=> IsLast(i))
  BY <1>w, <1>2, <1>3 DEF IsLast
<1>6. IsLast(n + 1)'  BY <1>0, <1>3, <1>4 DEF IsLast
<1>7. Gone'
  <2> SUFFICES ASSUME NEW b \in Customers, b \notin customers'
               PROVE  \E i \in 1..Len(merges') : merges'[i].loser = b /\ IsLast(i)' /\ ~merges'[i].reversed
    BY DEF Gone
  <2>1. CASE b = l  BY <1>2, <1>3, <1>6, <2>1
  <2>2. CASE b # l
    <3>1. PICK i \in 1..n : merges[i].loser = b /\ IsLast(i) /\ ~merges[i].reversed
      BY <1>1, <2>2, <1>w DEF MergeInv, Gone
    <3> QED  BY <1>3, <1>5, <2>2, <3>1
  <2> QED  BY <2>1, <2>2
<1>8. Onward'
  <2> SUFFICES ASSUME NEW i \in 1..Len(merges'), IsLast(i)', merges'[i].loser \notin customers'
               PROVE  \/ merges'[i].winner \in customers'
                      \/ \E j \in (i + 1)..Len(merges') : merges'[j].loser = merges'[i].winner
    BY DEF Onward
  <2>1. CASE i = n + 1  BY <1>0, <1>1, <1>2, <1>3, <2>1
  <2>2. CASE i \in 1..n
    <3>1. merges[i].loser # l
      <4>1. i \in 1..n => ~(n + 1 <= i)  BY <1>4
      <4> QED  BY <1>2, <1>3, <2>2, <4>1 DEF IsLast
    <3>2. IsLast(i) /\ merges[i].loser \notin customers  BY <1>1, <1>3, <1>5, <2>2, <3>1
    <3>3. CASE merges[i].winner \in customers
      <4>1. CASE merges[i].winner = l
        <5>1. n + 1 \in (i + 1)..Len(merges')  BY <1>0, <1>3, <2>2
        <5> QED  BY <1>2, <1>3, <2>2, <4>1, <5>1
      <4> QED  BY <1>1, <1>3, <2>2, <3>3, <4>1
    <3>4. CASE \E j \in (i + 1)..n : merges[j].loser = merges[i].winner
      <4>1. PICK j \in (i + 1)..n : merges[j].loser = merges[i].winner  BY <3>4
      <4>2. j \in 1..n /\ j \in (i + 1)..Len(merges')  BY <1>0, <1>3, <2>2
      <4> QED  BY <1>3, <2>2, <4>1, <4>2
    <3> QED  BY <2>2, <3>2, <3>3, <3>4, <1>w DEF MergeInv, Onward
  <2> QED  BY <1>3, <2>1, <2>2
<1>9. Again'
  <2> SUFFICES ASSUME NEW u \in Sessions, tx'[u] # None, tx'[u].kind = "reverse", merges'[tx'[u].record].reversed
               PROVE  tx'[u].cases \subseteq entangled'
    BY DEF Again
  <2>1. tx'[u] = tx[u]  OBVIOUS
  <2>2. tx[u].record \in 1..n  BY <2>1, <1>w DEF Typed, Recorded
  <2>3. merges[tx[u].record].reversed  BY <1>3, <2>1, <2>2
  <2> QED  BY <1>1, <2>1, <2>3 DEF MergeInv, Again
<1>10. ASSUME NEW c \in Cases, c \notin entangled' PROVE Chain(c)'
  <2>1. Chain(c) /\ c \notin entangled  BY <1>1, <1>10 DEF MergeInv, Chained
  <2>2. \A i \in Moved(c) : i \in 1..n /\ merges[i].loser # l /\ merges'[i] = merges[i] /\ IsLast(i)'
    BY <1>0, <1>3, <1>5, <2>1, <1>w DEF Chain, Moved
  <2>3. Moved(c)' = Moved(c) \cup (IF c \in C THEN {n + 1} ELSE {})
    BY <1>w, <1>2, <1>3 DEF Moved
  <2>4. CASE c \in C
    <3>1. owner[c] = l /\ owner'[c] = w  BY <1>0, <1>1, <2>1, <2>4
    <3>2. Moved(c)' = Moved(c) \cup {n + 1}  BY <2>3, <2>4
    <3>3. ASSUME NEW i \in 0..n, NEW a, Link(c, i, a) PROVE Link(c, i, a)'
      <4>1. i < n + 1 /\ ~(n + 1 <= i)  BY <1>0
      <4>2. CASE (\A j \in Moved(c) : j <= i) /\ owner[c] = a
        <5>1. \A k \in Moved(c)' : i < k => n + 1 <= k
          <6> SUFFICES ASSUME NEW k \in Moved(c), i < k PROVE FALSE
            BY <1>0, <3>2
          <6>1. k <= i /\ k \in 1..n  BY <2>2, <4>2
          <6> QED  BY <1>0, <6>1
        <5>2. n + 1 \in Moved(c)' /\ merges'[n + 1].loser = a  BY <1>2, <1>3, <3>1, <3>2, <4>2
        <5> QED  BY <4>1, <5>1, <5>2 DEF Link
      <4>3. CASE \E j \in Moved(c) : i < j /\ merges[j].loser = a /\ \A k \in Moved(c) : i < k => j <= k
        <5>1. PICK j \in Moved(c) : i < j /\ merges[j].loser = a /\ \A k \in Moved(c) : i < k => j <= k
          BY <4>3
        <5>2. j \in Moved(c)' /\ merges'[j].loser = a /\ j <= n + 1  BY <1>4, <2>2, <3>2, <5>1
        <5>3. \A k \in Moved(c)' : i < k => j <= k  BY <3>2, <5>1, <5>2
        <5> QED  BY <5>1, <5>2, <5>3 DEF Link
      <4> QED  BY <3>3, <4>2, <4>3 DEF Link
    <3>4. Link(c, 0, given[c])'  BY <1>0, <1>1, <2>1, <3>3 DEF Chain
    <3>5. ASSUME NEW i \in Moved(c)
          PROVE  Link(c, i, merges[i].winner)' /\ IsLast(i)' /\ merges'[i].loser \notin customers'
      <4>1. i \in 0..n /\ Link(c, i, merges[i].winner) /\ merges[i].loser \notin customers
        BY <1>0, <2>1, <2>2 DEF Chain
      <4> QED  BY <1>1, <2>2, <3>3, <4>1
    <3>6. Link(c, n + 1, merges[n + 1].winner)' /\ IsLast(n + 1)' /\ merges'[n + 1].loser \notin customers'
      <4>1. \A j \in Moved(c)' : j <= n + 1  BY <1>0, <1>4, <2>2, <3>2
      <4>2. Link(c, n + 1, w)'  BY <3>1, <4>1 DEF Link
      <4> QED  BY <1>1, <1>2, <1>3, <1>6, <4>2
    <3> QED  BY <3>2, <3>4, <3>5, <3>6 DEF Chain
  <2>5. CASE c \notin C
    <3>1. owner[c] # l /\ owner'[c] = owner[c]  BY <1>0, <1>1, <2>5 DEF OwnedBy
    <3>2. Moved(c)' = Moved(c)  BY <2>3, <2>5
    <3>3. \A i, a : Link(c, i, a) => Link(c, i, a)'  BY <2>2, <3>1, <3>2 DEF Link
    <3> QED  BY <1>1, <2>1, <2>2, <3>2, <3>3 DEF Chain
  <2> QED  BY <2>4, <2>5
<1> QED  BY <1>7, <1>8, <1>9, <1>10 DEF MergeInv, Chained

\* A reversal gives the list back.  The record stands: then of a case that is not
\* entangled it is the last merge.  Or it was undone before: then all its cases are
\* entangled, as are those of the later merges of its loser.
LEMMA RestoreMerge ==
  ASSUME Typed, LockInv, MergeInv, NEW s \in Sessions, CanCommit(s),
         tx[s].kind = "reverse", RestoreCustomer(tx[s].record, OpenLists(s)),
         tx'[s] = None, \A u \in Sessions \ {s} : tx'[u] = tx[u]
  PROVE  MergeInv'
<1>i. PICK i, m, l, n : i = tx[s].record /\ m = merges[i] /\ l = m.loser /\ n = Len(merges)
  OBVIOUS
<1>0. /\ tx[s] # None /\ l \notin customers /\ i \in 1..n /\ n \in Nat
      /\ merges \in Seq(Record) /\ m \in Record /\ customers \subseteq Customers
      /\ tx[s].cases = m.cases
  <2>1. tx[s] # None /\ l \in held[s]  BY <1>i, CommitHolds
  <2>2. i \in 1..n /\ tx[s].cases = m.cases  BY <1>i, <2>1 DEF Typed, Recorded
  <2>3. l \notin customers  BY <1>i, <2>1 DEF CanCommit, Refused
  <2>4. merges \in Seq(Record) /\ customers \subseteq Customers  BY DEF Typed, StoreTyped
  <2> QED  BY <1>i, <2>1, <2>2, <2>3, <2>4, LenProperties
<1>1. l \in Customers /\ m.cases \subseteq Cases  BY <1>0, <1>i DEF Record
<1> DEFINE later == {j \in (i + 1)..Len(merges) : ~merges[j].reversed}
           again == {j \in later : merges[j].loser = m.loser}
<1>2. /\ customers' = customers \cup {l} /\ given' = given
      /\ owner' = [c \in Cases |-> IF c \in m.cases THEN l ELSE owner[c]]
      /\ merges' = [merges EXCEPT ![i].reversed = TRUE]
      /\ entangled' = entangled \cup (m.cases \cap UNION (OpenLists(s) \cup Standing(later)))
                                \cup UNION Standing(again)
  BY <1>i DEF RestoreCustomer
<1>3. /\ Len(merges') = n /\ merges'[i].reversed
      /\ \A j \in 1..n : /\ merges'[j].loser = merges[j].loser /\ merges'[j].winner = merges[j].winner
                         /\ merges'[j].cases = merges[j].cases
                         /\ j # i => merges'[j].reversed = merges[j].reversed
  <2> DEFINE q == [m EXCEPT !.reversed = TRUE]
  <2>1. /\ q \in Record /\ q.reversed = TRUE /\ q.loser = m.loser
        /\ q.winner = m.winner /\ q.cases = m.cases
    BY <1>0 DEF Record
  <2>2. merges' = [merges EXCEPT ![i] = q]  BY <1>i, <1>2
  <2> HIDE DEF q
  <2>3. Len(merges') = n /\ \A j \in 1..n : merges'[j] = IF j = i THEN q ELSE merges[j]
    BY <1>i, <1>0, <2>1, <2>2, ExceptSeq
  <2> QED  BY <1>i, <1>0, <2>1, <2>3
<1>4. \A j \in 1..n : IsLast(j)' <=> IsLast(j)  BY <1>i, <1>3 DEF IsLast
\* What of the case's later merges is known to be entangled.
<1>5. \A j \in 1..n : ~merges[j].reversed /\ i < j =>
        /\ m.cases \cap merges[j].cases \subseteq entangled'
        /\ merges[j].loser = l => merges[j].cases \subseteq entangled'
  <2> SUFFICES ASSUME NEW j \in 1..n, ~merges[j].reversed, i < j
               PROVE  /\ m.cases \cap merges[j].cases \subseteq entangled'
                      /\ merges[j].loser = l => merges[j].cases \subseteq entangled'
    OBVIOUS
  <2>1. j \in later  BY <1>i, <1>0
  <2>2. merges[j].cases \in Standing(later)  BY <2>1 DEF Standing
  <2>3. merges[j].loser = l => merges[j].cases \in Standing(again)  BY <1>i, <2>1 DEF Standing
  <2> HIDE DEF later, again
  <2> QED  BY <1>2, <2>2, <2>3
<1> HIDE DEF later, again
<1>6. Gone'
  <2> SUFFICES ASSUME NEW b \in Customers, b \notin customers'
               PROVE  \E j \in 1..Len(merges') : merges'[j].loser = b /\ IsLast(j)' /\ ~merges'[j].reversed
    BY DEF Gone
  <2>1. PICK j \in 1..n : merges[j].loser = b /\ IsLast(j) /\ ~merges[j].reversed
    BY <1>i, <1>2 DEF MergeInv, Gone
  <2>2. j # i  BY <1>i, <1>2, <2>1
  <2> QED  BY <1>3, <1>4, <2>1, <2>2
<1>7. Onward'
  <2> SUFFICES ASSUME NEW j \in 1..Len(merges'), IsLast(j)', merges'[j].loser \notin customers'
               PROVE  \/ merges'[j].winner \in customers'
                      \/ \E k \in (j + 1)..Len(merges') : merges'[k].loser = merges'[j].winner
    BY DEF Onward
  <2>1. j \in 1..n /\ IsLast(j) /\ merges[j].loser \notin customers  BY <1>2, <1>3, <1>4
  <2>2. CASE merges[j].winner \in customers  BY <1>2, <1>3, <2>1, <2>2
  <2>3. CASE \E k \in (j + 1)..n : merges[k].loser = merges[j].winner
    <3>1. PICK k \in (j + 1)..n : merges[k].loser = merges[j].winner  BY <2>3
    <3>2. k \in 1..n  BY <1>0, <2>1
    <3> QED  BY <1>3, <2>1, <3>1, <3>2
  <2> QED  BY <1>i, <2>1, <2>2, <2>3 DEF MergeInv, Onward
<1>8. Again'
  <2> SUFFICES ASSUME NEW u \in Sessions, tx'[u] # None, tx'[u].kind = "reverse", merges'[tx'[u].record].reversed
               PROVE  tx'[u].cases \subseteq entangled'
    BY DEF Again
  <2>1. tx'[u] = tx[u] /\ u # s  OBVIOUS
  <2>2. tx[u].record \in 1..n /\ tx[u].cases = merges[tx[u].record].cases
    BY <1>i, <2>1 DEF Typed, Recorded
  <2>3. CASE tx[u].record = i
    <3>1. tx[u].cases = m.cases  BY <1>i, <2>2, <2>3
    <3>2. tx[u].cases \in OpenLists(s)  BY <2>1 DEF OpenLists
    <3> QED  BY <1>2, <2>1, <3>1, <3>2
  <2>4. CASE tx[u].record # i
    <3>1. merges[tx[u].record].reversed  BY <1>3, <2>1, <2>2, <2>4
    <3> QED  BY <1>2, <2>1, <3>1 DEF MergeInv, Again
  <2> QED  BY <2>3, <2>4
<1>9. ASSUME NEW c \in Cases, c \notin entangled' PROVE Chain(c)'
  <2>1. Chain(c) /\ c \notin entangled  BY <1>2, <1>9 DEF MergeInv, Chained
  <2>2. \A k \in Moved(c) : /\ k \in 1..n /\ ~merges[k].reversed /\ c \in merges[k].cases
                            /\ IsLast(k) /\ merges[k].loser \notin customers
    BY <1>i, <2>1 DEF Chain, Moved
  <2>3. Moved(c)' = Moved(c) \ {i}  BY <1>i, <1>3 DEF Moved
  \* No other merge that moved the case was one of the customer that is back.
  <2>4. \A k \in Moved(c) \ {i} : merges[k].loser # l
    <3> SUFFICES ASSUME NEW k \in Moved(c), k # i, merges[k].loser = l PROVE FALSE  OBVIOUS
    <3>1. i <= k  BY <1>i, <1>0, <2>2 DEF IsLast
    <3>2. i < k  BY <1>0, <2>2, <3>1
    <3> QED  BY <1>5, <1>9, <2>2, <3>2
  <2>5. \A k \in Moved(c) \ {i} : IsLast(k)' /\ merges'[k].loser \notin customers'
    BY <1>2, <1>3, <1>4, <2>2, <2>4
  <2>6. CASE c \in m.cases
    <3>1. ~m.reversed
      <4> SUFFICES ASSUME m.reversed PROVE FALSE  OBVIOUS
      <4>1. tx[s].cases \subseteq entangled  BY <1>i, <1>0 DEF MergeInv, Again
      <4> QED  BY <1>0, <2>1, <2>6, <4>1
    <3>2. i \in Moved(c)  BY <1>i, <1>0, <2>6, <3>1 DEF Moved
    <3>3. \A k \in Moved(c) : k <= i
      <4> SUFFICES ASSUME NEW k \in Moved(c), i < k PROVE FALSE  BY <1>0, <2>2
      <4> QED  BY <1>5, <1>9, <2>2, <2>6
    <3>4. owner'[c] = l  BY <1>2, <2>6
    <3>5. ASSUME NEW k \in 0..n, k < i, NEW a, Link(c, k, a) PROVE Link(c, k, a)'
      <4>1. PICK j \in Moved(c) : k < j /\ merges[j].loser = a /\ \A h \in Moved(c) : k < h => j <= h
        <5>1. ~(i <= k)  BY <1>0, <3>5
        <5> QED  BY <3>2, <3>5, <5>1 DEF Link
      <4>2. CASE j = i
        <5>1. \A h \in Moved(c)' : h <= k
          <6> SUFFICES ASSUME NEW h \in Moved(c), h # i, k < h PROVE FALSE  BY <1>0, <2>2, <2>3
          <6>1. i <= h /\ h <= i  BY <3>3, <4>1, <4>2
          <6> QED  BY <1>0, <2>2, <6>1
        <5>2. owner'[c] = a  BY <1>i, <3>4, <4>1, <4>2
        <5> QED  BY <5>1, <5>2 DEF Link
      <4>3. CASE j # i
        <5>1. j \in Moved(c)' /\ merges'[j].loser = a  BY <1>3, <2>2, <2>3, <4>1, <4>3
        <5>2. \A h \in Moved(c)' : k < h => j <= h  BY <2>3, <4>1
        <5> QED  BY <4>1, <5>1, <5>2 DEF Link
      <4> QED  BY <4>2, <4>3
    <3>6. Link(c, 0, given[c])'
      <4>1. 0 < i /\ 0 \in 0..n  BY <1>0
      <4> QED  BY <1>2, <2>1, <3>5, <4>1 DEF Chain
    <3>7. ASSUME NEW k \in Moved(c), k # i PROVE Link(c, k, merges[k].winner)'
      <4>1. k \in 0..n /\ k < i  BY <1>0, <2>2, <3>3, <3>7
      <4>2. Link(c, k, merges[k].winner)  BY <2>1 DEF Chain
      <4>3. merges'[k].winner = merges[k].winner  BY <1>3, <2>2
      <4> QED  BY <3>5, <4>1, <4>2, <4>3
    <3> QED  BY <2>3, <2>5, <3>6, <3>7 DEF Chain
  <2>7. CASE c \notin m.cases
    <3>1. owner'[c] = owner[c]  BY <1>2, <2>7
    <3>2. i \notin Moved(c)  BY <1>i, <2>2, <2>7
    <3>3. Moved(c)' = Moved(c)  BY <2>3, <3>2
    <3>4. \A k, a : Link(c, k, a) => Link(c, k, a)'  BY <1>3, <2>2, <3>1, <3>3 DEF Link
    <3>5. Link(c, 0, given[c])'  BY <1>2, <2>1, <3>4 DEF Chain
    <3>6. \A k \in Moved(c) : Link(c, k, merges[k].winner)'
      <4> SUFFICES ASSUME NEW k \in Moved(c) PROVE Link(c, k, merges[k].winner)'  OBVIOUS
      <4>1. Link(c, k, merges[k].winner)  BY <2>1 DEF Chain
      <4>2. merges'[k].winner = merges[k].winner  BY <1>3, <2>2
      <4> QED  BY <3>4, <4>1, <4>2
    <3> QED  BY <2>5, <3>2, <3>3, <3>5, <3>6 DEF Chain
  <2> QED  BY <2>6, <2>7
<1> QED  BY <1>6, <1>7, <1>8, <1>9 DEF MergeInv, Chained

\* A transaction ends.
LEMMA EndsMerge ==
  ASSUME Typed, ThreadInv, LockInv, OwnerInv, MergeInv, NEW s \in Sessions, Ends(s)
  PROVE  MergeInv'
<1>0. /\ CanCommit(s) /\ Effects(s) /\ tx[s] \in Operations /\ tx[s] # None
      /\ tx'[s] = None /\ \A u \in Sessions \ {s} : tx'[u] = tx[u]
      /\ merges \in Seq(Record)
      /\ owner \in [Cases -> Customers \cup {None}] /\ given \in [Cases -> Customers \cup {None}]
  BY DEF Ends, CanCommit, Close, Typed, SessionsTyped, StoreTyped
<1>1. ASSUME NEW c \in Cases, NEW a, NEW lists, GiveCase(c, a, lists) PROVE MergeInv'
  <2>1. Gone' /\ Onward' /\ Chained' /\ UNCHANGED merges /\ entangled \subseteq entangled'
    BY <1>0, <1>1, GiveMerge
  <2>2. Again'  BY <1>0, <2>1, OthersAgain DEF MergeInv
  <2> QED  BY <2>1, <2>2 DEF MergeInv
<1>2. CASE UNCHANGED crm
  <2>1. \A u \in Sessions : tx'[u] # None => tx'[u] = tx[u] /\ tx[u] # None  BY <1>0
  <2> QED  BY <1>2, <2>1, MergeStays
<1>3. CASE CommitStart(s)
  <2>1. tx[s].conv \in Cases /\ GiveCase(tx[s].conv, tx[s].req.customer, {})
    BY <1>0, <1>3, Fields, RowsAre DEF CommitStart
  <2> QED  BY <1>1, <2>1
<1>4. CASE \/ tx[s].kind = "setCustomer" /\ GiveCase(tx[s].case, tx[s].to, OpenLists(s))
           \/ tx[s].kind = "clearCustomer" /\ GiveCase(tx[s].case, None, OpenLists(s))
  <2>1. tx[s].case \in Cases  BY <1>0, <1>4, Fields, RowsAre
  <2> QED  BY <1>1, <1>4, <2>1
<1>5. CASE tx[s].kind = "mergeCustomers" /\ AbsorbCustomer(tx[s].winner, tx[s].loser, tx[s].cases)
  BY <1>0, <1>5, AbsorbMerge
<1>6. CASE tx[s].kind = "reverse" /\ RestoreCustomer(tx[s].record, OpenLists(s))
  BY <1>0, <1>6, RestoreMerge
<1> QED  BY <1>0, <1>2, <1>3, <1>4, <1>5, <1>6 DEF Effects, CommitCustomer

LEMMA MergeStep ==
  ASSUME Typed, ClaimInv, ThreadInv, LockInv, OwnerInv, MergeInv, [Next]_vars
  PROVE  MergeInv'
<1>0. tx \in [Sessions -> Operations \cup {None}]  BY DEF Typed, SessionsTyped
<1>1. CASE Quiet
  BY <1>1, MergeStays DEF Quiet, locks, store
<1>2. ASSUME NEW s \in Sessions, Opens(s) PROVE MergeInv'
  <2>1. UNCHANGED crm  BY <1>2 DEF Opens, store
  <2>2. /\ \A u \in Sessions \ {s} : tx'[u] = tx[u]
        /\ tx'[s].kind = "reverse" => ~merges[tx'[s].record].reversed
    BY <1>2, OpensPath
  <2> QED  BY <2>1, <2>2, MergeStays
<1>3. ASSUME NEW s \in Sessions, Lock(s) PROVE MergeInv'
  BY <1>3, MergeStays DEF Lock, store
<1>4. ASSUME NEW s \in Sessions, Undone(s) PROVE MergeInv'
  <2>1. \A u \in Sessions : tx'[u] # None => tx'[u] = tx[u]  BY <1>0, <1>4 DEF Undone, Close
  <2> QED  BY <1>4, <2>1, MergeStays DEF Undone, store
<1>5. ASSUME NEW s \in Sessions, FindCases(s) PROVE MergeInv'
  <2>1. /\ tx'[s].kind = "mergeCustomers" /\ \A u \in Sessions \ {s} : tx'[u] = tx[u]
    BY <1>0, <1>5 DEF FindCases
  <2> QED  BY <1>5, <2>1, MergeStays DEF FindCases, store
<1> QED  BY <1>1, <1>2, <1>3, <1>4, <1>5, EndsMerge, StepsOfTransactions

LEMMA InitMerge == Init => MergeInv
<1> SUFFICES ASSUME Init PROVE MergeInv  OBVIOUS
<1>0. /\ customers = Customers /\ Len(merges) = 0 /\ given = owner
      /\ tx = [s \in Sessions |-> None]
  BY DEF Init, ConvInit, CustomerInit
<1>1. 1..Len(merges) = {}  BY <1>0
<1>2. Gone /\ Onward /\ Again  BY <1>0, <1>1 DEF Gone, Onward, Again
<1>3. \A c \in Cases : Moved(c) = {}  BY <1>1 DEF Moved
<1>4. Chained  BY <1>0, <1>3 DEF Chained, Chain, Link
<1> QED  BY <1>2, <1>4 DEF MergeInv

-----------------------------------------------------------------------------
(* What the conversations promise *)

ConvInv == Typed /\ ThreadInv /\ LockInv /\ OwnerInv /\ MergeInv /\ ServeInv /\ OnceInv

LEMMA InitConv == Init => ConvInv
BY InitTyped, InitThread, InitLock, InitOwner, InitMerge, InitServe, InitOnce DEF ConvInv

LEMMA ConvStep == ConvInv /\ ClaimInv /\ [Next]_vars => ConvInv'
BY StepTyped, ThreadStepInv, LockStep, OwnerStep, MergeStep, ServeStep, OnceStep DEF ConvInv

LEMMA TypesFollow == ConvInv /\ ClaimInv => TypeOK
<1> SUFFICES ASSUME ConvInv, ClaimInv PROVE TypeOK  OBVIOUS
<1>0. SessionsTyped /\ StoreTyped /\ OwnersThere /\ ServeInv /\ LedgerTypeOK
  BY DEF ConvInv, ClaimInv, Typed, OwnerInv
<1>1. ASSUME NEW c \in Conversations, NEW i \in DOMAIN thread[c] PROVE thread[c][i] \in Requests
  <2>1. thread[c] \in Seq(Requests)  BY <1>0 DEF StoreTyped
  <2> QED  BY <2>1, ElementOfSeq, LenProperties
<1>2. \A s \in Sessions : tx[s] \in Operations \cup {None} /\ held[s] \subseteq Rows /\ phase[s] \in Phases
  BY <1>0 DEF SessionsTyped, LedgerTypeOK
<1>3. \A s \in Sessions : /\ phase[s] = "idle" <=> serving[s] = None
                          /\ phase[s] = "handling" <=> serving[s] # None /\ tx[s] # None
  BY <1>0 DEF ServeInv, ServesOf
<1> QED  BY <1>0, <1>1, <1>2, <1>3 DEF TypeOK, StoreTyped, States, OwnersThere

LEMMA OnceFollows == ConvInv /\ ClaimInv => ExactlyOnce
<1> SUFFICES ASSUME ConvInv, ClaimInv PROVE ExactlyOnce  OBVIOUS
<1>0. Typed /\ AnswersKept /\ FirstOnly  BY DEF ConvInv, OnceInv
<1>1. \A k \in Sent : Copies(k) >= 1  BY <1>0, CopiesCount DEF Sent
<1>2. \A k \in Keys : Copies(k) > 1 => k \in Doubled  BY <1>0, CopiesCount DEF Doubled
<1>3. \A k \in Doubled : Excused(k)  BY <1>0 DEF FirstOnly
<1> QED  BY <1>0, <1>1, <1>2, <1>3 DEF ExactlyOnce, AnswersKept, Excused

\* The inductive invariant of the conversations and of the requests that change
\* them: row locks are exclusive and taken in the code's order (FOR UPDATE in
\* Merge, BulkUpdate, SetCustomer and the customers' merge), what transactions
\* have read or are about stays true until their commit, and a key's message and
\* its ledger row agree.
THEOREM ConversationInvariant == Spec => [](ConvInv /\ ClaimInv)
<1>1. Init => ConvInv /\ ClaimInv  BY InitConv, ClaimInit
<1>2. ConvInv /\ ClaimInv /\ [Next]_vars => ConvInv' /\ ClaimInv'  BY ConvStep, ClaimStep
<1> QED  BY <1>1, <1>2, PTL DEF Spec

\* A session serves a request exactly while its attempt is under way, and the
\* customer of a case is there: Merge deletes the loser only when it has moved
\* every case the loser has, those given to it while it waited for locks too.
THEOREM ConversationTypes == Spec => []TypeOK
BY ConversationInvariant, TypesFollow, PTL

\* The last state event of a conversation tells the state it is in (appends are
\* part of the transaction that makes the change), but for the two writes that
\* are not like that: touchConversation's and WakeSnoozed's.
THEOREM EventsTell == Spec => []EventsTellState
<1>1. ConvInv => EventsTellState  BY DEF ConvInv, ThreadInv
<1> QED  BY <1>1, ConversationInvariant, PTL

\* A message's sequence never changes in its conversation: PostMessage numbers
\* from MAX(sequence), Merge numbers the moved messages after the target's last.
THEOREM NumbersAreKept == Spec => NumbersStay
<1>1. ConvInv /\ ClaimInv /\ [Next]_vars => [NumbersKept]_vars
  BY ThreadStepInv DEF ConvInv
<1>2. [NumbersKept]_vars =>
        [\A c \in Conversations :
           \/ \A i \in DOMAIN thread[c] : i \in DOMAIN thread'[c] /\ thread'[c][i] = thread[c][i]
           \/ thread'[c] = <<>> /\ c \in emptied']_vars
  BY DEF NumbersKept
<1> QED  BY <1>1, <1>2, ConversationInvariant, PTL DEF Spec, NumbersStay

\* Locking two rows in id order, and rows before the event counter, keeps
\* transactions from waiting for each other in a circle, whatever their number:
\* one that exists has a bulk update or a wake in it, the customers' merge or its
\* reversal together with a transaction of another kind, or two customers' merges
\* that look for the same case.
THEOREM OnlyKnownDeadlocks == Spec => []DeadlocksAreKnown
<1>1. ConvInv => DeadlocksAreKnown  BY DeadlocksKnown DEF ConvInv
<1> QED  BY <1>1, ConversationInvariant, PTL

\* What the middleware is for: an answered request has its message, and one
\* request has two only after an attempt that ran without a claim or took effect
\* and answered an error; an agent's post only if a merge moved the first away.
THEOREM RequestsTakeEffectOnce == Spec => []ExactlyOnce
BY ConversationInvariant, OnceFollows, PTL

\* A case is with whom its customer was merged into, and comes back when that is
\* undone (Merge, ReverseMerge, SetCustomer), for any customers, cases, sessions
\* and interleaving of their transactions, but for the cases that changed hands
\* under a list.
THEOREM CasesFollowCustomers == Spec => []CaseFollowsCustomer
<1>1. ConvInv => CaseFollowsCustomer  BY ChainFollows DEF ConvInv, OwnerInv
<1> QED  BY <1>1, ConversationInvariant, PTL
=============================================================================
