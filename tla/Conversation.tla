----------------------------- MODULE Conversation -----------------------------
(***************************************************************************)
(* Conversations and their messages, at the level of row locks.            *)
(*                                                                         *)
(* Every operation of internal/conversation, and every one of tickets and  *)
(* customers that is here, is one PostgreSQL transaction: it locks the     *)
(* rows it is about (FOR UPDATE), writes, and appends its events, which    *)
(* locks the workspace's event counter row.  A foreign key shares the      *)
(* lock of the row it refers to, which only the customers' case shows.  A  *)
(* transaction's effects appear at its commit and its locks live until     *)
(* then.  Taking the last lock and committing are one step: between the    *)
(* two nothing can stop the transaction but a fault, which undoes it.      *)
(*                                                                         *)
(* Request handlers, the wake tick and consumers are Sessions.  An id      *)
(* orders like a natural number.  A message is the request that sent it;   *)
(* its sequence is its position in the thread.                             *)
(***************************************************************************)
EXTENDS Customer

CONSTANTS
  Conversations,  \* conversation ids, naturals: compared as Merge and BulkUpdate compare them
  Existing,       \* the conversations there are at the start
  Worked,         \* those that agents change the state of, or merge
  Tickets,        \* ticket ids
  Sessions,       \* database sessions that work at the same time
  Requests,       \* messages clients send: [kind, conv, author, form, key], and customer
  Targets,        \* the states an agent sets (a part of validStates)
  Counter,        \* the workspace's event counter row
  Team,           \* the routing team's row
  Workloads,      \* bound: the operations one behaviour mixes, and how many: [kinds, ops]
  MaxFaults       \* bound: transactions lost to a fault

ASSUME ConversationAssumption ==
  /\ Conversations \subseteq Nat /\ Existing \cup Worked \subseteq Conversations
  /\ Cases = Conversations \cup Tickets /\ Customers \subseteq Nat \ {0}
  /\ Conversations \cap (Tickets \cup Customers) = {} /\ Tickets \cap Customers = {}
  /\ Counter # Team /\ {Counter, Team} \cap (Cases \cup Customers) = {}
  /\ \A a \in Customers : -a \notin Cases \cup {Counter, Team}
  /\ DOMAIN Owners \cap Conversations \subseteq Existing
  /\ IsFiniteSet(Sessions) /\ MaxFaults \in Nat
  /\ "absent" \notin Targets

\* A message is posted to a conversation, or starts one of a customer.
ASSUME RequestAssumption ==
  \A r \in Requests :
    \/ r.kind = "post" /\ r.conv \in Conversations
    \/ r.kind = "start" /\ r.customer \in Customers

\* What a transaction may be about.
Operations ==
  [kind : {"post"}, req : {r \in Requests : r.kind = "post"}, conv : Conversations]
    \cup [kind : {"start"}, req : {r \in Requests : r.kind = "start"}, conv : Conversations]
    \cup [kind : {"state"}, conv : Conversations, to : Targets]
    \cup [kind : {"snooze", "tell"}, conv : Conversations]
    \cup [kind : {"merge"}, source : Conversations, target : Conversations]
    \cup [kind : {"bulk"}, to : Targets \cup {None}]
    \cup [kind : {"label", "wake"}]
    \cup [kind : {"setCustomer"}, case : Tickets, to : Customers]
    \cup [kind : {"clearCustomer"}, case : Tickets]
    \cup [kind : {"findCases"}, winner : Customers, loser : Customers]
    \cup [kind : {"mergeCustomers"}, winner : Customers, loser : Customers, cases : SUBSET Cases]
    \cup [kind : {"reverse"}, record : Nat \ {0}, cases : SUBSET Cases]

ASSUME NoneAssumption == None \notin Operations \cup Requests

VARIABLES
  state,    \* conversations.state of each row, or "absent"
  thread,   \* its messages in sequence order
  told,     \* the state that its latest state event tells
  tx,       \* the operation each session's open transaction performs, or None
  todo,     \* the rows it has still to lock, in the code's order
  held,     \* the locks it has
  tells,    \* woken conversations whose event the session has still to append
  silent,   \* history: woken conversations whose own event is missing or came late
  emptied,  \* history: conversations that have been merged away
  workload, ops, faults

store == <<state, thread, told, silent, emptied, crm>>
locks == <<tx, todo, held>>
convVars == <<store, locks, tells, workload, ops, faults>>

Share(a) == -a
Rows == Cases \cup Customers \cup {Share(a) : a \in Customers} \cup {Counter, Team}
Present == {c \in Conversations : state[c] # "absent"}
Snoozed == {c \in Conversations : state[c] = "snoozed"}

\* The ids in ascending order, and in every order.
Orders(ids) == {q \in [1..Cardinality(ids) -> ids] : \A i, j \in DOMAIN q : i # j => q[i] # q[j]}
Ascending(ids) == CHOOSE q \in Orders(ids) : \A i, j \in DOMAIN q : i < j => q[i] < q[j]

ConvInit ==
  /\ CustomerInit
  /\ state = [c \in Conversations |-> IF c \in Existing THEN "new" ELSE "absent"]
  /\ thread = [c \in Conversations |-> <<>>]
  /\ told = state
  /\ tx = [s \in Sessions |-> None]
  /\ todo = [s \in Sessions |-> <<>>]
  /\ held = [s \in Sessions |-> {}]
  /\ tells = [s \in Sessions |-> {}]
  /\ silent = {} /\ emptied = {}
  /\ workload \in Workloads /\ ops = 0 /\ faults = 0

-------------------------------------------------------------------------------
(* Transactions                                                              *)

\* Message m carries the client id of r: only an agent's post passes its
\* Idempotency-Key on as client_id.
SameClient(m, r) == m.author = "agent" /\ r.author = "agent" /\ m.key = r.key

\* Mutant: nobody looks for a message with the same client id.
Replays_Never(c, r) == FALSE

Replays(c, r) == \E i \in DOMAIN thread[c] : SameClient(thread[c][i], r)

\* Moving the source's messages would repeat a (conversation, client_id).
Clash(source, target) == \E i \in DOMAIN thread[source] : Replays(target, thread[source][i])

\* Transaction t has something to write, so it appends an event.  BulkUpdate
\* writes and appends row by row, an assignee to every row and a state where it
\* changes; the others do when all their rows are locked.
Dirty(s) ==
  LET t == tx[s] IN
  /\ t # None
  /\ \/ t.kind = "bulk" /\ \E c \in held[s] \cap Conversations : state[c] # t.to
     \/ /\ todo[s] = <<>>
        /\ \/ t.kind = "post" /\ ~Replays(t.conv, t.req)
           \/ t.kind = "state" /\ state[t.conv] # t.to
           \/ t.kind \in {"start", "snooze", "merge", "tell", "label", "setCustomer", "clearCustomer", "mergeCustomers"}

Wants(s) ==
  IF Dirty(s) /\ Counter \notin held[s] THEN {Counter}
  ELSE IF todo[s] # <<>> THEN {Head(todo[s])} ELSE {}

\* The locks that do not go with lock w.
InWay(w) == IF w \in Customers THEN {w, Share(w)} ELSE IF w \in {Share(a) : a \in Customers} THEN {Share(w)} ELSE {w}

\* The foreign key's share of a conversation goes with another's, and with what
\* writes the row without FOR UPDATE; s and u can then have it both.
Updates == {"tell", "wake", "mergeCustomers", "reverse"}
Together(w, s, u) ==
  /\ w \in Conversations /\ tx[s] # None /\ tx[u] # None
  /\ {tx[s].kind, tx[u].kind} \subseteq Updates /\ "tell" \in {tx[s].kind, tx[u].kind}

\* s waits for a lock that u has.
WaitsFor(s, u) == u # s /\ \E w \in Wants(s) : InWay(w) \cap held[u] # {} /\ ~Together(w, s, u)

\* The sessions of D wait for each other, and for nobody else.
Deadlocked(D) == D # {} /\ \A s \in D : \E u \in D : WaitsFor(s, u)

\* The database refuses a merge that would repeat a client id, a reference to a
\* customer that is gone and a customer that is there already; so does Merge for a
\* customer that is gone.
Refused(s) ==
  LET t == tx[s] IN
  /\ t # None
  /\ \/ t.kind = "merge" /\ todo[s] = <<>> /\ Clash(t.source, t.target)
     \/ t.kind # "reverse" /\ \E a \in Customers \ customers : {a, Share(a)} \cap held[s] # {}
     \/ t.kind = "reverse" /\ merges[t.record].loser \in held[s] \cap customers

Begin(s, t, rows) ==
  /\ tx[s] = None
  /\ tx' = [tx EXCEPT ![s] = t]
  /\ todo' = [todo EXCEPT ![s] = rows]
  /\ UNCHANGED held

Close(s) ==
  /\ tx' = [tx EXCEPT ![s] = None]
  /\ todo' = [todo EXCEPT ![s] = <<>>]
  /\ held' = [held EXCEPT ![s] = {}]

\* The next row is locked; the last lock of a transaction comes with its commit.
Lock(s) ==
  /\ tx[s] # None /\ todo[s] # <<>> /\ ~Refused(s)
  /\ ~\E u \in Sessions : WaitsFor(s, u)
  /\ held' = [held EXCEPT ![s] = @ \cup Wants(s)]
  /\ todo' = IF Wants(s) = {Counter} THEN todo ELSE [todo EXCEPT ![s] = Tail(@)]
  /\ UNCHANGED <<store, tx, tells, workload, ops, faults>>

CanCommit(s) ==
  /\ tx[s] # None /\ todo[s] = <<>> /\ ~Refused(s)
  /\ ~\E u \in Sessions : WaitsFor(s, u)

\* Every state event but a wake's also makes up for a wake that was not told,
\* unless that wake's event is still to come.
Heard(c) == IF \E u \in Sessions : c \in tells[u] THEN silent ELSE silent \ {c}

-------------------------------------------------------------------------------
(* Operations                                                                *)

\* Mutant: the rows are locked as the request names them.
MergeRows_AsGiven(source, target) == <<source, target>>

\* Merge locks the smaller id first.
MergeRows(source, target) == IF source < target THEN <<source, target>> ELSE <<target, source>>

Begins(s, kind) ==
  /\ tells[s] = {}
  /\ kind \in workload.kinds
  /\ ops < workload.ops /\ ops' = ops + 1
  /\ UNCHANGED <<store, tells, workload>>

BeginSetState(s) ==
  /\ Begins(s, "state")
  /\ \E c \in Worked \cap Present, to \in Targets : Begin(s, [kind |-> "state", conv |-> c, to |-> to], <<c>>)

BeginSnooze(s) ==
  /\ Begins(s, "snooze")
  /\ \E c \in Worked \cap Present : Begin(s, [kind |-> "snooze", conv |-> c], <<c>>)

BeginMerge(s) ==
  /\ Begins(s, "merge")
  /\ \E source, target \in Worked \cap Present :
       /\ source # target
       /\ Begin(s, [kind |-> "merge", source |-> source, target |-> target], MergeRows(source, target))

\* One state for several conversations, or (None) one assignee, which is no state.
BeginBulk(s) ==
  /\ Begins(s, "bulk")
  /\ \E to \in Targets \cup {None}, ids \in SUBSET (Worked \cap Present) :
       Cardinality(ids) > 1 /\ Begin(s, [kind |-> "bulk", to |-> to], Ascending(ids))

\* Operations that write columns nothing here depends on, with an event: the
\* assignee, team, inbox, priority and tags of a conversation,
BeginLabel(s) ==
  /\ Begins(s, "label")
  /\ \E c \in Worked \cap Present : Begin(s, [kind |-> "label"], <<c>>)

\* and the same of a ticket (its status, dates, tags and links go that way too).
BeginTicket(s) ==
  /\ Begins(s, "label")
  /\ \E t \in Tickets : Begin(s, [kind |-> "label"], <<t>>)

\* An agent gives a ticket to another customer, or to none.
BeginSetCustomer(s) ==
  /\ Begins(s, "setCustomer")
  /\ \E t \in Tickets :
       \/ \E a \in customers : Begin(s, [kind |-> "setCustomer", case |-> t, to |-> a], <<t, Share(a)>>)
       \/ Begin(s, [kind |-> "clearCustomer", case |-> t], <<t>>)

\* Mutant: only the winner is locked.
BeginMergeCustomers_Winner(s) ==
  /\ Begins(s, "mergeCustomers")
  /\ \E winner, loser \in customers :
       winner # loser /\ Begin(s, [kind |-> "findCases", winner |-> winner, loser |-> loser], <<winner>>)

BeginMergeCustomers(s) ==
  /\ Begins(s, "mergeCustomers")
  /\ \E winner, loser \in customers :
       winner # loser /\ Begin(s, [kind |-> "findCases", winner |-> winner, loser |-> loser],
                                  Ascending({winner, loser}))

\* With both customers locked, Merge reads which cases the loser has, and then
\* updates these: conversations first, and in no order among themselves.
FindCases(s) ==
  LET t == tx[s]  cases == OwnedBy(t.loser) IN
  /\ t # None /\ t.kind = "findCases" /\ todo[s] = <<>> /\ ~Refused(s)
  /\ tx' = [tx EXCEPT ![s] = [kind |-> "mergeCustomers", winner |-> t.winner, loser |-> t.loser, cases |-> cases]]
  /\ \E convs \in Orders(cases \cap Conversations), tickets \in Orders(cases \cap Tickets) :
       todo' = [todo EXCEPT ![s] = convs \o tickets]
  /\ UNCHANGED <<store, held, tells, workload, ops, faults>>

\* The record is read, and found not reversed, before the transaction.
BeginReverse(s) ==
  /\ Begins(s, "reverse")
  /\ \E i \in DOMAIN merges : LET m == merges[i] IN
       /\ ~m.reversed
       /\ \E convs \in Orders(m.cases \cap Conversations), tickets \in Orders(m.cases \cap Tickets) :
            Begin(s, [kind |-> "reverse", record |-> i, cases |-> m.cases], <<m.loser>> \o convs \o tickets)

BeginOperation(s) ==
  /\ \/ BeginSetState(s) \/ BeginSnooze(s) \/ BeginMerge(s) \/ BeginBulk(s) \/ BeginLabel(s)
     \/ BeginTicket(s) \/ BeginSetCustomer(s) \/ BeginMergeCustomers(s) \/ BeginReverse(s)
  /\ UNCHANGED faults

\* One UPDATE over the snoozed rows whose time has passed, whichever these are;
\* it locks them in the order its plan visits them, and checks each again then.
BeginWake(s) ==
  /\ tells[s] = {}
  /\ \E passed \in SUBSET Snoozed \ {{}} : \E rows \in Orders(passed) : Begin(s, [kind |-> "wake"], rows)
  /\ UNCHANGED <<store, tells, workload, ops, faults>>

\* A transaction of its own for each woken row, which its history row refers to.
BeginTell(s) ==
  /\ \E c \in tells[s] : Begin(s, [kind |-> "tell", conv |-> c], <<c>>)
  /\ UNCHANGED <<store, tells, workload, ops, faults>>

\* A conversation that is not there is not found.
BeginPost(s, r) ==
  /\ tells[s] = {} /\ r.conv \in Present
  /\ Begin(s, [kind |-> "post", req |-> r, conv |-> r.conv], <<r.conv>>)
  /\ UNCHANGED <<store, tells, workload>>

\* The new row is nobody else's until the commit: it refers to its customer, and
\* routing locks the team's row.
BeginStart(s, r) ==
  /\ tells[s] = {}
  /\ \E c \in Conversations \ Present :
       /\ \A u \in Sessions : tx[u] # None /\ tx[u].kind = "start" => tx[u].conv # c
       /\ Begin(s, [kind |-> "start", req |-> r, conv |-> c], <<Share(r.customer), Team>>)
  /\ UNCHANGED <<store, tells, workload>>

SetState(c, to) ==
  /\ state' = [state EXCEPT ![c] = to]
  /\ told' = [told EXCEPT ![c] = to]
  /\ silent' = Heard(c)

\* A customer's reply opens a new conversation, and no event says so.
CommitPost(s) ==
  LET c == tx[s].conv  r == tx[s].req IN
  /\ tx[s].kind = "post"
  /\ IF Replays(c, r) THEN UNCHANGED <<thread, state>>
     ELSE /\ thread' = [thread EXCEPT ![c] = Append(@, r)]
          /\ state' = IF r.form = "reply" /\ r.author = "customer" /\ state[c] = "new"
                        THEN [state EXCEPT ![c] = "open"] ELSE state
  /\ UNCHANGED <<told, silent, emptied, tells>>

CommitStart(s) ==
  LET c == tx[s].conv  r == tx[s].req IN
  /\ tx[s].kind = "start"
  /\ thread' = [thread EXCEPT ![c] = <<r>>]
  /\ state' = [state EXCEPT ![c] = IF r.author = "customer" THEN "open" ELSE "new"]
  /\ told' = [told EXCEPT ![c] = "new"]
  /\ GiveCase(c, r.customer, {})
  /\ UNCHANGED <<silent, emptied, tells>>

CommitState(s) ==
  /\ tx[s].kind = "state"
  /\ IF state[tx[s].conv] = tx[s].to THEN UNCHANGED <<state, told, silent>>
     ELSE SetState(tx[s].conv, tx[s].to)
  /\ UNCHANGED <<thread, emptied, tells>>

CommitSnooze(s) ==
  /\ tx[s].kind = "snooze"
  /\ SetState(tx[s].conv, "snoozed")
  /\ UNCHANGED <<thread, emptied, tells>>

\* Mutant: the moved messages are numbered from the start of the target.
MoveMessages_Prepends(source, target) ==
  thread' = [thread EXCEPT ![target] = thread[source] \o @, ![source] = <<>>]

\* The source's messages take the numbers after the target's last.
MoveMessages(source, target) ==
  thread' = [thread EXCEPT ![target] = @ \o thread[source], ![source] = <<>>]

\* Mutant: the state event of a merge names the conversation that stays.
CommitMerge_TellsTarget(s) ==
  LET source == tx[s].source IN
  /\ tx[s].kind = "merge"
  /\ ~Clash(source, tx[s].target)
  /\ MoveMessages(source, tx[s].target)
  /\ state' = [state EXCEPT ![source] = "closed"]
  /\ told' = [told EXCEPT ![tx[s].target] = "closed"]
  /\ silent' = Heard(source)
  /\ emptied' = emptied \cup {source}
  /\ UNCHANGED tells

CommitMerge(s) ==
  LET source == tx[s].source IN
  /\ tx[s].kind = "merge"
  /\ ~Clash(source, tx[s].target)
  /\ MoveMessages(source, tx[s].target)
  /\ SetState(source, "closed")
  /\ emptied' = emptied \cup {source}
  /\ UNCHANGED tells

CommitBulk(s) ==
  LET changed == {c \in held[s] \cap Conversations : tx[s].to \notin {None, state[c]}} IN
  /\ tx[s].kind = "bulk"
  /\ state' = [c \in Conversations |-> IF c \in changed THEN tx[s].to ELSE state[c]]
  /\ told' = [c \in Conversations |-> IF c \in changed THEN tx[s].to ELSE told[c]]
  /\ silent' = {c \in silent : c \in changed => c \in Heard(c)}
  /\ UNCHANGED <<thread, emptied, tells>>

CommitWake(s) == \E woken \in SUBSET (held[s] \cap Snoozed) :
  /\ tx[s].kind = "wake"
  /\ state' = [c \in Conversations |-> IF c \in woken THEN "open" ELSE state[c]]
  /\ tells' = [tells EXCEPT ![s] = woken]
  /\ silent' = silent \cup woken
  /\ UNCHANGED <<thread, told, emptied>>

\* The event says "open" whatever has become of the row since.
CommitTell(s) ==
  LET c == tx[s].conv IN
  /\ tx[s].kind = "tell"
  /\ told' = [told EXCEPT ![c] = "open"]
  /\ tells' = [tells EXCEPT ![s] = @ \ {c}]
  /\ silent' = IF state[c] = "open" /\ \A u \in Sessions \ {s} : c \notin tells[u]
                 THEN silent \ {c} ELSE silent
  /\ UNCHANGED <<state, thread, emptied>>

\* The lists of cases that other transactions have.
OpenLists(s) == {tx[u].cases : u \in {v \in Sessions \ {s} : tx[v] # None /\ tx[v].kind \in {"mergeCustomers", "reverse"}}}

CommitCustomer(s) ==
  LET t == tx[s] IN
  \/ t.kind = "setCustomer" /\ GiveCase(t.case, t.to, OpenLists(s))
  \/ t.kind = "clearCustomer" /\ GiveCase(t.case, None, OpenLists(s))
  \/ t.kind = "mergeCustomers" /\ AbsorbCustomer(t.winner, t.loser, t.cases)
  \/ t.kind = "reverse" /\ RestoreCustomer(t.record, OpenLists(s))
  \/ t.kind = "label" /\ UNCHANGED crm

Effects(s) ==
  \/ /\ \/ CommitPost(s) \/ CommitState(s) \/ CommitSnooze(s) \/ CommitMerge(s)
        \/ CommitBulk(s) \/ CommitWake(s) \/ CommitTell(s)
     /\ UNCHANGED crm
  \/ CommitStart(s)
  \/ CommitCustomer(s) /\ UNCHANGED <<state, thread, told, silent, emptied, tells>>

Commit(s) == CanCommit(s) /\ Effects(s) /\ Close(s) /\ UNCHANGED <<workload, ops, faults>>

\* The commit reached the database and its answer did not reach the session.
\* (For the wake's transactions this is a Commit and then the loss of tells.)
CommitUnheard(s) ==
  /\ tx[s] # None /\ tells[s] = {} /\ tx[s].kind # "wake"
  /\ faults < MaxFaults /\ faults' = faults + 1
  /\ CanCommit(s) /\ Effects(s) /\ Close(s) /\ UNCHANGED <<workload, ops>>

\* The transaction rolls back and its error is returned.  WakeSnoozed gives up
\* at the first error: the wakes it has not told stay untold.
RollBack(s) ==
  /\ Close(s)
  /\ tells' = [tells EXCEPT ![s] = {}]
  /\ UNCHANGED <<store, workload, ops>>

\* The database ends a deadlock by cancelling one of its transactions.  WithTx
\* tries nothing again.
Cancelled(s) ==
  /\ Refused(s) \/ \E D \in SUBSET Sessions : s \in D /\ Deadlocked(D)
  /\ RollBack(s) /\ UNCHANGED faults

Fail(s) ==
  /\ tx[s] # None
  /\ faults < MaxFaults /\ faults' = faults + 1
  /\ RollBack(s)
===============================================================================
