------------------------------ MODULE EventLog ------------------------------
(***************************************************************************)
(* internal/events/events.go: the per-workspace, append-only event log.    *)
(*                                                                         *)
(* Append runs inside the caller's transaction.  nextSequence upserts the  *)
(* workspace's row of workspace_event_sequences, which takes that row's    *)
(* lock until the transaction ends; the event rows, the new counter value  *)
(* and the pg_notify signals become visible together at commit and vanish  *)
(* together on rollback (PostgreSQL, READ COMMITTED).  Readers page        *)
(* through the committed rows with a cursor (Since) or start at the newest *)
(* one (LatestSequence).                                                   *)
(***************************************************************************)
EXTENDS Integers, Sequences, FiniteSets

CONSTANTS
    Workspaces,     \* tenants
    Txs,            \* database transactions that may be open at once
    Readers,        \* cursor holders: realtime hubs, consumers, resuming clients
    Types,          \* event types
    NoWorkspace,    \* what a transaction that has appended nothing works on
    PageLimit,      \* rows per page of Since (maxReplayLimit)
    MaxSequence,    \* bound: sequences allocated per workspace
    MaxPerTx        \* bound: events one transaction appends

ASSUME LogAssumption ==
    /\ PageLimit \in Nat \ {0}
    /\ MaxSequence \in Nat
    /\ MaxPerTx \in Nat
    /\ NoWorkspace \notin Workspaces

VARIABLES
    counter,        \* counter[w]: committed next_sequence, 0 while w has no row
    work,           \* work[t]: the workspace whose counter row t has updated and locked
    txNext,         \* txNext[t]: next_sequence as t's own uncommitted update left it
    pending,        \* pending[t]: event rows t inserted and has not committed
    log,            \* log[w]: committed event rows of w, in commit order
    notified,       \* notified[w]: sequence in the last signal delivered for w
    cursor,         \* cursor[r][w]: how far reader r has read w
    seen            \* seen[r][w]: sequences r was handed, or that predate its attaching

readerVars == <<cursor, seen>>
vars == <<counter, work, txNext, pending, log, notified, cursor, seen>>

Record == [seq: Nat, type: Types]

Init ==
    /\ counter = [w \in Workspaces |-> 0]
    /\ work = [t \in Txs |-> NoWorkspace]
    /\ txNext = [t \in Txs |-> 0]
    /\ pending = [t \in Txs |-> <<>>]
    /\ log = [w \in Workspaces |-> <<>>]
    /\ notified = [w \in Workspaces |-> 0]
    /\ cursor = [r \in Readers |-> [w \in Workspaces |-> 0]]
    /\ seen = [r \in Readers |-> [w \in Workspaces |-> {}]]

-----------------------------------------------------------------------------
(* Writers *)

\* Mutant: the counter row is not locked until commit.
Lockable_NoLock(t, w) == TRUE

\* Nobody but t has an uncommitted update of w's counter row: the upsert of
\* any other transaction waits on that row's lock (or on its pending insert).
Lockable(t, w) == \A u \in Txs \ {t} : work[u] # w

\* nextSequence: a row that does not exist yet hands out 1 (VALUES (w, 2)), and
\* a transaction sees its own uncommitted update.
NextSequence(t, w) ==
    LET next == IF work[t] = w THEN txNext[t] ELSE counter[w]
    IN  IF next = 0 THEN 1 ELSE next

\* One Append: allocate under the row lock, insert the row, queue the notify.
AppendEvent(t, w, type) ==
    LET sequence == NextSequence(t, w)
    IN  /\ work[t] \in {NoWorkspace, w}
        /\ Lockable(t, w)
        /\ sequence <= MaxSequence
        /\ Len(pending[t]) < MaxPerTx
        /\ work' = [work EXCEPT ![t] = w]
        /\ txNext' = [txNext EXCEPT ![t] = sequence + 1]
        /\ pending' = [pending EXCEPT ![t] = Append(@, [seq |-> sequence, type |-> type])]
        /\ UNCHANGED <<counter, log, notified, readerVars>>

\* The transaction ends and its row lock is released.
EndTx(t) ==
    /\ work' = [work EXCEPT ![t] = NoWorkspace]
    /\ txNext' = [txNext EXCEPT ![t] = 0]
    /\ pending' = [pending EXCEPT ![t] = <<>>]

\* Mutant: the signal is sent when the event is inserted, not on commit.
Rollback_Notifies(t) ==
    /\ work[t] # NoWorkspace
    /\ notified' = [notified EXCEPT ![work[t]] = txNext[t] - 1]
    /\ EndTx(t)
    /\ UNCHANGED <<counter, log, readerVars>>

\* Mutant: the signal is computed from the counter as it was before the upsert.
Commit_OldCounter(t, w) ==
    /\ work[t] = w
    /\ counter' = [counter EXCEPT ![w] = txNext[t]]
    /\ log' = [log EXCEPT ![w] = @ \o pending[t]]
    /\ notified' = [notified EXCEPT ![w] = counter[w] - 1]
    /\ EndTx(t)
    /\ UNCHANGED readerVars

\* The caller's transaction commits: counter, rows and signals appear at once.
Commit(t, w) ==
    /\ work[t] = w
    /\ counter' = [counter EXCEPT ![w] = txNext[t]]
    /\ log' = [log EXCEPT ![w] = @ \o pending[t]]
    /\ notified' = [notified EXCEPT ![w] = txNext[t] - 1]
    /\ EndTx(t)
    /\ UNCHANGED readerVars

\* An error, a panic, a lost connection or a crash of the process: everything
\* the transaction did is undone, the counter included.
Rollback(t) ==
    /\ work[t] # NoWorkspace
    /\ EndTx(t)
    /\ UNCHANGED <<counter, log, notified, readerVars>>

-----------------------------------------------------------------------------
(* Readers *)

\* Sequences of the committed rows of w.
Sequences(w) == {log[w][i].seq : i \in 1..Len(log[w])}

\* The committed sequences after the given one.
Later(w, after) == {n \in Sequences(w) : n > after}

\* Mutant: the page is ordered newest first.
Since_NewestFirst(w, after) ==
    {n \in Later(w, after) : Cardinality({m \in Later(w, after) : m >= n}) <= PageLimit}

\* Since: the PageLimit smallest committed sequences after the given one.
Since(w, after) ==
    {n \in Later(w, after) : Cardinality({m \in Later(w, after) : m <= n}) <= PageLimit}

\* LatestSequence: max(sequence) of the committed rows, 0 if there are none.
LatestSequence(w) == CHOOSE n \in Sequences(w) \union {0} :
                         \A m \in Sequences(w) : m <= n

\* Mutant: the cursor moves one row past the page.
ReadPage_OffByOne(r, w) ==
    LET page == Since(w, cursor[r][w])
    IN  /\ page # {}
        /\ cursor' = [cursor EXCEPT ![r][w] = 1 + CHOOSE n \in page : \A m \in page : m <= n]
        /\ seen' = [seen EXCEPT ![r][w] = @ \union page]
        /\ UNCHANGED <<counter, work, txNext, pending, log, notified>>

\* A reader takes one page and moves its cursor to the last row of it.
ReadPage(r, w) ==
    LET page == Since(w, cursor[r][w])
    IN  /\ page # {}
        /\ cursor' = [cursor EXCEPT ![r][w] = CHOOSE n \in page : \A m \in page : m <= n]
        /\ seen' = [seen EXCEPT ![r][w] = @ \union page]
        /\ UNCHANGED <<counter, work, txNext, pending, log, notified>>

\* A new client starts at the newest row instead of replaying the history.
Attach(r, w) ==
    /\ cursor' = [cursor EXCEPT ![r][w] = LatestSequence(w)]
    /\ seen' = [seen EXCEPT ![r][w] = Sequences(w)]
    /\ UNCHANGED <<counter, work, txNext, pending, log, notified>>

-----------------------------------------------------------------------------
Next ==
    \/ \E t \in Txs, w \in Workspaces, type \in Types : AppendEvent(t, w, type)
    \/ \E t \in Txs, w \in Workspaces : Commit(t, w)
    \/ \E t \in Txs : Rollback(t)
    \/ \E r \in Readers, w \in Workspaces : ReadPage(r, w)
    \/ \E r \in Readers, w \in Workspaces : Attach(r, w)

\* PostgreSQL ends every transaction, and a reader with rows to read reads them.
Fairness ==
    /\ \A t \in Txs : WF_vars(Rollback(t) \/ \E w \in Workspaces : Commit(t, w))
    /\ \A r \in Readers, w \in Workspaces : WF_vars(ReadPage(r, w))

Spec == Init /\ [][Next]_vars
FairSpec == Spec /\ Fairness

-----------------------------------------------------------------------------
(* Properties *)

TypeOK ==
    /\ counter \in [Workspaces -> Nat]
    /\ work \in [Txs -> Workspaces \union {NoWorkspace}]
    /\ txNext \in [Txs -> Nat]
    /\ pending \in [Txs -> Seq(Record)]
    /\ log \in [Workspaces -> Seq(Record)]
    /\ notified \in [Workspaces -> Nat]
    /\ cursor \in [Readers -> [Workspaces -> Nat]]
    /\ seen \in [Readers -> [Workspaces -> SUBSET Nat]]

\* A reader's cursor never passes a row it was not given: no event commits
\* behind a cursor that a reader has already moved past (migration 0004: a
\* reader that resumes from 10 while 9 is in flight "never sees 9").
NoEventBehindCursor ==
    \A r \in Readers, w \in Workspaces : \A n \in Sequences(w) :
        n <= cursor[r][w] => n \in seen[r][w]

\* The log implements its abstract specification: per workspace one sequence
\* that only grows at its end and whose n-th event has sequence n, so sequence
\* order is commit order and rollbacks leave no gap.
CL == INSTANCE CommittedLog WITH published <- log
ImplementsCommittedLog == CL!Spec

\* A signal never announces a row that is not readable yet, and the last one
\* delivered announces the newest row (pg_notify is delivered on commit only).
SignalsMatchLog == \A w \in Workspaces : notified[w] = LatestSequence(w)

\* Every committed event is eventually handed to every reader, or the reader
\* attaches behind it, whatever other transactions do meanwhile.
EventuallyRead ==
    \A r \in Readers, w \in Workspaces : \A n \in 1..MaxSequence :
        [](n \in Sequences(w) => <>(n \in seen[r][w]))
=============================================================================
