--------------------------- MODULE EventConsumer ---------------------------
(***************************************************************************)
(* internal/events/consumer.go: one durable consumer (webhook, automation, *)
(* notification, emailchannel or sla) run by several hubchat processes.    *)
(*                                                                         *)
(* Per workspace the database keeps a checkpoint (event_consumer_cursors); *)
(* a session advisory lock serializes the processes that drain it.  Signals*)
(* only wake a process up and may be lost; every two seconds a process     *)
(* reconciles, i.e. drains the workspaces whose counter is ahead of their  *)
(* checkpoint, least recently updated first.                               *)
(*                                                                         *)
(* Also here: internal/portability's workspace import, which writes event  *)
(* rows and checkpoints under the consumers' feet.  The event log itself   *)
(* is EventLog.tla; here a live commit adds the next row in one step.      *)
(***************************************************************************)
EXTENDS Integers, Sequences, FiniteSets, SequencesExt

CONSTANTS
    Procs,          \* hubchat processes running this consumer
    Workspaces,     \* a sequence: the workspaces in the order of their ids
    NoProc,         \* "nobody holds the advisory lock"
    NoWorkspace,    \* what an idle process drains
    PageLimit,      \* rows per page of a drain (200)
    Pages,          \* pages per drain (5)
    ReconcileLimit, \* workspaces per reconcile (100)
    Poison,         \* [workspace -> sequences whose handler never succeeds]
    Archive,        \* sequences of the events in an imported archive
    QuietImport,    \* TRUE: imports start in workspaces that have no events and are not
                    \* being drained, and nobody writes to them before they complete
    LateFailure,    \* TRUE: an import may fail after it wrote event rows
    MaxCounter,     \* bound: live events end below this sequence
    MaxFaults,      \* bound: crashes and lost sessions
    MaxImports      \* bound: imports started

WS == Range(Workspaces)

ASSUME ConsumerAssumption ==
    /\ Workspaces \in Seq(WS) /\ IsInjective(Workspaces)
    /\ PageLimit \in Nat \ {0} /\ Pages \in Nat \ {0}
    /\ ReconcileLimit \in Nat \ {0}
    /\ Poison \in [WS -> SUBSET Nat]
    /\ Archive \in SUBSET (Nat \ {0})
    /\ Archive # {} => \E last \in Archive : \A n \in Archive : n <= last
    /\ QuietImport \in BOOLEAN /\ LateFailure \in BOOLEAN
    /\ MaxCounter \in Nat /\ MaxFaults \in Nat /\ MaxImports \in Nat
    /\ NoProc \notin Procs /\ NoWorkspace \notin WS

VARIABLES
    rows,       \* rows[w]: sequences of w's committed event rows
    counter,    \* counter[w]: next_sequence - 1, 0 without a counter row
    imported,   \* imported[w]: the rows that came from an archive
    importing,  \* importing[w]: an import of w has state 'running'
    imports,    \* imports started so far
    cursor,     \* cursor[w]: last_sequence of the checkpoint
    order,      \* workspaces by updated_at of their checkpoint, oldest first
    hasRow,     \* workspaces whose checkpoint row exists
    lock,       \* lock[w]: the process whose session holds the advisory lock
    handled,    \* handled[w]: sequences whose handler returned nil at least once
    pc,         \* pc[p]: "idle", or the next step of p's drain
    ws,         \* ws[p]: the workspace p drains
    after,      \* after[p]: p's in-memory position
    page,       \* page[p]: rows of the current page still to handle
    full,       \* full[p]: the current page had PageLimit rows
    pages,      \* pages[p]: pages p may still fetch in this drain
    alive,      \* alive[p]: the session p locked with is still connected
    todo,       \* todo[p]: workspaces of p's reconcile still to drain
    signals,    \* signals[p]: workspaces p has a signal for
    faults      \* crashes and lost sessions so far

logVars == <<rows, counter, imported, importing, imports>>
ckptVars == <<cursor, order, hasRow, handled>>
drainVars == <<pc, ws, after, page, full, pages, alive>>
vars == <<rows, counter, imported, importing, imports, cursor, order, hasRow,
          lock, handled, pc, ws, after, page, full, pages, alive, todo, signals, faults>>

Init ==
    /\ rows = [w \in WS |-> {}] /\ counter = [w \in WS |-> 0]
    /\ imported = [w \in WS |-> {}] /\ importing = [w \in WS |-> FALSE] /\ imports = 0
    /\ cursor = [w \in WS |-> 0] /\ order = Workspaces /\ hasRow = {}
    /\ lock = [w \in WS |-> NoProc] /\ handled = [w \in WS |-> {}]
    /\ pc = [p \in Procs |-> "idle"] /\ ws = [p \in Procs |-> NoWorkspace]
    /\ after = [p \in Procs |-> 0] /\ page = [p \in Procs |-> {}]
    /\ full = [p \in Procs |-> FALSE] /\ pages = [p \in Procs |-> 0]
    /\ alive = [p \in Procs |-> TRUE] /\ todo = [p \in Procs |-> <<>>]
    /\ signals = [p \in Procs |-> {}] /\ faults = 0

-----------------------------------------------------------------------------
(* The event log, as consumers see it *)

\* A transaction that appended one event commits (events.Append); the signal
\* reaches the processes in S and is lost on the way to the others.  When the
\* next sequence is already taken the insert fails and nothing changes.
CommitEvent(w, S) ==
    /\ counter[w] < MaxCounter
    /\ counter[w] + 1 \notin rows[w]
    /\ QuietImport => ~importing[w]
    /\ counter' = [counter EXCEPT ![w] = @ + 1]
    /\ rows' = [rows EXCEPT ![w] = @ \union {counter[w] + 1}]
    /\ signals' = [p \in Procs |-> IF p \in S THEN signals[p] \union {w} ELSE signals[p]]
    /\ UNCHANGED <<imported, importing, imports, ckptVars, lock, drainVars, todo, faults>>

\* Since: the PageLimit smallest rows after n.
Since(w, n) ==
    LET later == {m \in rows[w] : m > n}
    IN  {m \in later : Cardinality({k \in later : k <= m}) <= PageLimit}

-----------------------------------------------------------------------------
(* Choosing a workspace to drain *)

\* Mutant: reconcile compares positions with an off-by-one.
Backlog_OffByOne(w) == counter[w] > cursor[w] + 1

\* reconcile's condition: next_sequence - 1 > coalesce(last_sequence, 0).
Backlog(w) == counter[w] > cursor[w]

\* Where w comes in ORDER BY updated_at.
Position(w) == CHOOSE i \in DOMAIN order : order[i] = w

\* reconcile: the first ReconcileLimit workspaces with a backlog.
Reconcile(p) ==
    /\ pc[p] = "idle" /\ todo[p] = <<>>
    /\ \E behind \in SetToSeqs({w \in WS : Backlog(w)}) :
          /\ behind # <<>>
          /\ \A i, j \in DOMAIN behind : i < j => Position(behind[i]) < Position(behind[j])
          /\ todo' = [todo EXCEPT ![p] =
                         SubSeq(behind, 1, IF Len(behind) < ReconcileLimit
                                           THEN Len(behind) ELSE ReconcileLimit)]
    /\ UNCHANGED <<logVars, ckptVars, lock, drainVars, signals, faults>>

\* The checkpoint row of w gets updated_at = now().
Touched(w) == Append(RemoveAt(order, Position(w)), w)

\* drainConsumer up to its loop: give up while an import runs or when another
\* session holds the lock, else lock, create the checkpoint row and read it.
Begin(p, w) ==
    IF importing[w] \/ lock[w] # NoProc
    THEN UNCHANGED <<order, hasRow, lock, drainVars>>
    ELSE /\ lock' = [lock EXCEPT ![w] = p]
         /\ hasRow' = hasRow \union {w}
         /\ order' = IF w \in hasRow THEN order ELSE Touched(w)
         /\ pc' = [pc EXCEPT ![p] = "fetch"]
         /\ ws' = [ws EXCEPT ![p] = w]
         /\ after' = [after EXCEPT ![p] = cursor[w]]
         /\ pages' = [pages EXCEPT ![p] = Pages]
         /\ UNCHANGED <<page, full, alive>>

TakeTodo(p) ==
    /\ pc[p] = "idle" /\ todo[p] # <<>>
    /\ todo' = [todo EXCEPT ![p] = Tail(@)]
    /\ Begin(p, Head(todo[p]))
    /\ UNCHANGED <<logVars, cursor, handled, signals, faults>>

TakeSignal(p, w) ==
    /\ pc[p] = "idle" /\ todo[p] = <<>> /\ w \in signals[p]
    /\ signals' = [signals EXCEPT ![p] = @ \ {w}]
    /\ Begin(p, w)
    /\ UNCHANGED <<logVars, cursor, handled, todo, faults>>

-----------------------------------------------------------------------------
(* One drain *)

\* Fetch a page; an empty one ends the drain.
Fetch(p) ==
    LET records == Since(ws[p], after[p])
    IN  /\ pc[p] = "fetch"
        /\ page' = [page EXCEPT ![p] = records]
        /\ full' = [full EXCEPT ![p] = Cardinality(records) = PageLimit]
        /\ pages' = [pages EXCEPT ![p] = @ - 1]
        /\ pc' = [pc EXCEPT ![p] = IF records = {} THEN "release" ELSE "handle"]
        /\ UNCHANGED <<logVars, ckptVars, lock, ws, after, alive, todo, signals, faults>>

\* The record a drain handles next.
Current(p) == CHOOSE n \in page[p] : \A m \in page[p] : n <= m

\* Mutant: a record that is not in the page is handled.
HandleOk_WrongRecord(p) ==
    /\ pc[p] = "handle"
    /\ Current(p) \notin Poison[ws[p]]
    /\ handled' = [handled EXCEPT ![ws[p]] = @ \union {Current(p) + 1}]
    /\ pc' = [pc EXCEPT ![p] = "checkpoint"]
    /\ UNCHANGED <<logVars, cursor, order, hasRow, lock, ws, after, page, full, pages,
                   alive, todo, signals, faults>>

\* handle(record) returns nil: its effects are durable, the checkpoint is not.
HandleOk(p) ==
    /\ pc[p] = "handle"
    /\ Current(p) \notin Poison[ws[p]]
    /\ handled' = [handled EXCEPT ![ws[p]] = @ \union {Current(p)}]
    /\ pc' = [pc EXCEPT ![p] = "checkpoint"]
    /\ UNCHANGED <<logVars, cursor, order, hasRow, lock, ws, after, page, full, pages,
                   alive, todo, signals, faults>>

\* Mutant: a failing handler is skipped over instead of ending the drain.
HandleFails_Skips(p) ==
    /\ pc[p] = "handle"
    /\ pc' = [pc EXCEPT ![p] = "checkpoint"]
    /\ UNCHANGED <<logVars, ckptVars, lock, ws, after, page, full, pages, alive,
                   todo, signals, faults>>

\* handle(record) returns an error: the drain ends, the checkpoint stays.
HandleFails(p) ==
    /\ pc[p] = "handle"
    /\ pc' = [pc EXCEPT ![p] = "release"]
    /\ UNCHANGED <<logVars, ckptVars, lock, ws, after, page, full, pages, alive,
                   todo, signals, faults>>

\* Mutant: the checkpoint is written through the pool, not the locked session.
SessionWrites_Pool(p) == TRUE

\* The UPDATE runs on the session that holds the lock and fails if it is gone.
SessionWrites(p) == alive[p]

\* Save the checkpoint and go on with the page, the next page, or the unlock.
Checkpoint(p) ==
    /\ pc[p] = "checkpoint"
    /\ IF SessionWrites(p)
       THEN LET rest == page[p] \ {Current(p)}
            IN  /\ cursor' = [cursor EXCEPT ![ws[p]] = Current(p)]
                /\ order' = Touched(ws[p])
                /\ after' = [after EXCEPT ![p] = Current(p)]
                /\ page' = [page EXCEPT ![p] = rest]
                /\ pc' = [pc EXCEPT ![p] =
                            IF rest # {} THEN "handle"
                            ELSE IF full[p] /\ pages[p] > 0 THEN "fetch" ELSE "release"]
       ELSE /\ pc' = [pc EXCEPT ![p] = "release"]
            /\ UNCHANGED <<cursor, order, after, page>>
    /\ UNCHANGED <<logVars, hasRow, handled, lock, ws, full, pages, alive, todo,
                   signals, faults>>

\* p's share of the state back to idle; w's lock freed if p's session holds it.
Reset(p) ==
    /\ lock' = [w \in WS |-> IF lock[w] = p THEN NoProc ELSE lock[w]]
    /\ pc' = [pc EXCEPT ![p] = "idle"]
    /\ ws' = [ws EXCEPT ![p] = NoWorkspace]
    /\ after' = [after EXCEPT ![p] = 0]
    /\ page' = [page EXCEPT ![p] = {}]
    /\ full' = [full EXCEPT ![p] = FALSE]
    /\ pages' = [pages EXCEPT ![p] = 0]
    /\ alive' = [alive EXCEPT ![p] = TRUE]

\* Unlock, or close the session if it is broken; it returns to the pool.
Release(p) ==
    /\ pc[p] = "release"
    /\ Reset(p)
    /\ UNCHANGED <<logVars, ckptVars, todo, signals, faults>>

-----------------------------------------------------------------------------
(* Faults *)

\* The session p locked with dies; PostgreSQL releases its advisory lock while
\* p's handler goes on with other connections of the pool.
SessionLost(p) ==
    /\ pc[p] # "idle" /\ alive[p] /\ faults < MaxFaults
    /\ faults' = faults + 1
    /\ alive' = [alive EXCEPT ![p] = FALSE]
    /\ lock' = [w \in WS |-> IF lock[w] = p THEN NoProc ELSE lock[w]]
    /\ UNCHANGED <<logVars, ckptVars, pc, ws, after, page, full, pages, todo, signals>>

\* The process crashes and starts again without signals or reconcile list.
Crash(p) ==
    /\ faults < MaxFaults
    /\ faults' = faults + 1
    /\ Reset(p)
    /\ todo' = [todo EXCEPT ![p] = <<>>]
    /\ signals' = [signals EXCEPT ![p] = {}]
    /\ UNCHANGED <<logVars, ckptVars>>

-----------------------------------------------------------------------------
(* Workspace import (internal/portability) *)

\* claimImport sets state 'running', before anything is written.  Nothing makes
\* it wait for a drain that has passed its check for imports.
ImportClaim(w) ==
    /\ imports < MaxImports /\ ~importing[w]
    /\ QuietImport => rows[w] = {} /\ \A p \in Procs : ws[p] # w
    /\ imports' = imports + 1
    /\ importing' = [importing EXCEPT ![w] = TRUE]
    /\ UNCHANGED <<rows, counter, imported, ckptVars, lock, drainVars, todo, signals, faults>>

\* Mutant: the counter row starts over instead of continuing the archive's.
ImportCounter_First(w) ==
    /\ importing[w] /\ counter[w] = 0
    /\ counter' = [counter EXCEPT ![w] = 1]
    /\ UNCHANGED <<rows, imported, importing, imports, ckptVars, lock, drainVars, todo,
                   signals, faults>>

\* ImportChunk over workspace_event_sequences: ON CONFLICT DO NOTHING keeps a
\* counter row that exists.  A workspace without events was exported without one.
ImportCounter(w) ==
    /\ importing[w] /\ counter[w] = 0 /\ Archive # {}
    /\ counter' = [counter EXCEPT ![w] = CHOOSE n \in Archive : \A m \in Archive : m <= n]
    /\ UNCHANGED <<rows, imported, importing, imports, ckptVars, lock, drainVars, todo,
                   signals, faults>>

\* ImportChunk over workspace_events, a later table: rows that exist are kept.
\* One row per step stands for a batch; a retried job repeats batches harmlessly.
ImportRow(w, n) ==
    /\ importing[w] /\ counter[w] # 0 /\ n \in Archive \ rows[w]
    /\ rows' = [rows EXCEPT ![w] = @ \union {n}]
    /\ imported' = [imported EXCEPT ![w] = @ \union {n}]
    /\ UNCHANGED <<counter, importing, imports, ckptVars, lock, drainVars, todo,
                   signals, faults>>

\* Mutant: the checkpoint is not moved when the import completes.
ImportFinish_NoBaseline(w) ==
    /\ importing[w] /\ Archive \subseteq rows[w]
    /\ importing' = [importing EXCEPT ![w] = FALSE]
    /\ UNCHANGED <<rows, counter, imported, imports, ckptVars, lock, drainVars, todo,
                   signals, faults>>

\* The last transaction of RunImport: the checkpoint moves to the counter (with
\* GREATEST, never back) and the request completes.
ImportFinish(w) ==
    /\ importing[w] /\ Archive \subseteq rows[w]
    /\ cursor' = [cursor EXCEPT ![w] = IF counter[w] > @ THEN counter[w] ELSE @]
    /\ hasRow' = hasRow \union {w}
    /\ order' = Touched(w)
    /\ importing' = [importing EXCEPT ![w] = FALSE]
    /\ UNCHANGED <<rows, counter, imported, imports, handled, lock, drainVars, todo,
                   signals, faults>>

\* The archive is unreadable or a chunk fails: failImport sets state 'failed'
\* and leaves everything else as it is.
ImportFails(w) ==
    /\ importing[w]
    /\ imported[w] # {} => LateFailure
    /\ importing' = [importing EXCEPT ![w] = FALSE]
    /\ UNCHANGED <<rows, counter, imported, imports, ckptVars, lock, drainVars, todo,
                   signals, faults>>

-----------------------------------------------------------------------------
Next ==
    \/ \E w \in WS, S \in SUBSET Procs : CommitEvent(w, S)
    \/ \E p \in Procs :
          \/ Reconcile(p) \/ TakeTodo(p)
          \/ Fetch(p) \/ HandleOk(p) \/ HandleFails(p) \/ Checkpoint(p) \/ Release(p)
          \/ SessionLost(p) \/ Crash(p)
    \/ \E p \in Procs, w \in WS : TakeSignal(p, w)
    \/ \E w \in WS :
          \/ ImportClaim(w) \/ ImportCounter(w) \/ ImportFinish(w) \/ ImportFails(w)
          \/ \E n \in Archive : ImportRow(w, n)

\* A drain that has begun goes on; a handler that is tried again and again on an
\* event that is not poison succeeds at last; the select of Consume picks at
\* random among its ready cases, so the ticker is not passed over forever (no
\* fairness is asked of signals); a running import ends (its job is retried).
Fairness ==
    /\ \A p \in Procs :
          /\ WF_vars(TakeTodo(p) \/ Fetch(p) \/ HandleOk(p) \/ HandleFails(p)
                     \/ Checkpoint(p) \/ Release(p))
          /\ SF_vars(HandleOk(p))
          /\ SF_vars(Reconcile(p))
    /\ \A w \in WS : WF_vars(ImportCounter(w) \/ ImportFinish(w) \/ \E n \in Archive : ImportRow(w, n))

Spec == Init /\ [][Next]_vars
FairSpec == Spec /\ Fairness

-----------------------------------------------------------------------------
(* Properties *)

TypeOK ==
    /\ rows \in [WS -> SUBSET Nat]
    /\ handled \in [WS -> SUBSET Nat] /\ imported \in [WS -> SUBSET Nat]
    /\ \A w \in WS : handled[w] \union imported[w] \subseteq rows[w]
    /\ counter \in [WS -> Nat] /\ cursor \in [WS -> Nat]
    /\ importing \in [WS -> BOOLEAN] /\ imports \in 0..MaxImports
    /\ order \in SetToSeqs(WS) /\ hasRow \in SUBSET WS
    /\ lock \in [WS -> Procs \union {NoProc}]
    /\ pc \in [Procs -> {"idle", "fetch", "handle", "checkpoint", "release"}]
    /\ ws \in [Procs -> WS \union {NoWorkspace}]
    /\ after \in [Procs -> Nat] /\ pages \in [Procs -> 0..Pages]
    /\ page \in [Procs -> SUBSET Nat] /\ todo \in [Procs -> Seq(WS)]
    /\ full \in [Procs -> BOOLEAN] /\ alive \in [Procs -> BOOLEAN]
    /\ signals \in [Procs -> SUBSET WS] /\ faults \in 0..MaxFaults

\* A checkpoint never covers an event that no handler completed ("Handle must
\* commit durable, replay-safe effects before returning"), and no event is handled
\* while an earlier one of its workspace is still to be, whatever crashes, lost
\* sessions, failing handlers and competing processes do.
CheckpointCoversHandled ==
    \A w \in WS : \A n \in rows[w] \ imported[w] :
        /\ n <= cursor[w] => n \in handled[w]
        /\ n \in handled[w] => \A m \in rows[w] \ imported[w] : m < n => m \in handled[w]

\* A checkpoint never moves back: a process that lost its lock cannot undo what
\* its successor has recorded.
CheckpointMonotone == [][\A w \in WS : cursor'[w] >= cursor[w]]_vars

\* Every live event of a workspace whose handlers work is eventually handled,
\* although signals, sessions and processes are lost.
EventuallyHandled ==
    \A w \in {v \in WS : Poison[v] = {}} : \A n \in 1..MaxCounter :
        n \in rows[w] \ imported[w] ~> n \in handled[w]

\* Imported events are history: no consumer handles them.
ImportedNeverHandled == \A w \in WS : handled[w] \intersect imported[w] = {}

\* A transaction that appends the next event of a workspace finds its sequence
\* free, so writes to the workspace can commit.
AppendNeverCollides == \A w \in WS : ~importing[w] => counter[w] + 1 \notin rows[w]
=============================================================================
