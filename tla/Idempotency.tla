------------------------------ MODULE Idempotency ------------------------------
(***************************************************************************)
(* The Idempotency middleware (internal/api/idempotency.go) around the     *)
(* conversation service: a row of idempotency_keys is claimed before the   *)
(* handler runs and completed, or released, after it.  The client sends a  *)
(* request again, with the same key, until it has an answer it can use:    *)
(* after an error, after silence, and also while its first attempt runs.   *)
(*                                                                         *)
(* The claim (INSERT ... ON CONFLICT DO NOTHING) and the SELECT that reads *)
(* the row in its way are two statements, the handler's transaction a      *)
(* third, and the completing UPDATE a fourth: a process can die between    *)
(* any two, and any of them can fail on its own.                           *)
(***************************************************************************)
EXTENDS Conversation

\* A client makes a key "once when the user commits to an action": requests with
\* one key have one author and one conversation, or start one.
ASSUME KeyAssumption ==
  \A r, q \in Requests : r.key = q.key =>
    /\ r.kind = q.kind /\ r.author = q.author
    /\ r.kind = "post" => r.conv = q.conv

\* A row of the ledger is not "no row".
ASSUME RowAssumption == None \notin [req : Requests, done : BOOLEAN]

VARIABLES
  ledger,    \* the idempotency_keys row of each key: [req, done], or None
  serving,   \* the request each session works on, or None
  phase,     \* where its attempt is
  guarded,   \* it runs under a claim
  answered,  \* requests a success has been sent for
  orphans,   \* history: keys whose claim lost its owner, or whose completion failed
  slips      \* history: requests that ran unguarded, or took effect and answered an error

middleware == <<ledger, serving, phase, guarded, answered, orphans, slips>>
vars == <<convVars, middleware>>

Keys == {r.key : r \in Requests}
Phases == {"idle", "reading", "handling", "completing", "releasing"}
Busy(s) == phase[s] # "idle" \/ tx[s] # None \/ tells[s] # {}

Init ==
  /\ ConvInit
  /\ ledger = [k \in Keys |-> None]
  /\ serving = [s \in Sessions |-> None]
  /\ phase = [s \in Sessions |-> "idle"]
  /\ guarded = [s \in Sessions |-> FALSE]
  /\ answered = {} /\ orphans = {} /\ slips = {}

-------------------------------------------------------------------------------
\* The handler opens its transaction.
Handle(s, r, underClaim) ==
  /\ serving' = [serving EXCEPT ![s] = r]
  /\ phase' = [phase EXCEPT ![s] = "handling"]
  /\ guarded' = [guarded EXCEPT ![s] = underClaim]
  /\ slips' = IF underClaim THEN slips ELSE slips \cup {r}
  /\ IF r.kind = "start" THEN BeginStart(s, r) ELSE BeginPost(s, r)

\* The attempt is over.
Leave(s) ==
  /\ serving' = [serving EXCEPT ![s] = None]
  /\ phase' = [phase EXCEPT ![s] = "idle"]
  /\ guarded' = [guarded EXCEPT ![s] = FALSE]

AnswerOk(r) == answered' = answered \cup {r}

\* The client sends r, or sends it again: nothing has come back yet, or what
\* did was an error, or it got lost.
Send(s, r) ==
  /\ ~Busy(s)
  /\ r.kind \in workload.kinds
  /\ ops < workload.ops /\ ops' = ops + 1

Claim(s, r) ==
  /\ Send(s, r)
  /\ ledger[r.key] = None
  /\ ledger' = [ledger EXCEPT ![r.key] = [req |-> r, done |-> FALSE]]
  /\ Handle(s, r, TRUE)
  /\ UNCHANGED <<faults, answered, orphans>>

Conflict(s, r) ==
  /\ Send(s, r)
  /\ ledger[r.key] # None
  /\ serving' = [serving EXCEPT ![s] = r]
  /\ phase' = [phase EXCEPT ![s] = "reading"]
  /\ UNCHANGED <<store, locks, tells, workload, faults, ledger, guarded, answered, orphans, slips>>

\* The claim fails, and the request is served without one.
ClaimFails(s, r) ==
  /\ Send(s, r)
  /\ faults < MaxFaults /\ faults' = faults + 1
  /\ Handle(s, r, FALSE)
  /\ UNCHANGED <<ledger, answered, orphans>>

\* The row that was in the way: gone, of another body, in flight or done.  When
\* it is gone the SELECT finds no row, which counts as a failed claim.
ReadGone(s) ==
  /\ phase[s] = "reading" /\ ledger[serving[s].key] = None
  /\ Handle(s, serving[s], FALSE)
  /\ UNCHANGED <<ops, faults, ledger, answered, orphans>>

ReadRefused(s) ==
  LET row == ledger[serving[s].key] IN
  /\ phase[s] = "reading" /\ row # None
  /\ row.req # serving[s] \/ ~row.done
  /\ Leave(s)
  /\ UNCHANGED <<convVars, ledger, answered, orphans, slips>>

ReadDone(s) ==
  LET row == ledger[serving[s].key] IN
  /\ phase[s] = "reading" /\ row # None
  /\ row.req = serving[s] /\ row.done
  /\ AnswerOk(serving[s])
  /\ Leave(s)
  /\ UNCHANGED <<convVars, ledger, orphans, slips>>

\* The handler has written its success or its error; an unguarded attempt is
\* over with that.
ReturnOk(s) ==
  IF guarded[s]
    THEN /\ phase' = [phase EXCEPT ![s] = "completing"]
         /\ UNCHANGED <<serving, guarded, answered>>
    ELSE AnswerOk(serving[s]) /\ Leave(s)

\* Mutant: an error leaves the claim as it is.
ReturnError_KeepsClaim(s) == Leave(s) /\ UNCHANGED answered

ReturnError(s) ==
  /\ IF guarded[s]
       THEN phase' = [phase EXCEPT ![s] = "releasing"] /\ UNCHANGED <<serving, guarded>>
       ELSE Leave(s)
  /\ UNCHANGED answered

HandlerLocks(s) == (Lock(s) \/ FindCases(s)) /\ UNCHANGED middleware

HandlerCommits(s) ==
  /\ Commit(s)
  /\ IF serving[s] = None THEN UNCHANGED <<serving, phase, guarded, answered>> ELSE ReturnOk(s)
  /\ UNCHANGED <<ledger, orphans, slips>>

HandlerCommitsUnheard(s) ==
  /\ CommitUnheard(s)
  /\ IF serving[s] = None THEN UNCHANGED <<serving, phase, guarded, answered, slips>>
     ELSE ReturnError(s) /\ slips' = slips \cup {serving[s]}
  /\ UNCHANGED <<ledger, orphans>>

HandlerFails(s) ==
  /\ Cancelled(s) \/ Fail(s)
  /\ IF serving[s] = None THEN UNCHANGED <<serving, phase, guarded, answered>> ELSE ReturnError(s)
  /\ UNCHANGED <<ledger, orphans, slips>>

\* completeIdempotencyKey; its failure is logged and the answer goes out.
Complete(s) ==
  LET r == serving[s] IN
  /\ phase[s] = "completing"
  /\ ledger' = IF ledger[r.key] = None THEN ledger ELSE [ledger EXCEPT ![r.key].done = TRUE]
  /\ AnswerOk(r) /\ Leave(s)
  /\ UNCHANGED <<convVars, orphans, slips>>

\* releaseIdempotencyKey deletes the row unless it has a response.
Release(s) ==
  LET k == serving[s].key IN
  /\ phase[s] = "releasing"
  /\ ledger' = IF ledger[k] # None /\ ~ledger[k].done THEN [ledger EXCEPT ![k] = None] ELSE ledger
  /\ Leave(s)
  /\ UNCHANGED <<convVars, answered, orphans, slips>>

LedgerWriteFails(s) ==
  /\ phase[s] \in {"completing", "releasing"}
  /\ faults < MaxFaults /\ faults' = faults + 1
  /\ IF phase[s] = "completing" THEN AnswerOk(serving[s]) ELSE UNCHANGED answered
  /\ orphans' = orphans \cup {serving[s].key}
  /\ Leave(s)
  /\ UNCHANGED <<store, locks, tells, workload, ops, ledger, slips>>

\* The process dies: its transaction rolls back and its claim stays.
Crash(s) ==
  /\ Busy(s)
  /\ faults < MaxFaults /\ faults' = faults + 1
  /\ RollBack(s)
  /\ orphans' = IF guarded[s] THEN orphans \cup {serving[s].key} ELSE orphans
  /\ Leave(s)
  /\ UNCHANGED <<ledger, answered, slips>>

Background(s) ==
  /\ phase[s] = "idle"
  /\ BeginOperation(s) \/ BeginTell(s)
  /\ UNCHANGED middleware

Wakes(s) == phase[s] = "idle" /\ BeginWake(s) /\ UNCHANGED middleware

Next ==
  \E s \in Sessions :
       \/ Background(s) \/ Wakes(s)
       \/ \E r \in Requests : Claim(s, r) \/ Conflict(s, r) \/ ClaimFails(s, r)
       \/ HandlerLocks(s) \/ HandlerCommits(s) \/ HandlerCommitsUnheard(s) \/ HandlerFails(s)
       \/ ReadGone(s) \/ ReadRefused(s) \/ ReadDone(s)
       \/ Complete(s) \/ Release(s) \/ LedgerWriteFails(s) \/ Crash(s)

Spec == Init /\ [][Next]_vars

-------------------------------------------------------------------------------
(* Properties                                                                *)

\* The messages that the request with key k has left.
Copies(k) ==
  LET places == UNION {{c} \X DOMAIN thread[c] : c \in Conversations}
  IN Cardinality({p \in places : thread[p[1]][p[2]].key = k})

\* Type correctness: a session serves a request exactly while its attempt is
\* under way, and handles it exactly while its transaction is open.  The customer
\* of a case is there: the merge that deletes a customer has missed none of its
\* cases, which would be left without one (ON DELETE SET NULL).
TypeOK ==
  /\ state \in [Conversations -> Targets \cup {"absent", "new", "open", "closed", "snoozed"}]
  /\ told \in [Conversations -> Targets \cup {"absent", "new", "open", "closed", "snoozed"}]
  /\ \A c \in Conversations : \A i \in DOMAIN thread[c] : thread[c][i] \in Requests
  /\ \A c \in Cases : owner[c] \in customers \/ (owner[c] = None /\ given[c] = None)
  /\ \A s \in Sessions : tx[s] \in Operations \cup {None} /\ held[s] \subseteq Rows /\ phase[s] \in Phases
  /\ \A s \in Sessions : phase[s] = "idle" <=> serving[s] = None
  /\ \A s \in Sessions : phase[s] = "handling" <=> serving[s] # None /\ tx[s] # None

\* Consumers, webhooks and browsers learn a conversation's state from its
\* events (ADR 0006: appends happen in the transaction that made the change):
\* the last one tells the state the row is in.  Two writes are not like that:
\* touchConversation opens a new conversation without an event, and WakeSnoozed
\* appends its events after its UPDATE, so one may be lost or come after a
\* later change and tell a state the conversation has left.
EventsTellState ==
  \A c \in Present :
    \/ told[c] = state[c]
    \/ told[c] = "new" /\ state[c] = "open"
    \/ c \in silent

\* A request that was answered with success, or whose row would replay one, has
\* its message, merged away or not.  It has two only if an attempt ran without a
\* claim or took effect and answered an error; an agent's post, which the client
\* id also protects, only if a merge has moved the first away as well.
ExactlyOnce ==
  /\ \A r \in answered : Copies(r.key) >= 1
  /\ \A k \in Keys : ledger[k] # None /\ ledger[k].done => Copies(k) >= 1
  /\ \A k \in Keys : Copies(k) > 1 =>
       \E r \in slips : r.key = k /\ (r.kind = "post" /\ r.author = "agent" => r.conv \in emptied)

\* A row that answers "in flight" has an attempt behind it that will settle it,
\* unless its process died or the settling write failed.  Nothing takes those
\* rows away: expires_at is written and never read, so their requests are
\* refused for good.
InFlightHasOwner ==
  \A k \in Keys : ledger[k] # None /\ ~ledger[k].done =>
    k \in orphans \/ \E s \in Sessions : guarded[s] /\ serving[s].key = k

\* Transactions lock their rows before the counter, and two rows of a kind in id
\* order ("so two merges racing on the same pair ... cannot deadlock", for
\* conversations and for customers), so they cannot wait for each other in a
\* circle.  A bulk update can be part of one: it locks the counter with the first
\* row it changes and locks rows after that.  So can a wake, whose UPDATE locks
\* its rows in no order of ids, and so can the customers' merge or its reversal,
\* which lock cases in no order and after the customers: one of them with a
\* reversal, with a conversations' merge, or with an agent who gives a ticket to
\* one of the customers; and two merges when a case that one had found changed
\* hands before the other looked.
DeadlocksAreKnown ==
  \A D \in SUBSET Sessions : Deadlocked(D) =>
    LET kinds == {tx[s].kind : s \in D}
        Merges(s) == tx[s].kind = "mergeCustomers"
    IN
    \/ kinds \cap {"bulk", "wake"} # {}
    \/ /\ kinds \cap {"mergeCustomers", "reverse"} # {}
       /\ kinds \cap {"reverse", "merge", "setCustomer"} # {}
    \/ \E s, u \in D : /\ s # u /\ Merges(s) /\ Merges(u)
                       /\ tx[s].cases \cap tx[u].cases \cap entangled # {}

\* A message keeps its sequence, which is the cursor a reader resumes from,
\* as long as it stays in its conversation: it leaves only by a merge, with all
\* the others, and the numbers of the emptied source are given out again.
NumbersStay ==
  [][\A c \in Conversations :
       \/ \A i \in DOMAIN thread[c] : i \in DOMAIN thread'[c] /\ thread'[c][i] = thread[c][i]
       \/ thread'[c] = <<>> /\ c \in emptied']_vars
===============================================================================
