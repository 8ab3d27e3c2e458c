------------------------------ MODULE JobQueue ------------------------------
(***************************************************************************)
(* internal/jobs: the durable job queue in PostgreSQL and the goroutines   *)
(* that drain it (jobs.go, worker.go).                                     *)
(*                                                                         *)
(* A claim takes a due pending row and leases it; the handler runs; finish *)
(* writes the outcome in one transaction, addressing the row by id alone.  *)
(* A row whose lease has expired goes back to pending.  Time is abstract:  *)
(* a pending row becomes due, a lease expires.  A lease may also expire    *)
(* while its handler or finish is still at work, an overrun: a handler     *)
(* that ignores its deadline, or finish being slow after it.               *)
(* Which due row a claim picks (ORDER BY) is left open.                    *)
(***************************************************************************)
EXTENDS Integers, FiniteSets

CONSTANTS
    Jobs,           \* job ids; each is used by one row
    Workers,        \* worker goroutines of all processes
    Keys,           \* dedupe keys (with their queue)
    NoKey,          \* a row without a dedupe key
    NoJob,          \* what an idle worker works on
    MaxAttempts,    \* max_attempts of every row
    MaxFaults,      \* bound: crashes and failed writes of an outcome
    MaxOverruns,    \* bound: leases that expire under a live worker
    MaxRetries      \* bound: admin retries

ASSUME QueueAssumption ==
    /\ IsFiniteSet(Workers)
    /\ MaxAttempts \in Nat \ {0}
    /\ MaxFaults \in Nat /\ MaxOverruns \in Nat /\ MaxRetries \in Nat
    /\ NoKey \notin Keys /\ NoJob \notin Jobs

VARIABLES
    state,          \* state[j]: jobs.state, "absent" before the row, "pruned" after it
    key,            \* key[j]: dedupe_key
    attempt,        \* attempt[j]: jobs.attempt
    due,            \* due[j]: scheduled_at <= now()
    lease,          \* lease[j]: "none", "live" or "expired" (leased_until against now())
    job,            \* job[w]: the row a worker claimed
    copy,           \* copy[w]: Job.Attempt as its claim returned it
    phase,          \* phase[w]: "idle", "running" the handler, "finishing"
    outcome,        \* outcome[w]: what the handler returned
    faults, overruns, retries

rowVars == <<state, key, attempt, due, lease>>
workerVars == <<job, copy, phase, outcome>>
budgets == <<faults, overruns, retries>>
vars == <<state, key, attempt, due, lease, job, copy, phase, outcome,
          faults, overruns, retries>>

Live == {"pending", "running"}
Terminal == {"succeeded", "dead", "cancelled"}
Outcomes == {"ok", "error", "permanent"}

Init ==
    /\ state = [j \in Jobs |-> "absent"] /\ key = [j \in Jobs |-> NoKey]
    /\ attempt = [j \in Jobs |-> 0] /\ due = [j \in Jobs |-> FALSE]
    /\ lease = [j \in Jobs |-> "none"]
    /\ job = [w \in Workers |-> NoJob] /\ copy = [w \in Workers |-> 0]
    /\ phase = [w \in Workers |-> "idle"] /\ outcome = [w \in Workers |-> "ok"]
    /\ faults = 0 /\ overruns = 0 /\ retries = 0

-----------------------------------------------------------------------------
(* Rows *)

\* Mutant: the unique index does not exist.
KeyFree_NoIndex(j, k) == TRUE

\* The partial unique index jobs_dedupe lets row j be live with key k.
KeyFree(j, k) ==
    k = NoKey \/ \A i \in Jobs \ {j} : ~(state[i] \in Live /\ key[i] = k)

\* EnqueueTx, committed by its caller; a taken key inserts nothing (ErrDuplicate).
Enqueue(j, k, isDue) ==
    /\ state[j] = "absent" /\ KeyFree(j, k)
    /\ state' = [state EXCEPT ![j] = "pending"]
    /\ key' = [key EXCEPT ![j] = k]
    /\ due' = [due EXCEPT ![j] = isDue]
    /\ UNCHANGED <<attempt, lease, workerVars, budgets>>

BecomesDue(j) ==
    /\ state[j] = "pending" /\ ~due[j]
    /\ due' = [due EXCEPT ![j] = TRUE]
    /\ UNCHANGED <<state, key, attempt, lease, workerVars, budgets>>

\* Mutant: a cancel does not look at the state of the row.
Cancel_AnyState(j) ==
    /\ state[j] \notin {"absent", "pruned"}
    /\ state' = [state EXCEPT ![j] = "cancelled"]
    /\ UNCHANGED <<key, attempt, due, lease, workerVars, budgets>>

\* Cancel: pending rows only.
Cancel(j) ==
    /\ state[j] = "pending"
    /\ state' = [state EXCEPT ![j] = "cancelled"]
    /\ UNCHANGED <<key, attempt, due, lease, workerVars, budgets>>

\* Retry: an admin gives a dead or cancelled row a fresh budget ('failed' is in
\* the code's list too, but nothing writes it).  A taken key fails the UPDATE.
Retry(j) ==
    /\ retries < MaxRetries
    /\ state[j] \in {"dead", "cancelled"} /\ KeyFree(j, key[j])
    /\ state' = [state EXCEPT ![j] = "pending"]
    /\ attempt' = [attempt EXCEPT ![j] = 0]
    /\ due' = [due EXCEPT ![j] = TRUE]
    /\ lease' = [lease EXCEPT ![j] = "none"]
    /\ retries' = retries + 1
    /\ UNCHANGED <<key, workerVars, faults, overruns>>

\* PruneTerminalBefore: the retention period outlasts any handler by far.
Prune(j) ==
    /\ state[j] \in Terminal /\ \A w \in Workers : job[w] # j
    /\ state' = [state EXCEPT ![j] = "pruned"]
    /\ UNCHANGED <<key, attempt, due, lease, workerVars, budgets>>

-----------------------------------------------------------------------------
(* Workers *)

Idle(w) ==
    /\ job' = [job EXCEPT ![w] = NoJob]
    /\ copy' = [copy EXCEPT ![w] = 0]
    /\ phase' = [phase EXCEPT ![w] = "idle"]
    /\ outcome' = [outcome EXCEPT ![w] = "ok"]

\* claim: one due pending row becomes running under a new lease.
Claim(w, j) ==
    /\ phase[w] = "idle"
    /\ state[j] = "pending" /\ due[j]
    /\ state' = [state EXCEPT ![j] = "running"]
    /\ attempt' = [attempt EXCEPT ![j] = @ + 1]
    /\ lease' = [lease EXCEPT ![j] = "live"]
    /\ job' = [job EXCEPT ![w] = j]
    /\ copy' = [copy EXCEPT ![w] = attempt[j] + 1]
    /\ phase' = [phase EXCEPT ![w] = "running"]
    /\ UNCHANGED <<key, due, outcome, budgets>>

\* run: the handler returns, panics or hits its deadline; a type without a
\* handler is a permanent failure.
HandlerEnds(w, o) ==
    /\ phase[w] = "running"
    /\ phase' = [phase EXCEPT ![w] = "finishing"]
    /\ outcome' = [outcome EXCEPT ![w] = o]
    /\ UNCHANGED <<rowVars, job, copy, budgets>>

\* Mutant: the budget check is off by one.
Verdict_OffByOne(w) ==
    IF outcome[w] = "ok" THEN "succeeded"
    ELSE IF outcome[w] = "permanent" \/ copy[w] > MaxAttempts THEN "dead" ELSE "pending"

\* Mutant: an attempt that may be retried is parked as 'failed', a state the
\* schema knows and nothing picks up.
Verdict_Failed(w) ==
    IF outcome[w] = "ok" THEN "succeeded"
    ELSE IF outcome[w] = "permanent" \/ copy[w] >= MaxAttempts THEN "dead" ELSE "failed"

\* finish's switch, on the claim's copy of the attempt count.
Verdict(w) ==
    IF outcome[w] = "ok" THEN "succeeded"
    ELSE IF outcome[w] = "permanent" \/ copy[w] >= MaxAttempts THEN "dead" ELSE "pending"

\* finish's transaction succeeds unless the row is gone (job_attempts has a
\* foreign key) or going back to pending would break the unique index.
CanFinish(w) ==
    /\ state[job[w]] # "pruned"
    /\ Verdict(w) = "pending" => KeyFree(job[w], key[job[w]])

\* finish: WHERE id = $1, whatever has become of the row since the claim.
Finish(w) ==
    /\ phase[w] = "finishing"
    /\ IF CanFinish(w)
       THEN /\ state' = [state EXCEPT ![job[w]] = Verdict(w)]
            /\ lease' = [lease EXCEPT ![job[w]] = "none"]
            /\ due' = [due EXCEPT ![job[w]] = @ /\ Verdict(w) # "pending"]
       ELSE UNCHANGED <<state, lease, due>>
    /\ Idle(w)
    /\ UNCHANGED <<key, attempt, budgets>>

-----------------------------------------------------------------------------
(* Time and faults *)

\* finish cannot reach the database: it logs and gives up.
FinishFails(w) ==
    /\ phase[w] = "finishing" /\ faults < MaxFaults
    /\ faults' = faults + 1
    /\ Idle(w)
    /\ UNCHANGED <<rowVars, overruns, retries>>

\* The process dies with whatever its worker was doing.
Crash(w) ==
    /\ phase[w] # "idle" /\ faults < MaxFaults
    /\ faults' = faults + 1
    /\ Idle(w)
    /\ UNCHANGED <<rowVars, overruns, retries>>

\* leased_until passes: of a row nobody works on any more, or of one whose
\* handler or finish is late (an overrun).
LeaseExpires(j) ==
    /\ state[j] = "running" /\ lease[j] = "live"
    /\ IF \E w \in Workers : job[w] = j
       THEN overruns < MaxOverruns /\ overruns' = overruns + 1
       ELSE UNCHANGED overruns
    /\ lease' = [lease EXCEPT ![j] = "expired"]
    /\ UNCHANGED <<state, key, attempt, due, workerVars, faults, retries>>

\* Mutant: the reclaim forgets to compare leased_until with now().
Reclaim_IgnoresLease(j) ==
    /\ state[j] = "running"
    /\ state' = [state EXCEPT ![j] = "pending"]
    /\ lease' = [lease EXCEPT ![j] = "none"]
    /\ UNCHANGED <<key, attempt, due, workerVars, budgets>>

\* Mutant: rows that have used up their budget are not reclaimed.
Reclaim_OnlyWithBudget(j) ==
    /\ state[j] = "running" /\ lease[j] = "expired" /\ attempt[j] < MaxAttempts
    /\ state' = [state EXCEPT ![j] = "pending"]
    /\ lease' = [lease EXCEPT ![j] = "none"]
    /\ UNCHANGED <<key, attempt, due, workerVars, budgets>>

\* reclaimLoop: a running row with an expired lease is pending again, due as
\* its scheduled_at already was.  The attempt count is not looked at.
Reclaim(j) ==
    /\ state[j] = "running" /\ lease[j] = "expired"
    /\ state' = [state EXCEPT ![j] = "pending"]
    /\ lease' = [lease EXCEPT ![j] = "none"]
    /\ UNCHANGED <<key, attempt, due, workerVars, budgets>>

-----------------------------------------------------------------------------
Next ==
    \/ \E j \in Jobs :
          \/ \E k \in Keys \union {NoKey}, isDue \in BOOLEAN : Enqueue(j, k, isDue)
          \/ BecomesDue(j) \/ Cancel(j) \/ Retry(j) \/ Prune(j)
          \/ LeaseExpires(j) \/ Reclaim(j)
    \/ \E w \in Workers :
          \/ \E j \in Jobs : Claim(w, j)
          \/ \E o \in Outcomes : HandlerEnds(w, o)
          \/ Finish(w) \/ FinishFails(w) \/ Crash(w)

\* Workers poll and their handlers end (at the latest at the deadline); time
\* passes; the reclaim loop of some running process runs.
Fairness ==
    /\ \A w \in Workers :
          /\ WF_vars(\E j \in Jobs : Claim(w, j))
          /\ WF_vars(\E o \in Outcomes : HandlerEnds(w, o))
          /\ WF_vars(Finish(w))
    /\ \A j \in Jobs : WF_vars(BecomesDue(j)) /\ WF_vars(LeaseExpires(j)) /\ WF_vars(Reclaim(j))

Spec == Init /\ [][Next]_vars
FairSpec == Spec /\ Fairness

-----------------------------------------------------------------------------
(* Properties *)

TypeOK ==
    /\ state \in [Jobs -> Live \union Terminal \union {"absent", "pruned"}]
    /\ key \in [Jobs -> Keys \union {NoKey}]
    /\ attempt \in [Jobs -> Nat]
    /\ due \in [Jobs -> BOOLEAN]
    /\ lease \in [Jobs -> {"none", "live", "expired"}]
    /\ job \in [Workers -> Jobs \union {NoJob}]
    /\ copy \in [Workers -> Nat]
    /\ phase \in [Workers -> {"idle", "running", "finishing"}]
    /\ outcome \in [Workers -> Outcomes]
    /\ faults \in Nat /\ overruns \in Nat /\ retries \in Nat

\* As long as every lease outlasted the work it covers, no two workers are at the
\* same job, whatever crashes, failed writes, reclaims and retries happen.
ExclusiveRun ==
    overruns = 0 => \A v, w \in Workers : v # w /\ job[v] # NoJob => job[v] # job[w]

\* At most one live row per dedupe key, although rows become live again by
\* reclaims, failed attempts and admin retries.
OneLivePerKey ==
    \A i, j \in Jobs :
        i # j /\ state[i] \in Live /\ state[j] \in Live /\ key[i] # NoKey => key[i] # key[j]

\* A row that reached a final state leaves it only by an admin retry or pruning,
\* as long as every lease outlasted the work it covers.
TerminalStays ==
    [][overruns = 0 => \A j \in Jobs : state[j] \in Terminal /\ state'[j] # state[j] =>
           state'[j] = "pruned" \/ retries' # retries]_vars

\* A job is tried at most MaxAttempts times before an admin retries it, and once
\* more for every worker that was lost: the reclaim does not count attempts.
AttemptsWithinBudget == \A j \in Jobs : attempt[j] <= MaxAttempts + faults + overruns

\* Every enqueued job reaches a final state.
EventuallyFinal == \A j \in Jobs : state[j] = "pending" ~> state[j] \in Terminal \union {"pruned"}
=============================================================================
