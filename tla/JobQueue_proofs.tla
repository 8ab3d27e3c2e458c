--------------------------- MODULE JobQueue_proofs ---------------------------
(***************************************************************************)
(* What JobQueue promises for any set of jobs, workers and dedupe keys and *)
(* any number of crashes, overruns and retries: types, one live row per    *)
(* key, and, as long as no lease expires under the work it covers, one     *)
(* worker per job and final states that stay.                              *)
(***************************************************************************)
EXTENDS JobQueue, FiniteSetTheorems, TLAPS

\* Every claimed row is running under a live lease and has one worker.
Attended ==
    /\ \A w \in Workers : job[w] # NoJob => state[job[w]] = "running" /\ lease[job[w]] = "live"
    /\ \A v, w \in Workers : v # w /\ job[v] # NoJob => job[v] # job[w]

\* A worker holds a job exactly while it is not idle.
BusyWithAJob == \A w \in Workers : phase[w] # "idle" <=> job[w] # NoJob

\* The inductive invariant.  TypeOK alone does not tell that a worker at work
\* has a row; OneLivePerKey needs the index and nothing else.
QueueInv ==
    /\ TypeOK
    /\ BusyWithAJob
    /\ OneLivePerKey
    /\ overruns = 0 => Attended

\* The initial states satisfy the inductive invariant.
LEMMA QueueInvInit == Init => QueueInv
BY QueueAssumption DEF Init, QueueInv, TypeOK, BusyWithAJob, OneLivePerKey, Attended,
   Live, Terminal, Outcomes

-----------------------------------------------------------------------------
(* Steps on rows *)

\* Making row i live with a key that KeyFree allows keeps one live row per key.
LEMMA KeyFreeKeepsUnique ==
    ASSUME NEW i \in Jobs, NEW k, TypeOK, OneLivePerKey, KeyFree(i, k),
           key' = [key EXCEPT ![i] = k],
           \A j \in Jobs \ {i} : state'[j] = state[j]
    PROVE  OneLivePerKey'
BY DEF OneLivePerKey, KeyFree, TypeOK

\* A step that makes no row live and changes no key keeps one live row per key.
LEMMA NothingRevived ==
    ASSUME OneLivePerKey, key' = key,
           \A j \in Jobs : state'[j] \in Live => state[j] \in Live
    PROVE  OneLivePerKey'
BY DEF OneLivePerKey

\* EnqueueTx preserves the invariant.
LEMMA EnqueueInv ==
    ASSUME NEW j \in Jobs, NEW k \in Keys \union {NoKey}, NEW isDue \in BOOLEAN,
           QueueInv, Enqueue(j, k, isDue)
    PROVE  QueueInv'
<1> USE DEF QueueInv, Enqueue
<1>1. TypeOK'  BY DEF TypeOK, Live, workerVars, budgets
<1>2. BusyWithAJob'  BY DEF BusyWithAJob, workerVars
<1>3. OneLivePerKey'  BY KeyFreeKeepsUnique DEF TypeOK
<1>4. (overruns = 0 => Attended)'  BY DEF Attended, TypeOK, workerVars, budgets
<1> QED  BY <1>1, <1>2, <1>3, <1>4

\* A pending row becoming due preserves the invariant.
LEMMA DueInv ==
    ASSUME NEW j \in Jobs, QueueInv, BecomesDue(j)
    PROVE  QueueInv'
<1> USE DEF QueueInv, BecomesDue, workerVars, budgets
<1>1. TypeOK'  BY DEF TypeOK
<1>2. BusyWithAJob' /\ OneLivePerKey'  BY DEF BusyWithAJob, OneLivePerKey
<1>3. (overruns = 0 => Attended)'  BY DEF Attended
<1> QED  BY <1>1, <1>2, <1>3

\* Cancel preserves the invariant: a pending row has no worker.
LEMMA CancelInv ==
    ASSUME NEW j \in Jobs, QueueInv, Cancel(j)
    PROVE  QueueInv'
<1> USE DEF QueueInv, Cancel, workerVars, budgets
<1>1. TypeOK'  BY DEF TypeOK, Terminal
<1>2. BusyWithAJob'  BY DEF BusyWithAJob
<1>3. OneLivePerKey'  BY NothingRevived DEF TypeOK, Live
<1>4. (overruns = 0 => Attended)'  BY DEF Attended, TypeOK
<1> QED  BY <1>1, <1>2, <1>3, <1>4

\* An admin retry preserves the invariant: the index refuses a taken key.
LEMMA RetryInv ==
    ASSUME NEW j \in Jobs, QueueInv, Retry(j)
    PROVE  QueueInv'
<1> USE DEF QueueInv, Retry, workerVars
<1>1. TypeOK'  BY DEF TypeOK, Live
<1>2. BusyWithAJob'  BY DEF BusyWithAJob
<1>3. OneLivePerKey'
  <2>1. key' = [key EXCEPT ![j] = key[j]]  BY DEF TypeOK
  <2> QED  BY <2>1, KeyFreeKeepsUnique DEF TypeOK
<1>4. (overruns = 0 => Attended)'  BY DEF Attended, TypeOK
<1> QED  BY <1>1, <1>2, <1>3, <1>4

\* Pruning preserves the invariant: it spares rows somebody works on.
LEMMA PruneInv ==
    ASSUME NEW j \in Jobs, QueueInv, Prune(j)
    PROVE  QueueInv'
<1> USE DEF QueueInv, Prune, workerVars, budgets
<1>1. TypeOK'  BY DEF TypeOK
<1>2. BusyWithAJob'  BY DEF BusyWithAJob
<1>3. OneLivePerKey'  BY NothingRevived DEF TypeOK, Live
<1>4. (overruns = 0 => Attended)'  BY DEF Attended, TypeOK
<1> QED  BY <1>1, <1>2, <1>3, <1>4

\* A lease that expires preserves the invariant: without overruns nobody works
\* on its row.
LEMMA ExpireInv ==
    ASSUME NEW j \in Jobs, QueueInv, LeaseExpires(j)
    PROVE  QueueInv'
<1> USE DEF QueueInv, LeaseExpires, workerVars
<1>1. TypeOK'  BY QueueAssumption DEF TypeOK
<1>2. BusyWithAJob' /\ OneLivePerKey'  BY DEF BusyWithAJob, OneLivePerKey
<1>3. (overruns = 0 => Attended)'  BY DEF Attended, TypeOK
<1> QED  BY <1>1, <1>2, <1>3

\* The reclaim preserves the invariant: an expired lease has no worker.
LEMMA ReclaimInv ==
    ASSUME NEW j \in Jobs, QueueInv, Reclaim(j)
    PROVE  QueueInv'
<1> USE DEF QueueInv, Reclaim, workerVars, budgets
<1>1. TypeOK'  BY DEF TypeOK, Live
<1>2. BusyWithAJob'  BY DEF BusyWithAJob
<1>3. OneLivePerKey'  BY NothingRevived DEF TypeOK, Live
<1>4. (overruns = 0 => Attended)'  BY DEF Attended, TypeOK
<1> QED  BY <1>1, <1>2, <1>3, <1>4

-----------------------------------------------------------------------------
(* Steps of workers *)

\* A claim preserves the invariant: nobody works on a pending row.
LEMMA ClaimInv ==
    ASSUME NEW w \in Workers, NEW j \in Jobs, QueueInv, Claim(w, j)
    PROVE  QueueInv'
<1> USE DEF QueueInv, Claim, budgets
<1>1. TypeOK'  BY DEF TypeOK, Live
<1>2. BusyWithAJob'  BY QueueAssumption DEF BusyWithAJob, TypeOK
<1>3. OneLivePerKey'  BY NothingRevived DEF TypeOK, Live
<1>4. (overruns = 0 => Attended)'
  <2> SUFFICES ASSUME overruns' = 0 PROVE Attended'  OBVIOUS
  <2>0. overruns = 0 /\ Attended  OBVIOUS
  <2>1. \A v \in Workers : job[v] # j  BY <2>0, QueueAssumption DEF Attended
  <2>2. \A v \in Workers : job'[v] = IF v = w THEN j ELSE job[v]  BY DEF TypeOK
  <2>3. state'[j] = "running" /\ lease'[j] = "live"  BY DEF TypeOK
  <2>4. \A i \in Jobs \ {j} : state'[i] = state[i] /\ lease'[i] = lease[i]  BY DEF TypeOK
  <2> QED  BY <2>0, <2>1, <2>2, <2>3, <2>4 DEF Attended, TypeOK
<1> QED  BY <1>1, <1>2, <1>3, <1>4

\* A handler that ends preserves the invariant.
LEMMA HandlerInv ==
    ASSUME NEW w \in Workers, NEW o \in Outcomes, QueueInv, HandlerEnds(w, o)
    PROVE  QueueInv'
<1> USE DEF QueueInv, HandlerEnds, rowVars, budgets
<1>1. TypeOK'  BY DEF TypeOK
<1>2. BusyWithAJob'  BY DEF BusyWithAJob, TypeOK
<1>3. OneLivePerKey'  BY DEF OneLivePerKey
<1>4. (overruns = 0 => Attended)'  BY DEF Attended
<1> QED  BY <1>1, <1>2, <1>3, <1>4

\* The worker that becomes idle keeps its types and the others their jobs.
LEMMA IdleKeeps ==
    ASSUME NEW w \in Workers, TypeOK, BusyWithAJob, Idle(w)
    PROVE  /\ job' \in [Workers -> Jobs \union {NoJob}]
           /\ copy' \in [Workers -> Nat]
           /\ phase' \in [Workers -> {"idle", "running", "finishing"}]
           /\ outcome' \in [Workers -> Outcomes]
           /\ BusyWithAJob'
           /\ \A v \in Workers : job'[v] = IF v = w THEN NoJob ELSE job[v]
BY DEF TypeOK, BusyWithAJob, Idle, Outcomes

\* finish preserves the invariant.  It addresses the row by id alone, and still
\* takes no row from under another worker: without overruns it is the only one.
LEMMA FinishInv ==
    ASSUME NEW w \in Workers, QueueInv, Finish(w)
    PROVE  QueueInv'
<1> DEFINE j == job[w]
<1>0. /\ TypeOK /\ BusyWithAJob /\ OneLivePerKey /\ Idle(w) /\ (overruns = 0 => Attended)
      /\ UNCHANGED <<key, attempt, budgets>>
  BY DEF QueueInv, Finish
<1>1. j \in Jobs  BY DEF QueueInv, BusyWithAJob, TypeOK, Finish
<1>2. \/ /\ CanFinish(w)
         /\ state' = [state EXCEPT ![j] = Verdict(w)]
         /\ lease' = [lease EXCEPT ![j] = "none"]
         /\ due' = [due EXCEPT ![j] = @ /\ Verdict(w) # "pending"]
      \/ UNCHANGED <<state, lease, due>>
  BY DEF Finish
<1>3. Verdict(w) \in {"succeeded", "dead", "pending"}  BY DEF Verdict
<1>4. TypeOK'
  <2>1. state' \in [Jobs -> Live \union Terminal \union {"absent", "pruned"}]
    BY <1>0, <1>1, <1>2, <1>3 DEF TypeOK, Live, Terminal
  <2>2. lease' \in [Jobs -> {"none", "live", "expired"}]  BY <1>0, <1>1, <1>2 DEF TypeOK
  <2>3. due' \in [Jobs -> BOOLEAN]  BY <1>0, <1>1, <1>2 DEF TypeOK
  <2> QED  BY <1>0, <2>1, <2>2, <2>3, IdleKeeps DEF TypeOK, budgets
<1>5. BusyWithAJob'  BY <1>0, IdleKeeps
<1>6. OneLivePerKey'
  <2>1. CASE UNCHANGED <<state, lease, due>>  BY <1>0, <2>1 DEF OneLivePerKey
  <2>2. CASE CanFinish(w) /\ state' = [state EXCEPT ![j] = Verdict(w)]
    <3>1. \A i \in Jobs \ {j} : state'[i] = state[i]  BY <2>2, <1>0 DEF TypeOK
    <3>2. CASE Verdict(w) = "pending"
      <4>1. KeyFree(j, key[j])  BY <2>2, <3>2 DEF CanFinish
      <4>2. key' = [key EXCEPT ![j] = key[j]]  BY <1>0 DEF TypeOK
      <4> QED  BY <1>0, <1>1, <3>1, <4>1, <4>2, KeyFreeKeepsUnique
    <3>3. CASE Verdict(w) # "pending"
      <4>1. state'[j] \notin Live  BY <1>0, <1>1, <1>3, <2>2, <3>3 DEF TypeOK, Live
      <4> QED  BY <1>0, <3>1, <4>1, NothingRevived
    <3> QED  BY <3>2, <3>3
  <2> QED  BY <1>2, <2>1, <2>2
<1>7. (overruns = 0 => Attended)'
  <2> SUFFICES ASSUME overruns' = 0 PROVE Attended'  OBVIOUS
  <2>0. overruns = 0 /\ Attended  BY <1>0 DEF budgets
  <2>1. \A v \in Workers : job'[v] = IF v = w THEN NoJob ELSE job[v]  BY <1>0, IdleKeeps
  <2>2. \A i \in Jobs \ {j} : state'[i] = state[i] /\ lease'[i] = lease[i]
    BY <1>2, <1>0 DEF TypeOK
  <2>3. \A v \in Workers \ {w} : job[v] # j  BY <2>0, <1>1, QueueAssumption DEF Attended
  <2> QED  BY <2>0, <1>0, <2>1, <2>2, <2>3 DEF Attended, TypeOK
<1> QED  BY <1>4, <1>5, <1>6, <1>7 DEF QueueInv

\* A lost worker, or one that cannot write its outcome, preserves the invariant.
LEMMA LostInv ==
    ASSUME NEW w \in Workers, QueueInv, Crash(w) \/ FinishFails(w)
    PROVE  QueueInv'
<1>1. /\ TypeOK /\ BusyWithAJob /\ OneLivePerKey /\ Idle(w) /\ (overruns = 0 => Attended)
      /\ faults' = faults + 1 /\ UNCHANGED <<rowVars, overruns, retries>>
  BY DEF QueueInv, Crash, FinishFails
<1>2. TypeOK'  BY <1>1, IdleKeeps DEF TypeOK, rowVars
<1>3. BusyWithAJob'  BY <1>1, IdleKeeps
<1>4. OneLivePerKey'  BY <1>1 DEF OneLivePerKey, rowVars
<1>5. (overruns = 0 => Attended)'  BY <1>1, IdleKeeps DEF Attended, rowVars
<1> QED  BY <1>2, <1>3, <1>4, <1>5 DEF QueueInv

-----------------------------------------------------------------------------
\* Every step of the specification preserves the inductive invariant.
LEMMA QueueInvStep == QueueInv /\ [Next]_vars => QueueInv'
<1> SUFFICES ASSUME QueueInv, [Next]_vars PROVE QueueInv'  OBVIOUS
<1>1. CASE UNCHANGED vars
  BY <1>1 DEF vars, QueueInv, TypeOK, BusyWithAJob, OneLivePerKey, Attended
<1>2. ASSUME NEW j \in Jobs, NEW k \in Keys \union {NoKey}, NEW isDue \in BOOLEAN,
             Enqueue(j, k, isDue)
      PROVE  QueueInv'
  BY <1>2, EnqueueInv
<1>3. ASSUME NEW j \in Jobs,
             \/ BecomesDue(j) \/ Cancel(j) \/ Retry(j) \/ Prune(j)
             \/ LeaseExpires(j) \/ Reclaim(j)
      PROVE  QueueInv'
  BY <1>3, DueInv, CancelInv, RetryInv, PruneInv, ExpireInv, ReclaimInv
<1>4. ASSUME NEW w \in Workers, NEW j \in Jobs, Claim(w, j) PROVE QueueInv'
  BY <1>4, ClaimInv
<1>5. ASSUME NEW w \in Workers, NEW o \in Outcomes, HandlerEnds(w, o) PROVE QueueInv'
  BY <1>5, HandlerInv
<1>6. ASSUME NEW w \in Workers, Finish(w) \/ FinishFails(w) \/ Crash(w) PROVE QueueInv'
  BY <1>6, FinishInv, LostInv
<1> QED  BY <1>1, <1>2, <1>3, <1>4, <1>5, <1>6 DEF Next

\* The inductive invariant holds in every reachable state.
THEOREM QueueInvariant == Spec => []QueueInv
<1> QED  BY QueueInvInit, QueueInvStep, PTL DEF Spec

\* The queue is type correct: jobs.state never leaves the states the worker
\* knows, attempts stay natural numbers.
THEOREM QueueTypeOK == Spec => []TypeOK
<1>1. QueueInv => TypeOK  BY DEF QueueInv
<1> QED  BY <1>1, QueueInvariant, PTL

\* The partial unique index keeps one live row per dedupe key through enqueues,
\* failed attempts, reclaims and admin retries, overruns included.
THEOREM DedupeHolds == Spec => []OneLivePerKey
<1>1. QueueInv => OneLivePerKey  BY DEF QueueInv
<1> QED  BY <1>1, QueueInvariant, PTL

\* While no lease expires under the work it covers, a job never has two workers:
\* claim's SKIP LOCKED update and the reclaim need no other coordination.
THEOREM OneWorkerPerJob == Spec => []ExclusiveRun
<1>1. QueueInv => ExclusiveRun  BY DEF QueueInv, Attended, ExclusiveRun
<1> QED  BY <1>1, QueueInvariant, PTL

\* Under the same condition finish, which does not look at the state of the row,
\* never revives or overwrites a row in a final state.
THEOREM FinalStatesStay == Spec => TerminalStays
<1> DEFINE Kept == overruns = 0 => \A j \in Jobs : state[j] \in Terminal /\ state'[j] # state[j] =>
                       state'[j] = "pruned" \/ retries' # retries
<1>1. QueueInv /\ [Next]_vars => [Kept]_vars
  <2> SUFFICES ASSUME QueueInv, Next, overruns = 0, NEW i \in Jobs, state[i] \in Terminal, state'[i] # state[i]
               PROVE  state'[i] = "pruned" \/ retries' # retries
    OBVIOUS
  <2> USE DEF QueueInv, TypeOK, Terminal
  <2>1. ASSUME NEW j \in Jobs, NEW k \in Keys \union {NoKey}, NEW isDue \in BOOLEAN,
               Enqueue(j, k, isDue)
        PROVE  FALSE
    BY <2>1 DEF Enqueue
  <2>2. ASSUME NEW j \in Jobs, BecomesDue(j) \/ Cancel(j) \/ LeaseExpires(j) \/ Reclaim(j)
        PROVE  FALSE
    BY <2>2 DEF BecomesDue, Cancel, LeaseExpires, Reclaim
  <2>3. ASSUME NEW j \in Jobs, Retry(j) PROVE retries' # retries  BY <2>3 DEF Retry
  <2>4. ASSUME NEW j \in Jobs, Prune(j) PROVE state'[i] = "pruned"  BY <2>4 DEF Prune
  <2>5. ASSUME NEW w \in Workers, NEW j \in Jobs, Claim(w, j) PROVE FALSE  BY <2>5 DEF Claim
  <2>6. ASSUME NEW w \in Workers, NEW o \in Outcomes, HandlerEnds(w, o) PROVE FALSE
    BY <2>6 DEF HandlerEnds, rowVars
  <2>7. ASSUME NEW w \in Workers, Finish(w) PROVE FALSE
    <3>1. job[w] \in Jobs /\ state[job[w]] = "running"
      BY <2>7 DEF Finish, BusyWithAJob, Attended
    <3> QED  BY <2>7, <3>1 DEF Finish
  <2>8. ASSUME NEW w \in Workers, FinishFails(w) \/ Crash(w) PROVE FALSE
    BY <2>8 DEF FinishFails, Crash, rowVars
  <2> QED  BY <2>1, <2>2, <2>3, <2>4, <2>5, <2>6, <2>7, <2>8 DEF Next
<1> QED  BY <1>1, QueueInvariant, PTL DEF Spec, TerminalStays

-----------------------------------------------------------------------------
(* The budget of attempts.  The reclaim does not count attempts, and finish    *)
(* compares its claim's copy, so a row may be claimed again although its own   *)
(* count is used up: once for every worker that was lost or outlived.          *)

\* The workers at job j, and those whose finish would make it pending again.
Claimants(j) == {w \in Workers : job[w] = j}
Retriers(j) == {w \in Claimants(j) : copy[w] < MaxAttempts}

\* 1 if j waits for another claim, or will without a worker's doing.
Waiting(j) ==
    IF \/ state[j] = "pending"
       \/ state[j] = "running" /\ (lease[j] = "expired" \/ Claimants(j) = {})
    THEN 1 ELSE 0

\* A second worker needs an overrun, and so does one at a row in a final state.
\* Attempts made and attempts that may still be made are within the budget.
Budgeted(j) ==
    /\ Cardinality(Claimants(j)) + Waiting(j) <= 1 + overruns
    /\ state[j] \in Terminal => Cardinality(Claimants(j)) <= overruns
    /\ state[j] \in {"absent", "pruned"} => Claimants(j) = {}
    /\ state[j] = "absent" => attempt[j] = 0
    /\ attempt[j] + Waiting(j) + Cardinality(Retriers(j)) <= MaxAttempts + faults + overruns

BudgetInv == \A j \in Jobs : Budgeted(j)

\* How many workers there are at a job.
LEMMA ClaimantCounts ==
    ASSUME NEW j \in Jobs
    PROVE  /\ IsFiniteSet(Claimants(j)) /\ IsFiniteSet(Retriers(j))
           /\ Cardinality(Claimants(j)) \in Nat /\ Cardinality(Retriers(j)) \in Nat
           /\ Cardinality(Retriers(j)) <= Cardinality(Claimants(j))
           /\ Cardinality(Claimants(j)) = 0 <=> Claimants(j) = {}
           /\ Waiting(j) \in {0, 1}
<1>1. IsFiniteSet(Claimants(j))  BY QueueAssumption, FS_Subset DEF Claimants
<1>2. Retriers(j) \subseteq Claimants(j)  BY DEF Retriers
<1>3. IsFiniteSet(Retriers(j)) /\ Cardinality(Retriers(j)) <= Cardinality(Claimants(j))
  BY <1>1, <1>2, FS_Subset
<1>4. Cardinality(Claimants(j)) \in Nat /\ Cardinality(Retriers(j)) \in Nat
  BY <1>1, <1>3, FS_CardinalityType
<1>5. Cardinality(Claimants(j)) = 0 <=> Claimants(j) = {}  BY <1>1, FS_EmptySet
<1> QED  BY <1>1, <1>3, <1>4, <1>5 DEF Waiting

\* A worker that becomes idle leaves its job and no other.
LEMMA OneLeaves ==
    ASSUME TypeOK, NEW w \in Workers, NEW j \in Jobs, job[w] = j, Idle(w)
    PROVE  /\ Cardinality(Claimants(j))' = Cardinality(Claimants(j)) - 1
           /\ Cardinality(Retriers(j))' =
                  Cardinality(Retriers(j)) - (IF copy[w] < MaxAttempts THEN 1 ELSE 0)
           /\ \A i \in Jobs \ {j} :
                  Claimants(i)' = Claimants(i) /\ Retriers(i)' = Retriers(i)
<1>1. \A v \in Workers \ {w} : job'[v] = job[v] /\ copy'[v] = copy[v]
  BY DEF Idle, TypeOK
<1>2. job'[w] = NoJob  BY DEF Idle, TypeOK
<1>3. Claimants(j)' = Claimants(j) \ {w}
  BY <1>1, <1>2, QueueAssumption DEF Claimants
<1>4. Retriers(j)' = Retriers(j) \ {w}
  BY <1>1, <1>2, QueueAssumption DEF Claimants, Retriers
<1>5. w \in Claimants(j) /\ (w \in Retriers(j) <=> copy[w] < MaxAttempts)
  BY DEF Claimants, Retriers
<1>6. IsFiniteSet(Claimants(j)) /\ IsFiniteSet(Retriers(j))
      /\ Cardinality(Retriers(j)) \in Nat
  BY ClaimantCounts
<1>7. Cardinality(Claimants(j) \ {w}) = Cardinality(Claimants(j)) - 1
  BY <1>5, <1>6, FS_RemoveElement
<1>8. Cardinality(Retriers(j) \ {w}) =
          Cardinality(Retriers(j)) - (IF w \in Retriers(j) THEN 1 ELSE 0)
  <2>1. CASE w \in Retriers(j)  BY <1>6, <2>1, FS_RemoveElement
  <2>2. CASE w \notin Retriers(j)
    <3>1. Retriers(j) \ {w} = Retriers(j)  BY <2>2
    <3> QED  BY <1>6, <2>2, <3>1
  <2> QED  BY <2>1, <2>2
<1>9. \A i \in Jobs \ {j} : Claimants(i)' = Claimants(i) /\ Retriers(i)' = Retriers(i)
  BY <1>1, <1>2, QueueAssumption DEF Claimants, Retriers
<1> QED  BY <1>3, <1>4, <1>5, <1>7, <1>8, <1>9

\* A claim adds one worker to its job and to no other.
LEMMA OneJoins ==
    ASSUME TypeOK, BusyWithAJob, NEW w \in Workers, NEW j \in Jobs, Claim(w, j)
    PROVE  /\ Claimants(j)' # {}
           /\ Cardinality(Claimants(j))' = Cardinality(Claimants(j)) + 1
           /\ Cardinality(Retriers(j))' =
                  Cardinality(Retriers(j)) + (IF attempt[j] + 1 < MaxAttempts THEN 1 ELSE 0)
           /\ \A i \in Jobs \ {j} :
                  Claimants(i)' = Claimants(i) /\ Retriers(i)' = Retriers(i)
<1>1. \A v \in Workers \ {w} : job'[v] = job[v] /\ copy'[v] = copy[v]
  BY DEF Claim, TypeOK
<1>2. job'[w] = j /\ copy'[w] = attempt[j] + 1  BY DEF Claim, TypeOK
<1>3. job[w] = NoJob  BY DEF Claim, BusyWithAJob
<1>4. w \notin Claimants(j) /\ w \notin Retriers(j)
  BY <1>3, QueueAssumption DEF Claimants, Retriers
<1>5. Claimants(j)' = Claimants(j) \union {w}  BY <1>1, <1>2 DEF Claimants
<1>6. Retriers(j)' = Retriers(j) \union (IF attempt[j] + 1 < MaxAttempts THEN {w} ELSE {})
  BY <1>1, <1>2, <1>4 DEF Claimants, Retriers
<1>7. IsFiniteSet(Claimants(j)) /\ IsFiniteSet(Retriers(j))
      /\ Cardinality(Retriers(j)) \in Nat
  BY ClaimantCounts
<1>8. Cardinality(Claimants(j) \union {w}) = Cardinality(Claimants(j)) + 1
  BY <1>4, <1>7, FS_AddElement
<1>9. Cardinality(Retriers(j) \union {w}) = Cardinality(Retriers(j)) + 1
  BY <1>4, <1>7, FS_AddElement
<1>10. \A i \in Jobs \ {j} : Claimants(i)' = Claimants(i) /\ Retriers(i)' = Retriers(i)
  BY <1>1, <1>2, <1>3, QueueAssumption DEF Claimants, Retriers
<1>11. Cardinality(Retriers(j))' =
           Cardinality(Retriers(j)) + (IF attempt[j] + 1 < MaxAttempts THEN 1 ELSE 0)
  <2>1. CASE attempt[j] + 1 < MaxAttempts  BY <1>6, <1>9, <2>1
  <2>2. CASE ~(attempt[j] + 1 < MaxAttempts)
    <3>1. Retriers(j)' = Retriers(j)  BY <1>6, <2>2
    <3> QED  BY <1>7, <2>2, <3>1
  <2> QED  BY <2>1, <2>2
<1> QED  BY <1>5, <1>8, <1>10, <1>11

\* The initial states: no rows, no workers at them.
LEMMA BudgetInit == Init => BudgetInv
<1> SUFFICES ASSUME Init, NEW j \in Jobs PROVE Budgeted(j)  BY DEF BudgetInv
<1>1. Claimants(j) = {} /\ Waiting(j) = 0 /\ state[j] = "absent" /\ attempt[j] = 0
  BY QueueAssumption DEF Init, Claimants, Waiting
<1>2. Cardinality(Claimants(j)) = 0 /\ Cardinality(Retriers(j)) = 0
  BY <1>1, ClaimantCounts
<1>3. faults = 0 /\ overruns = 0  BY DEF Init
<1> QED  BY <1>1, <1>2, <1>3, QueueAssumption DEF Budgeted, Terminal

\* A row that a step leaves alone, workers included, stays within its budget.
LEMMA RowUndisturbed ==
    ASSUME TypeOK, NEW i \in Jobs, Budgeted(i),
           state'[i] = state[i], attempt'[i] = attempt[i], lease'[i] = lease[i],
           Claimants(i)' = Claimants(i), Retriers(i)' = Retriers(i),
           faults' \in Nat, faults <= faults', overruns' \in Nat, overruns <= overruns'
    PROVE  Budgeted(i)'
<1>1. Waiting(i)' = Waiting(i)  BY DEF Waiting
<1> QED  BY <1>1, ClaimantCounts, QueueAssumption DEF Budgeted, TypeOK, Terminal

\* Steps on one row that no worker takes part in.
LEMMA RowBudget ==
    ASSUME QueueInv, BudgetInv, NEW j \in Jobs,
           \/ \E k \in Keys \union {NoKey}, isDue \in BOOLEAN : Enqueue(j, k, isDue)
           \/ BecomesDue(j) \/ Cancel(j) \/ Retry(j) \/ Prune(j)
           \/ LeaseExpires(j) \/ Reclaim(j)
    PROVE  BudgetInv'
<1>1. UNCHANGED workerVars
  BY DEF Enqueue, BecomesDue, Cancel, Retry, Prune, LeaseExpires, Reclaim
<1>2. \A i \in Jobs : Claimants(i)' = Claimants(i) /\ Retriers(i)' = Retriers(i)
  BY <1>1 DEF workerVars, Claimants, Retriers
<1>3. \A i \in Jobs \ {j} : state'[i] = state[i] /\ attempt'[i] = attempt[i] /\ lease'[i] = lease[i]
  BY DEF Enqueue, BecomesDue, Cancel, Retry, Prune, LeaseExpires, Reclaim, QueueInv, TypeOK
<1>4. faults' = faults /\ overruns' \in Nat /\ overruns <= overruns'
  BY DEF Enqueue, BecomesDue, Cancel, Retry, Prune, LeaseExpires, Reclaim, QueueInv, TypeOK, budgets
<1>5. ASSUME NEW i \in Jobs \ {j} PROVE Budgeted(i)'
  BY <1>2, <1>3, <1>4, RowUndisturbed DEF QueueInv, TypeOK, BudgetInv
<1> DEFINE c == Cardinality(Claimants(j))
           r == Cardinality(Retriers(j))
<1>6. /\ c \in Nat /\ r \in Nat /\ r <= c /\ (c = 0 <=> Claimants(j) = {})
      /\ c' = c /\ r' = r /\ (Claimants(j)' = {} <=> c = 0)
  BY <1>2, ClaimantCounts
<1>7. /\ attempt[j] \in Nat /\ faults \in Nat /\ overruns \in Nat
      /\ c + Waiting(j) <= 1 + overruns
      /\ state[j] \in Terminal => c <= overruns
      /\ state[j] \in {"absent", "pruned"} => c = 0
      /\ state[j] = "absent" => attempt[j] = 0
      /\ attempt[j] + Waiting(j) + r <= MaxAttempts + faults + overruns
  BY <1>6 DEF BudgetInv, Budgeted, QueueInv, TypeOK
<1>8. Budgeted(j)' <=>
      /\ c + Waiting(j)' <= 1 + overruns'
      /\ state'[j] \in Terminal => c <= overruns'
      /\ state'[j] \in {"absent", "pruned"} => c = 0
      /\ state'[j] = "absent" => attempt'[j] = 0
      /\ attempt'[j] + Waiting(j)' + r <= MaxAttempts + faults + overruns'
  BY <1>4, <1>6 DEF Budgeted
<1>9. Waiting(j)' = IF \/ state'[j] = "pending"
                       \/ state'[j] = "running" /\ (lease'[j] = "expired" \/ c = 0)
                    THEN 1 ELSE 0
  BY <1>6 DEF Waiting
<1>10. Waiting(j) = IF \/ state[j] = "pending"
                       \/ state[j] = "running" /\ (lease[j] = "expired" \/ c = 0)
                    THEN 1 ELSE 0
  BY <1>6 DEF Waiting
<1> HIDE DEF c, r
<1>11. Budgeted(j)'
  <2> USE QueueAssumption, <1>6, <1>7, <1>8, <1>9, <1>10 DEF QueueInv, TypeOK, Terminal
  <2>1. CASE \E k \in Keys \union {NoKey}, isDue \in BOOLEAN : Enqueue(j, k, isDue)
    <3>1. state[j] = "absent" /\ state'[j] = "pending" /\ attempt'[j] = attempt[j] /\ overruns' = overruns
      BY <2>1 DEF Enqueue, budgets
    <3> QED  BY <3>1
  <2>2. CASE BecomesDue(j)  BY <2>2 DEF BecomesDue, budgets
  <2>3. CASE Cancel(j)
    <3>1. state[j] = "pending" /\ state'[j] = "cancelled" /\ attempt'[j] = attempt[j] /\ overruns' = overruns
      BY <2>3 DEF Cancel, budgets
    <3> QED  BY <3>1
  <2>4. CASE Retry(j)
    <3>1. state[j] \in Terminal /\ state'[j] = "pending" /\ attempt'[j] = 0 /\ overruns' = overruns
      BY <2>4 DEF Retry
    <3> QED  BY <3>1
  <2>5. CASE Prune(j)
    <3>1. state'[j] = "pruned" /\ attempt'[j] = attempt[j] /\ overruns' = overruns
      BY <2>5 DEF Prune, budgets
    <3>2. c = 0
      <4>1. Claimants(j) = {}  BY <2>5 DEF Prune, Claimants
      <4> QED  BY <4>1
    <3> QED  BY <3>1, <3>2
  <2>6. CASE LeaseExpires(j)
    <3>1. /\ state[j] = "running" /\ lease[j] = "live" /\ state'[j] = "running"
          /\ lease'[j] = "expired" /\ attempt'[j] = attempt[j]
      BY <2>6 DEF LeaseExpires
    <3>2. IF c = 0 THEN overruns' = overruns ELSE overruns' = overruns + 1
      <4>1. c = 0 <=> ~\E w \in Workers : job[w] = j  BY DEF Claimants
      <4> QED  BY <2>6, <4>1 DEF LeaseExpires
    <3> QED  BY <3>1, <3>2
  <2>7. CASE Reclaim(j)
    <3>1. /\ state[j] = "running" /\ lease[j] = "expired" /\ state'[j] = "pending"
          /\ attempt'[j] = attempt[j] /\ overruns' = overruns
      BY <2>7 DEF Reclaim, budgets
    <3> QED  BY <3>1
  <2> QED  BY <2>1, <2>2, <2>3, <2>4, <2>5, <2>6, <2>7
<1> QED  BY <1>5, <1>11 DEF BudgetInv

\* A claim spends one attempt: the row waits no more.
LEMMA ClaimBudget ==
    ASSUME QueueInv, BudgetInv, NEW w \in Workers, NEW j \in Jobs, Claim(w, j)
    PROVE  BudgetInv'
<1>1. /\ state[j] = "pending" /\ state'[j] = "running" /\ lease'[j] = "live"
      /\ attempt'[j] = attempt[j] + 1 /\ UNCHANGED budgets
      /\ \A i \in Jobs \ {j} : state'[i] = state[i] /\ attempt'[i] = attempt[i] /\ lease'[i] = lease[i]
  BY DEF Claim, QueueInv, TypeOK
<1> DEFINE c == Cardinality(Claimants(j))
           r == Cardinality(Retriers(j))
<1>2. /\ Claimants(j)' # {} /\ c' = c + 1
      /\ r' = r + (IF attempt[j] + 1 < MaxAttempts THEN 1 ELSE 0)
      /\ \A i \in Jobs \ {j} : Claimants(i)' = Claimants(i) /\ Retriers(i)' = Retriers(i)
  BY OneJoins DEF QueueInv
<1>3. ASSUME NEW i \in Jobs \ {j} PROVE Budgeted(i)'
  BY <1>1, <1>2, RowUndisturbed DEF QueueInv, TypeOK, BudgetInv, budgets
<1>4. c \in Nat /\ r \in Nat /\ r <= c  BY ClaimantCounts
<1>5. Waiting(j) = 1 /\ Waiting(j)' = 0  BY <1>1, <1>2 DEF Waiting
<1>6. /\ attempt[j] \in Nat /\ faults \in Nat /\ overruns \in Nat /\ c + 1 <= 1 + overruns
      /\ attempt[j] + 1 + r <= MaxAttempts + faults + overruns
  BY <1>5 DEF BudgetInv, Budgeted, QueueInv, TypeOK
<1> HIDE DEF c, r
<1>7. c' <= 1 + overruns  BY <1>2, <1>4, <1>6
<1>8. attempt'[j] + r' <= MaxAttempts + faults + overruns
  BY <1>1, <1>2, <1>4, <1>6, QueueAssumption
<1>9. c' \in Nat /\ r' \in Nat  BY <1>2, <1>4
<1>10. Budgeted(j)'
  BY <1>1, <1>5, <1>6, <1>7, <1>8, <1>9, QueueAssumption DEF Budgeted, Terminal, budgets, c, r
<1> QED  BY <1>3, <1>10 DEF BudgetInv

\* A worker that leaves its job may make it wait once more: it wrote so, with
\* attempts to spare by its own count, or it was lost.
LEMMA LeaveBudget ==
    ASSUME QueueInv, BudgetInv, NEW w \in Workers, Finish(w) \/ FinishFails(w) \/ Crash(w)
    PROVE  BudgetInv'
<1>1. PICK j \in Jobs : job[w] = j
  BY DEF Finish, FinishFails, Crash, QueueInv, TypeOK, BusyWithAJob
<1>2. Idle(w) /\ UNCHANGED <<attempt, overruns>>
  BY DEF Finish, FinishFails, Crash, rowVars, budgets
<1> DEFINE c == Cardinality(Claimants(j))
           r == Cardinality(Retriers(j))
<1>3. /\ c' = c - 1 /\ r' = r - (IF copy[w] < MaxAttempts THEN 1 ELSE 0)
      /\ \A i \in Jobs \ {j} : Claimants(i)' = Claimants(i) /\ Retriers(i)' = Retriers(i)
  BY <1>1, <1>2, OneLeaves DEF QueueInv
<1>4. /\ c \in Nat /\ r \in Nat /\ r <= c /\ Waiting(j) \in {0, 1}
      /\ c' \in Nat /\ r' \in Nat /\ Waiting(j)' \in {0, 1}
  <2>1. /\ IsFiniteSet(Claimants(j)') /\ IsFiniteSet(Retriers(j)')
    BY QueueAssumption, FS_Subset DEF Claimants, Retriers
  <2>2. c' \in Nat /\ r' \in Nat  BY <2>1, FS_CardinalityType
  <2> QED  BY <2>2, ClaimantCounts DEF Waiting
<1>5. /\ attempt[j] \in Nat /\ faults \in Nat /\ overruns \in Nat /\ MaxAttempts \in Nat
      /\ c + Waiting(j) <= 1 + overruns
      /\ attempt[j] + Waiting(j) + r <= MaxAttempts + faults + overruns
      /\ copy[w] \in Nat
      /\ state[j] \notin {"absent", "pruned"}
  <2>1. w \in Claimants(j)  BY <1>1 DEF Claimants
  <2> QED  BY <2>1, QueueAssumption DEF BudgetInv, Budgeted, QueueInv, TypeOK
<1> HIDE DEF c, r
<1>6. CASE Finish(w)
  <2>1. UNCHANGED faults /\ \A i \in Jobs \ {j} : state'[i] = state[i] /\ lease'[i] = lease[i]
    BY <1>1, <1>6 DEF Finish, budgets, QueueInv, TypeOK
  <2>2. ASSUME NEW i \in Jobs \ {j} PROVE Budgeted(i)'
    BY <1>2, <1>3, <2>1, RowUndisturbed DEF QueueInv, TypeOK, BudgetInv
  <2>3. Budgeted(j)'
    <3>1. CASE CanFinish(w) /\ Verdict(w) = "pending"
      <4>1. state'[j] = "pending" /\ copy[w] < MaxAttempts
        BY <1>1, <1>5, <1>6, <3>1 DEF Finish, Verdict, QueueInv, TypeOK
      <4>2. c' + Waiting(j)' <= 1 + overruns  BY <1>3, <1>4, <1>5
      <4>3. attempt[j] + Waiting(j)' + r' <= MaxAttempts + faults + overruns
        BY <1>3, <1>4, <1>5, <4>1
      <4> QED  BY <1>2, <2>1, <4>1, <4>2, <4>3 DEF Budgeted, Terminal, c, r
    <3>2. CASE CanFinish(w) /\ Verdict(w) # "pending"
      <4>1. state'[j] \in {"succeeded", "dead"} /\ Waiting(j)' = 0
        BY <1>1, <1>6, <3>2 DEF Finish, Verdict, QueueInv, TypeOK, Waiting
      <4>2. c' <= overruns  BY <1>3, <1>4, <1>5
      <4>3. attempt[j] + r' <= MaxAttempts + faults + overruns  BY <1>3, <1>4, <1>5
      <4> QED  BY <1>2, <1>4, <1>5, <2>1, <4>1, <4>2, <4>3 DEF Budgeted, Terminal, c, r
    <3>3. CASE ~CanFinish(w)
      <4>1. UNCHANGED <<state, lease>>  BY <1>6, <3>3 DEF Finish
      <4>2. state[j] \notin Live
        <5>1. ~KeyFree(j, key[j])  BY <1>1, <1>5, <3>3 DEF CanFinish
        <5> QED  BY <5>1 DEF KeyFree, QueueInv, OneLivePerKey
      <4>3. Waiting(j) = 0 /\ Waiting(j)' = 0  BY <4>1, <4>2 DEF Waiting, Live
      <4>4. state[j] \in Terminal => c <= overruns  BY DEF BudgetInv, Budgeted, c
      <4>5. c' <= 1 + overruns /\ (state[j] \in Terminal => c' <= overruns)
        BY <1>3, <1>4, <1>5, <4>4
      <4>6. attempt[j] + r' <= MaxAttempts + faults + overruns  BY <1>3, <1>4, <1>5, <4>3
      <4> QED  BY <1>2, <1>4, <1>5, <2>1, <4>1, <4>3, <4>5, <4>6 DEF Budgeted, c, r
    <3> QED  BY <3>1, <3>2, <3>3
  <2> QED  BY <2>2, <2>3 DEF BudgetInv
<1>7. CASE FinishFails(w) \/ Crash(w)
  <2>1. faults' = faults + 1 /\ UNCHANGED <<state, lease>>
    BY <1>7 DEF FinishFails, Crash, rowVars
  <2>2. ASSUME NEW i \in Jobs \ {j} PROVE Budgeted(i)'
    BY <1>2, <1>3, <1>5, <2>1, RowUndisturbed DEF QueueInv, TypeOK, BudgetInv
  <2>3. state[j] \in Terminal => c <= overruns  BY DEF BudgetInv, Budgeted, c
  <2>4. c' + Waiting(j)' <= 1 + overruns /\ (state[j] \in Terminal => c' <= overruns)
    BY <1>3, <1>4, <1>5, <2>3
  <2>5. attempt[j] + Waiting(j)' + r' <= MaxAttempts + faults' + overruns
    BY <1>3, <1>4, <1>5, <2>1
  <2>6. Budgeted(j)'  BY <1>2, <1>5, <2>1, <2>4, <2>5 DEF Budgeted, c, r
  <2> QED  BY <2>2, <2>6 DEF BudgetInv
<1> QED  BY <1>6, <1>7

\* Every step keeps every row within its budget.
LEMMA BudgetStep == QueueInv /\ BudgetInv /\ [Next]_vars => BudgetInv'
<1> SUFFICES ASSUME QueueInv, BudgetInv, [Next]_vars PROVE BudgetInv'  OBVIOUS
<1>1. ASSUME UNCHANGED <<rowVars, job, copy, faults, overruns>> PROVE BudgetInv'
  <2>1. \A i \in Jobs : Claimants(i)' = Claimants(i) /\ Retriers(i)' = Retriers(i)
    BY <1>1 DEF Claimants, Retriers
  <2>2. ASSUME NEW i \in Jobs PROVE Budgeted(i)'
    BY <1>1, <2>1, RowUndisturbed DEF rowVars, QueueInv, TypeOK, BudgetInv
  <2> QED  BY <2>2 DEF BudgetInv
<1>2. CASE UNCHANGED vars  BY <1>1, <1>2 DEF vars, rowVars
<1>3. ASSUME NEW w \in Workers, NEW o \in Outcomes, HandlerEnds(w, o) PROVE BudgetInv'
  BY <1>1, <1>3 DEF HandlerEnds, budgets
<1>4. CASE Next
  BY <1>3, <1>4, RowBudget, ClaimBudget, LeaveBudget DEF Next
<1> QED  BY <1>2, <1>4

\* A job is tried at most MaxAttempts times, and once more for every worker that was
\* lost or outlived its lease: finish's check on its own copy of the count is enough
\* although the reclaim makes none.
THEOREM BudgetHolds == Spec => []AttemptsWithinBudget
<1>1. Init => QueueInv /\ BudgetInv  BY QueueInvInit, BudgetInit
<1>2. QueueInv /\ BudgetInv /\ [Next]_vars => (QueueInv /\ BudgetInv)'
  BY QueueInvStep, BudgetStep
<1>3. QueueInv /\ BudgetInv => AttemptsWithinBudget
  <2> SUFFICES ASSUME QueueInv, BudgetInv, NEW j \in Jobs
               PROVE  attempt[j] <= MaxAttempts + faults + overruns
    BY DEF AttemptsWithinBudget
  <2>1. /\ attempt[j] + Waiting(j) + Cardinality(Retriers(j)) <= MaxAttempts + faults + overruns
        /\ attempt[j] \in Nat /\ faults \in Nat /\ overruns \in Nat
    BY DEF BudgetInv, Budgeted, QueueInv, TypeOK
  <2> HIDE DEF Waiting
  <2> QED  BY <2>1, ClaimantCounts, QueueAssumption
<1> QED  BY <1>1, <1>2, <1>3, PTL DEF Spec
=============================================================================
