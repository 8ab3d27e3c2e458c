------------------------ MODULE WebhookDelivery_proofs ------------------------
(***************************************************************************)
(* What WebhookDelivery promises for any set of deliveries and workers and *)
(* any number of faults: it is a use of the job queue, its types hold, and *)
(* as long as every lease outlasts its Deliver no delivery is reopened or  *)
(* sent again without need, and without faults none is stranded.           *)
(***************************************************************************)
EXTENDS WebhookDelivery, JobQueue_proofs

\* Which deliveries have jobs: a job is enqueued after its delivery exists, and its
\* dedupe key is the delivery.
Existing ==
    /\ \A d \in Jobs :
          /\ status[d] = "absent" \/ d \in requests => state[d] = "absent"
          /\ state[d] = "absent" => attempt[d] = 0
          /\ state[d] # "absent" => key[d] = d
    /\ \A w \in Workers : job[w] # NoJob => state[job[w]] \notin {"absent", "pruned"}

\* What Deliver knows of its delivery between its statements, unless another worker
\* is in the same Deliver.
InDeliver(w) ==
    /\ step[w] \in {"post", "record", "fail"} => status[job[w]] \in Open \union {"removed"}
    /\ step[w] = "healthy" => status[job[w]] \in {"delivered", "removed"}
    /\ step[w] = "unhealthy" => status[job[w]] \in {"failed", "exhausted", "removed"}
    /\ step[w] = "post" => received[job[w]] <= unsure[job[w]]

\* Worker w has an acceptance of d to record.
Recording(w, d) == job[w] = d /\ step[w] = "record"

\* Only an acceptance that is recorded, or about to be, is not counted as unsure.
Accounted(d) ==
    /\ received[d] <= unsure[d] + 1
    /\ received[d] <= unsure[d] \/ status[d] \in {"delivered", "removed"}
          \/ \E w \in Workers : Recording(w, d)

SendInv ==
    overruns = 0 => /\ \A w \in Workers : InDeliver(w)
                    /\ \A d \in Jobs : Accounted(d)

\* Worker w has claimed the job of d but not yet d.
Claiming(w, d) == job[w] = d /\ step[w] = "claim"

\* Without faults the job of an open delivery has counted no more attempts than the
\* delivery, so the delivery is given up before its job is.
InStep(d) ==
    /\ attempt[d] <= tries[d] + 1
    /\ attempt[d] <= tries[d] \/ \E w \in Workers : Claiming(w, d)
    /\ Carried(d) \/ state[d] \in {"cancelled", "pruned"}

\* What a worker and its job say of an open delivery.
WorkInStep(w) ==
    /\ step[w] \in {"post", "record", "fail", "unhealthy"} => try[w] = tries[job[w]]
    /\ step[w] = "unhealthy" => tries[job[w]] < MaxAttempts
    /\ phase[w] = "finishing" => outcome[w] = "error" /\ tries[job[w]] < MaxAttempts

NoFaults == faults + dbFaults + overruns = 0

CarryInv ==
    NoFaults =>
        /\ \A w \in Workers : job[w] # NoJob =>
              /\ copy[w] = attempt[job[w]]
              /\ status[job[w]] \in Open => WorkInStep(w)
        /\ \A d \in Jobs :
              /\ state[d] = "running" => \E w \in Workers : job[w] = d
              /\ status[d] \in Open => InStep(d)

WInv == QueueInv /\ WTypeOK /\ Existing /\ SendInv /\ CarryInv

-----------------------------------------------------------------------------
(* Deliveries run on the job queue *)

\* A handler's return is a step of the queue.
LEMMA ReturnIsJobStep ==
    ASSUME NEW w \in Workers, NEW o \in {"ok", "error"}, Returns(w, o)
    PROVE  Next
BY DEF Returns, Next, Outcomes

\* Every step of a delivery is a step of the queue or leaves it alone.
LEMMA DeliveryIsJobStep == WNext => [Next]_vars
<1> SUFFICES ASSUME WNext PROVE [Next]_vars  OBVIOUS
<1>1. ASSUME NEW d \in Jobs, Dispatch(d) \/ EnqueueRequested(d) PROVE Next
  <2>1. Enqueue(d, d, TRUE) /\ d \in Keys \union {NoKey}
    BY <1>1, DeliveryAssumption DEF Dispatch, EnqueueRequested
  <2> QED  BY <2>1 DEF Next
<1>2. ASSUME NEW d \in Jobs, Insert(d) \/ RequestDies(d) \/ RetentionSweep(d)
      PROVE  UNCHANGED vars
  BY <1>2 DEF Insert, RequestDies, RetentionSweep
<1>3. ASSUME NEW on \in BOOLEAN, Update(on) PROVE UNCHANGED vars  BY <1>3 DEF Update
<1>4. ASSUME NEW w \in Workers, NEW d \in Jobs, StartDeliver(w, d) PROVE Next
  BY <1>4 DEF StartDeliver, Next
<1>5. ASSUME NEW w \in Workers, DeliverStep(w) PROVE [Next]_vars
  BY <1>5, ReturnIsJobStep
     DEF DeliverStep, ClaimDelivery, Post, RecordDelivered, MarkHealthy, RecordFailed,
         MarkUnhealthy, Goto
<1>6. ASSUME NEW w \in Workers, StatementFails(w) PROVE Next
  BY <1>6, ReturnIsJobStep DEF StatementFails
<1>7. ASSUME NEW w \in Workers, WorkerCrashes(w) PROVE Next
  BY <1>7 DEF WorkerCrashes, Next
<1>8. CASE QueueStep  BY <1>8 DEF QueueStep, Next
<1> QED  BY <1>1, <1>2, <1>3, <1>4, <1>5, <1>6, <1>7, <1>8 DEF WNext

-----------------------------------------------------------------------------
(* Types *)

\* The initial states satisfy the inductive invariant.
LEMMA DeliveryInit == WInit => WInv
<1> SUFFICES ASSUME WInit PROVE WInv  OBVIOUS
<1>1. QueueInv  BY QueueInvInit DEF WInit
<1>2. WTypeOK
  <2>1. enabled \in BOOLEAN /\ disabled \in BOOLEAN  BY DEF WInit
  <2> QED  BY <1>1, <2>1, DeliveryAssumption DEF WInit, WTypeOK, QueueInv, Init
<1>3. Existing  BY DEF WInit, Init, Existing
<1>4. SendInv  BY DEF WInit, SendInv, InDeliver, Accounted
<1>5. CarryInv  BY DEF WInit, Init, CarryInv, Open
<1> QED  BY <1>1, <1>2, <1>3, <1>4, <1>5 DEF WInv

\* Every step keeps the types.
LEMMA DeliveryTypes == ASSUME WInv, TypeOK', WNext PROVE WTypeOK'
<1> USE DEF WInv, WTypeOK
<1>1. ASSUME NEW d \in Jobs, Dispatch(d) \/ EnqueueRequested(d) PROVE WTypeOK'
  BY <1>1 DEF Dispatch, EnqueueRequested, Enqueue, workerVars, endpoint, deliver, seen
<1>2. ASSUME NEW d \in Jobs, Insert(d) PROVE WTypeOK'
  BY <1>2 DEF Insert, vars, endpoint, deliver, seen
<1>3. ASSUME NEW d \in Jobs, RequestDies(d) PROVE WTypeOK'
  BY <1>3, DeliveryAssumption DEF RequestDies, vars, endpoint, deliver, seen
<1>4. ASSUME NEW d \in Jobs, RetentionSweep(d) PROVE WTypeOK'
  BY <1>4 DEF RetentionSweep, vars, endpoint, deliver
<1>5. ASSUME NEW on \in BOOLEAN, Update(on) PROVE WTypeOK'
  <2>1. enabled' \in BOOLEAN /\ disabled' \in BOOLEAN  BY <1>5 DEF Update
  <2>2. failures' \in Nat /\ updates' \in 0..MaxUpdates
    BY <1>5, DeliveryAssumption DEF Update
  <2> QED  BY <1>5, <2>1, <2>2 DEF Update, vars, rows, deliver, seen
<1>6. ASSUME NEW w \in Workers, NEW d \in Jobs, StartDeliver(w, d) PROVE WTypeOK'
  BY <1>6 DEF StartDeliver, Claim, TypeOK, rows, endpoint, seen
<1>7. ASSUME NEW w \in Workers, NEW o, Returns(w, o)
      PROVE  /\ step' \in [Workers -> {"off", "claim", "post", "record", "healthy", "fail", "unhealthy"}]
             /\ try' \in [Workers -> Nat]
             /\ \A v \in Workers : step'[v] # "off" <=> phase'[v] = "running"
  BY <1>7 DEF Returns, HandlerEnds, TypeOK
<1>8. ASSUME NEW w \in Workers, step[w] # "off" PROVE job[w] \in Jobs
  BY <1>8 DEF QueueInv, BusyWithAJob, TypeOK
<1>9. ASSUME NEW w \in Workers, ClaimDelivery(w) PROVE WTypeOK'
  <2>1. CASE Claimable(job[w])
    BY <1>8, <1>9, <2>1 DEF ClaimDelivery, At, vars, endpoint, seen
  <2>2. CASE ~Claimable(job[w])
    BY <1>7, <1>9, <2>2 DEF ClaimDelivery, endpoint, seen
  <2> QED  BY <2>1, <2>2
<1>10. ASSUME NEW w \in Workers, NEW answer \in {"accepted", "lost", "refused"}, Post(w, answer)
       PROVE  WTypeOK'
  BY <1>8, <1>10 DEF Post, At, Goto, vars, rows, endpoint
<1>11. ASSUME NEW w \in Workers, NEW s \in {"delivered", "exhausted", "failed"},
              Write(job[w], s, try[w]), job[w] \in Jobs, job[w] \notin requests, requests' = requests
       PROVE  /\ status' \in [Jobs -> {"absent", "pending", "failed", "delivered", "exhausted", "removed"}]
              /\ tries' \in [Jobs -> Nat]
              /\ requests' \subseteq {d \in Jobs : status'[d] = "pending"}
  BY <1>11 DEF Write
<1>12. ASSUME NEW w \in Workers, step[w] # "off" PROVE job[w] \notin requests
  BY <1>8, <1>12, QueueAssumption DEF Existing
<1>13. ASSUME NEW w \in Workers, RecordDelivered(w) \/ RecordFailed(w) PROVE WTypeOK'
  <2>1. PICK s \in {"delivered", "exhausted", "failed"} : Write(job[w], s, try[w])
    BY <1>13 DEF RecordDelivered, RecordFailed
  <2>2. step[w] # "off"  BY <1>13 DEF RecordDelivered, RecordFailed, At
  <2>3. requests' = requests /\ UNCHANGED <<vars, try, endpoint, seen, dbFaults, updates>>
        /\ \/ step' = [step EXCEPT ![w] = "healthy"]
           \/ step' = [step EXCEPT ![w] = "unhealthy"]
    BY <1>13 DEF RecordDelivered, RecordFailed, Goto
  <2>4. /\ status' \in [Jobs -> {"absent", "pending", "failed", "delivered", "exhausted", "removed"}]
        /\ tries' \in [Jobs -> Nat]
        /\ requests' \subseteq {d \in Jobs : status'[d] = "pending"}
    BY <1>8, <1>11, <1>12, <2>1, <2>2, <2>3
  <2> QED  BY <2>2, <2>3, <2>4 DEF vars, endpoint, seen
<1>14. ASSUME NEW w \in Workers, MarkHealthy(w) \/ MarkUnhealthy(w) PROVE WTypeOK'
  <2>1. PICK o : Returns(w, o)  BY <1>14 DEF MarkHealthy, MarkUnhealthy
  <2>2. disabled' \in BOOLEAN
    <3>1. (disabled \/ failures + 1 >= Threshold) \in BOOLEAN  OBVIOUS
    <3> QED  BY <1>14, <3>1 DEF MarkHealthy, MarkUnhealthy
  <2>3. failures' \in Nat  BY <1>14 DEF MarkHealthy, MarkUnhealthy
  <2>4. enabled' = enabled /\ UNCHANGED <<rows, seen, dbFaults, updates>>
    BY <1>14 DEF MarkHealthy, MarkUnhealthy
  <2> QED  BY <1>7, <2>1, <2>2, <2>3, <2>4 DEF rows, seen
<1>15. ASSUME NEW w \in Workers, Uncertain(w)
       PROVE  unsure' \in [Jobs -> Nat]
  BY <1>8, <1>15 DEF Uncertain, At
<1>16. ASSUME NEW w \in Workers, StatementFails(w) PROVE WTypeOK'
  BY <1>7, <1>15, <1>16, DeliveryAssumption DEF StatementFails, rows, endpoint
<1>17. ASSUME NEW w \in Workers, WorkerCrashes(w) PROVE WTypeOK'
  <2>1. unsure' \in [Jobs -> Nat]  BY <1>15, <1>17 DEF WorkerCrashes, At
  <2> QED  BY <1>17, <2>1 DEF WorkerCrashes, Crash, Idle, TypeOK, rows, endpoint
<1>18. CASE QueueStep
  <2>1. \A v \in Workers : phase'[v] = "running" <=> phase[v] = "running"
    BY <1>18 DEF QueueStep, BecomesDue, Cancel, Retry, Prune, LeaseExpires, Reclaim, workerVars,
       Finish, FinishFails, Idle, TypeOK
  <2> QED  BY <1>18, <2>1 DEF QueueStep, rows, endpoint, deliver, seen
<1> QED
  BY <1>1, <1>2, <1>3, <1>4, <1>5, <1>6, <1>9, <1>10, <1>13, <1>14, <1>16, <1>17, <1>18
     DEF WNext, DeliverStep

-----------------------------------------------------------------------------
(* Deliveries and their jobs *)

\* No step but an enqueue makes a job's row, and none makes it vanish under a worker.
LEMMA JobsStay ==
    ASSUME WInv,
           \/ \E w \in Workers, d \in Jobs : Claim(w, d)
           \/ \E w \in Workers, o \in {"ok", "error"} : HandlerEnds(w, o)
           \/ \E w \in Workers : Crash(w)
           \/ QueueStep \/ UNCHANGED vars
    PROVE  /\ key' = key
           /\ \A d \in Jobs : state'[d] = "absent" <=> state[d] = "absent"
           /\ \A d \in Jobs : state[d] = "absent" => attempt'[d] = attempt[d]
           /\ \A w \in Workers : job'[w] # NoJob => state'[job'[w]] \notin {"absent", "pruned"}
<1> USE DEF WInv, QueueInv, TypeOK, Existing
<1>1. ASSUME NEW w \in Workers, NEW d \in Jobs, Claim(w, d)
      PROVE  /\ key' = key
             /\ \A i \in Jobs : state'[i] = "absent" <=> state[i] = "absent"
             /\ \A i \in Jobs : state[i] = "absent" => attempt'[i] = attempt[i]
             /\ \A v \in Workers : job'[v] # NoJob => state'[job'[v]] \notin {"absent", "pruned"}
  BY <1>1 DEF Claim
<1>2. ASSUME \/ \E w \in Workers, o \in {"ok", "error"} : HandlerEnds(w, o)
             \/ UNCHANGED vars
      PROVE  UNCHANGED <<key, state, attempt, job>>
  BY <1>2 DEF HandlerEnds, vars, rowVars
<1>3. ASSUME NEW w \in Workers, Crash(w) \/ FinishFails(w)
      PROVE  /\ UNCHANGED <<key, state, attempt>>
             /\ \A v \in Workers : job'[v] \in {NoJob, job[v]}
  BY <1>3 DEF Crash, FinishFails, rowVars, Idle
<1>4. ASSUME NEW d \in Jobs,
             BecomesDue(d) \/ Cancel(d) \/ Retry(d) \/ Prune(d) \/ LeaseExpires(d) \/ Reclaim(d)
      PROVE  /\ key' = key /\ job' = job
             /\ \A i \in Jobs : state'[i] = "absent" <=> state[i] = "absent"
             /\ \A i \in Jobs : state[i] = "absent" => attempt'[i] = attempt[i]
             /\ \A v \in Workers : job[v] # NoJob => state'[job[v]] \notin {"absent", "pruned"}
  BY <1>4 DEF BecomesDue, Cancel, Retry, Prune, LeaseExpires, Reclaim, workerVars, Terminal
<1>5. ASSUME NEW w \in Workers, Finish(w)
      PROVE  /\ key' = key /\ attempt' = attempt
             /\ \A i \in Jobs : state'[i] = "absent" <=> state[i] = "absent"
             /\ \A v \in Workers : job'[v] # NoJob => state'[job'[v]] \notin {"absent", "pruned"}
  <2>1. job[w] \in Jobs /\ state[job[w]] # "absent"
    BY <1>5, QueueAssumption DEF Finish, BusyWithAJob
  <2>2. Verdict(w) \in {"succeeded", "dead", "pending"}  BY DEF Verdict
  <2>3. \A i \in Jobs : \/ state'[i] = state[i]
                        \/ state[i] # "absent" /\ state'[i] \in {"succeeded", "dead", "pending"}
    <3>1. state' = state \/ state' = [state EXCEPT ![job[w]] = Verdict(w)]
      BY <1>5 DEF Finish
    <3>2. \A i \in Jobs \ {job[w]} : state'[i] = state[i]  BY <3>1
    <3>3. state'[job[w]] \in {state[job[w]], Verdict(w)}  BY <2>1, <3>1
    <3> QED  BY <2>1, <2>2, <3>2, <3>3
  <2>4. \A v \in Workers : job'[v] \in {NoJob, job[v]}  BY <1>5 DEF Finish, Idle
  <2> QED  BY <1>5, <2>3, <2>4 DEF Finish
<1> QED  BY <1>1, <1>2, <1>3, <1>4, <1>5 DEF QueueStep

\* Every step keeps deliveries and jobs in line.
LEMMA DeliveryExisting == ASSUME WInv, WNext PROVE Existing'
<1> USE DEF WInv, WTypeOK, QueueInv, TypeOK, Existing
<1>1. ASSUME NEW d \in Jobs, Dispatch(d) \/ EnqueueRequested(d) PROVE Existing'
  <2>1. /\ state' = [state EXCEPT ![d] = "pending"] /\ key' = [key EXCEPT ![d] = d]
        /\ state[d] = "absent" /\ UNCHANGED <<attempt, job>>
    BY <1>1 DEF Dispatch, EnqueueRequested, Enqueue, workerVars
  <2>2. /\ status'[d] # "absent" /\ d \notin requests'
        /\ \A i \in Jobs \ {d} : status'[i] = status[i] /\ (i \in requests' <=> i \in requests)
    <3>1. CASE Dispatch(d)  BY <3>1 DEF Dispatch
    <3>2. CASE EnqueueRequested(d)  BY <3>2 DEF EnqueueRequested
    <3> QED  BY <1>1, <3>1, <3>2
  <2> QED  BY <2>1, <2>2
<1>2. ASSUME NEW d \in Jobs, Insert(d) PROVE Existing'
  BY <1>2 DEF Insert, vars
<1>3. ASSUME NEW w \in Workers, step[w] # "off" PROVE job[w] \in Jobs /\ status[job[w]] # "absent"
  BY <1>3, QueueAssumption DEF BusyWithAJob
<1>4. ASSUME WNext, ~\E d \in Jobs : Dispatch(d) \/ EnqueueRequested(d) \/ Insert(d)
      PROVE  /\ \A d \in Jobs : status'[d] = "absent" => status[d] = "absent"
             /\ requests' \subseteq requests
             /\ \/ \E w \in Workers, d \in Jobs : Claim(w, d)
                \/ \E w \in Workers, o \in {"ok", "error"} : HandlerEnds(w, o)
                \/ \E w \in Workers : Crash(w)
                \/ QueueStep \/ UNCHANGED vars
  <2>1. ASSUME NEW d \in Jobs, RequestDies(d) \/ RetentionSweep(d)
        PROVE  /\ \A e \in Jobs : status'[e] = "absent" => status[e] = "absent"
               /\ requests' \subseteq requests
               /\ UNCHANGED vars
    BY <2>1 DEF RequestDies, RetentionSweep
  <2>2. ASSUME NEW on \in BOOLEAN, Update(on) PROVE UNCHANGED <<status, requests, vars>>
    BY <2>2 DEF Update, rows
  <2>3. ASSUME NEW w \in Workers, NEW d \in Jobs, StartDeliver(w, d)
        PROVE  UNCHANGED <<status, requests>> /\ Claim(w, d)
    BY <2>3 DEF StartDeliver, rows
  <2>4. ASSUME NEW w \in Workers,
               \/ ClaimDelivery(w) \/ \E answer \in {"accepted", "lost", "refused"} : Post(w, answer)
               \/ MarkHealthy(w) \/ MarkUnhealthy(w) \/ StatementFails(w)
        PROVE  /\ UNCHANGED <<status, requests>>
               /\ (\E o \in {"ok", "error"} : HandlerEnds(w, o)) \/ UNCHANGED vars
    BY <2>4 DEF ClaimDelivery, Post, MarkHealthy, MarkUnhealthy, StatementFails, Returns, Goto, rows
  <2>5. ASSUME NEW w \in Workers, RecordDelivered(w) \/ RecordFailed(w)
        PROVE  /\ \A d \in Jobs : status'[d] = "absent" => status[d] = "absent"
               /\ UNCHANGED <<requests, vars>>
    BY <1>3, <2>5 DEF RecordDelivered, RecordFailed, Write, Goto, At
  <2>6. ASSUME NEW w \in Workers, WorkerCrashes(w)
        PROVE  UNCHANGED <<status, requests>> /\ Crash(w)
    BY <2>6 DEF WorkerCrashes, rows
  <2>7. CASE QueueStep  BY <2>7 DEF QueueStep, rows
  <2> QED
    BY <1>4, <2>1, <2>2, <2>3, <2>4, <2>5, <2>6, <2>7 DEF WNext, DeliverStep
<1>5. CASE ~\E d \in Jobs : Dispatch(d) \/ EnqueueRequested(d) \/ Insert(d)
  BY <1>4, <1>5, JobsStay
<1> QED  BY <1>1, <1>2, <1>5

-----------------------------------------------------------------------------
(* What the endpoint receives *)

\* While every lease outlasts its work, a worker in Deliver is alone with its job.
LEMMA Alone ==
    ASSUME WInv, overruns = 0, NEW w \in Workers, job[w] # NoJob
    PROVE  /\ job[w] \in Jobs /\ state[job[w]] = "running" /\ lease[job[w]] = "live"
           /\ \A v \in Workers \ {w} : job[v] # job[w]
BY DEF WInv, QueueInv, TypeOK, Attended

\* Only a worker that is not idle is in Deliver.
LEMMA Inside ==
    ASSUME WInv, NEW w \in Workers, step[w] # "off"
    PROVE  phase[w] = "running" /\ job[w] \in Jobs /\ job[w] # NoJob
           /\ status[job[w]] # "absent" /\ job[w] \notin requests
BY QueueAssumption DEF WInv, QueueInv, TypeOK, BusyWithAJob, WTypeOK, Existing

\* An overrun is never undone.
LEMMA OverrunsStay == ASSUME WInv, WNext, overruns' = 0 PROVE overruns = 0
<1>1. [Next]_vars  BY DeliveryIsJobStep
<1>2. ASSUME NEW j \in Jobs, LeaseExpires(j) PROVE overruns = 0
  BY <1>2, QueueAssumption DEF LeaseExpires, WInv, QueueInv, TypeOK
<1>3. ASSUME ~\E j \in Jobs : LeaseExpires(j) PROVE overruns' = overruns
  BY <1>1, <1>3 DEF Next, vars, Enqueue, BecomesDue, Cancel, Retry, Prune, Reclaim, Claim,
     HandlerEnds, Finish, FinishFails, Crash, budgets
<1> QED  BY <1>2, <1>3

\* Steps that write no delivery, send nothing and leave no acceptance unrecorded.
LEMMA NothingSent ==
    ASSUME WInv, overruns = 0, UNCHANGED <<status, received, unsure>>,
           \A w \in Workers : \/ job'[w] = job[w] /\ step'[w] = step[w]
                              \/ step[w] # "record" /\ step'[w] \in {"off", "claim"}
    PROVE  (\A w \in Workers : InDeliver(w)') /\ (\A d \in Jobs : Accounted(d)')
<1>1. (\A w \in Workers : InDeliver(w)) /\ (\A d \in Jobs : Accounted(d))
  BY DEF WInv, SendInv
<1>2. \A w \in Workers : InDeliver(w)'  BY <1>1 DEF InDeliver
<1>3. \A w \in Workers, d \in Jobs : Recording(w, d) => Recording(w, d)'  BY DEF Recording
<1> QED  BY <1>1, <1>2, <1>3 DEF Accounted

\* A step of Deliver concerns its own delivery only.
LEMMA OneSent ==
    ASSUME WInv, overruns = 0, NEW w \in Workers, job[w] # NoJob,
           \A v \in Workers \ {w} : job'[v] = job[v] /\ step'[v] = step[v],
           job'[w] \in {job[w], NoJob},
           \A d \in Jobs \ {job[w]} : /\ status'[d] = status[d] /\ received'[d] = received[d]
                                      /\ unsure'[d] = unsure[d],
           InDeliver(w)',
           LET d == job[w]
           IN  /\ received'[d] <= unsure'[d] + 1
               /\ \/ received'[d] <= unsure'[d]
                  \/ status'[d] \in {"delivered", "removed"}
                  \/ job'[w] = d /\ step'[w] = "record"
    PROVE  (\A v \in Workers : InDeliver(v)') /\ (\A d \in Jobs : Accounted(d)')
<1>1. (\A v \in Workers : InDeliver(v)) /\ (\A d \in Jobs : Accounted(d))
  BY DEF WInv, SendInv
<1>2. ASSUME NEW v \in Workers \ {w} PROVE InDeliver(v)'
  <2>1. CASE step[v] = "off"  BY <2>1 DEF InDeliver
  <2>2. CASE step[v] # "off"
    <3>1. job[v] \in Jobs \ {job[w]}  BY <2>2, Alone, Inside
    <3> QED  BY <1>1, <3>1 DEF InDeliver
  <2> QED  BY <2>1, <2>2
<1>3. ASSUME NEW d \in Jobs \ {job[w]} PROVE Accounted(d)'
  <2>1. \A v \in Workers : Recording(v, d) => Recording(v, d)'  BY DEF Recording
  <2> QED  BY <1>1, <2>1 DEF Accounted
<1>4. job[w] \in Jobs  BY Alone
<1>5. ASSUME NEW d, d = job[w] PROVE Accounted(d)'  BY <1>5 DEF Accounted, Recording
<1> QED  BY <1>2, <1>3, <1>5

\* Steps outside Deliver.
LEMMA SendOutside ==
    ASSUME WInv, overruns = 0,
           \/ \E d \in Jobs : Dispatch(d) \/ Insert(d) \/ EnqueueRequested(d) \/ RequestDies(d)
                              \/ RetentionSweep(d)
           \/ \E on \in BOOLEAN : Update(on)
           \/ \E w \in Workers, d \in Jobs : StartDeliver(w, d)
           \/ QueueStep
    PROVE  (\A w \in Workers : InDeliver(w)') /\ (\A d \in Jobs : Accounted(d)')
<1> USE DEF WInv, WTypeOK, QueueInv, TypeOK
<1>0. (\A w \in Workers : InDeliver(w)) /\ (\A d \in Jobs : Accounted(d))  BY DEF SendInv
<1>1. ASSUME NEW d \in Jobs, Dispatch(d) \/ Insert(d)
      PROVE  (\A w \in Workers : InDeliver(w)') /\ (\A e \in Jobs : Accounted(e)')
  <2>1. /\ status[d] = "absent" /\ status' = [status EXCEPT ![d] = "pending"]
        /\ UNCHANGED <<job, step, received, unsure>>
    BY <1>1 DEF Dispatch, Insert, Enqueue, vars, workerVars, deliver, seen
  <2>2. \A w \in Workers : step[w] # "off" => job[w] # d  BY <2>1, Inside
  <2>3. \A w \in Workers : InDeliver(w)'  BY <1>0, <2>1, <2>2, Inside DEF InDeliver
  <2>4. \A e \in Jobs : Accounted(e)'  BY <1>0, <2>1 DEF Accounted, Recording
  <2> QED  BY <2>3, <2>4
<1>2. ASSUME \/ \E d \in Jobs : EnqueueRequested(d) \/ RequestDies(d)
             \/ \E on \in BOOLEAN : Update(on)
      PROVE  (\A w \in Workers : InDeliver(w)') /\ (\A e \in Jobs : Accounted(e)')
  <2>1. UNCHANGED <<status, received, unsure, job, step>>
    BY <1>2 DEF EnqueueRequested, RequestDies, Update, Enqueue, vars, workerVars, rows,
       deliver, seen
  <2> QED  BY <2>1, NothingSent
<1>3. ASSUME NEW d \in Jobs, RetentionSweep(d)
      PROVE  (\A w \in Workers : InDeliver(w)') /\ (\A e \in Jobs : Accounted(e)')
  <2>1. UNCHANGED <<job, step>>  BY <1>3 DEF RetentionSweep, vars, deliver
  <2>2. ASSUME NEW w \in Workers, step[w] # "off" PROVE InDeliver(w)'
    <3>1. PICK e \in Jobs : job[w] = e  BY <2>2, Inside
    <3> QED  BY <1>0, <1>3, <2>1, <3>1 DEF RetentionSweep, InDeliver
  <2>3. ASSUME NEW w \in Workers, step[w] = "off" PROVE InDeliver(w)'
    BY <2>1, <2>3 DEF InDeliver
  <2>4. ASSUME NEW e \in Jobs PROVE Accounted(e)'
    BY <1>0, <1>3, <2>1, <2>4 DEF RetentionSweep, Accounted, Recording
  <2> QED  BY <2>2, <2>3, <2>4
<1>4. ASSUME NEW w \in Workers, NEW d \in Jobs, StartDeliver(w, d)
      PROVE  (\A v \in Workers : InDeliver(v)') /\ (\A e \in Jobs : Accounted(e)')
  <2>1. UNCHANGED <<status, received, unsure>> /\ step[w] = "off"
    BY <1>4 DEF StartDeliver, Claim, rows, seen
  <2>2. \A v \in Workers : \/ job'[v] = job[v] /\ step'[v] = step[v]
                           \/ step[v] # "record" /\ step'[v] \in {"off", "claim"}
    BY <1>4, <2>1 DEF StartDeliver, Claim
  <2> QED  BY <2>1, <2>2, NothingSent
<1>5. CASE QueueStep
  <2>1. UNCHANGED <<status, received, unsure, step>>  BY <1>5 DEF QueueStep, rows, seen, deliver
  <2>2. \A v \in Workers : job'[v] = job[v] \/ phase[v] = "finishing"
    BY <1>5 DEF QueueStep, BecomesDue, Cancel, Retry, Prune, LeaseExpires, Reclaim, workerVars,
       Finish, FinishFails, Idle
  <2>3. \A v \in Workers : \/ job'[v] = job[v] /\ step'[v] = step[v]
                           \/ step[v] # "record" /\ step'[v] \in {"off", "claim"}
    BY <2>1, <2>2
  <2> QED  BY <2>1, <2>3, NothingSent
<1> QED  BY <1>1, <1>2, <1>3, <1>4, <1>5

\* Steps of Deliver.
LEMMA SendInside ==
    ASSUME WInv, overruns = 0, NEW w \in Workers,
           DeliverStep(w) \/ StatementFails(w) \/ WorkerCrashes(w)
    PROVE  (\A v \in Workers : InDeliver(v)') /\ (\A e \in Jobs : Accounted(e)')
<1> USE DEF WInv, WTypeOK, QueueInv, TypeOK
<1>1. CASE WorkerCrashes(w) /\ step[w] = "off"
  <2>1. UNCHANGED <<status, received, unsure>> /\ step'[w] = "off"
    BY <1>1 DEF WorkerCrashes, Uncertain, At, rows
  <2>2. \A v \in Workers : \/ job'[v] = job[v] /\ step'[v] = step[v]
                           \/ step[v] # "record" /\ step'[v] \in {"off", "claim"}
    BY <1>1, <2>1 DEF WorkerCrashes, Crash, Idle
  <2> QED  BY <2>1, <2>2, NothingSent
<1>2. SUFFICES ASSUME ~(WorkerCrashes(w) /\ step[w] = "off")
               PROVE  (\A v \in Workers : InDeliver(v)') /\ (\A e \in Jobs : Accounted(e)')
  BY <1>1
<1>3. step[w] # "off"
  BY <1>2 DEF DeliverStep, ClaimDelivery, Post, RecordDelivered, MarkHealthy, RecordFailed,
     MarkUnhealthy, StatementFails, At
<1>4. PICK d \in Jobs : job[w] = d /\ d # NoJob  BY <1>3, Inside
<1>5. /\ InDeliver(w) /\ Accounted(d) /\ status[d] # "absent"
      /\ \A v \in Workers \ {w} : ~Recording(v, d)
  BY <1>3, <1>4, Inside, Alone DEF SendInv, Recording
<1>6. \A v \in Workers \ {w} : job'[v] = job[v] /\ step'[v] = step[v]
  BY DEF DeliverStep, ClaimDelivery, Post, RecordDelivered, MarkHealthy, RecordFailed,
     MarkUnhealthy, StatementFails, WorkerCrashes, Returns, HandlerEnds, Goto, vars, Crash, Idle
<1>7. job'[w] \in {d, NoJob}
  BY <1>4 DEF DeliverStep, ClaimDelivery, Post, RecordDelivered, MarkHealthy, RecordFailed,
     MarkUnhealthy, StatementFails, WorkerCrashes, Returns, HandlerEnds, Goto, vars, Crash, Idle
<1> DEFINE Fine == /\ \A e \in Jobs \ {d} : /\ status'[e] = status[e] /\ received'[e] = received[e]
                                            /\ unsure'[e] = unsure[e]
                   /\ InDeliver(w)'
                   /\ received'[d] <= unsure'[d] + 1
                   /\ \/ received'[d] <= unsure'[d]
                      \/ status'[d] \in {"delivered", "removed"}
                      \/ job'[w] = d /\ step'[w] = "record"
<1>8. SUFFICES Fine  BY <1>4, <1>6, <1>7, OneSent
<1>9. /\ received[d] <= unsure[d] + 1
      /\ received[d] <= unsure[d] \/ status[d] \in {"delivered", "removed"} \/ step[w] = "record"
  BY <1>5 DEF Accounted, Recording
<1>10. CASE ClaimDelivery(w)
  <2>1. UNCHANGED <<status, received, unsure, job>> /\ step[w] = "claim"
    BY <1>10 DEF ClaimDelivery, At, Returns, HandlerEnds, vars, seen
  <2>2. \/ step'[w] = "off"
        \/ step'[w] = "post" /\ status[d] \in Open
    BY <1>4, <1>10 DEF ClaimDelivery, Claimable, Returns
  <2> QED  BY <1>4, <1>9, <2>1, <2>2 DEF InDeliver, Open
<1>11. ASSUME NEW answer \in {"accepted", "lost", "refused"}, Post(w, answer) PROVE Fine
  <2>1. /\ UNCHANGED <<status, job>> /\ step[w] = "post"
        /\ step'[w] = IF answer = "accepted" THEN "record" ELSE "fail"
    BY <1>11 DEF Post, At, Goto, vars, rows
  <2>2. received[d] <= unsure[d] /\ status[d] \in Open \union {"removed"}
    BY <1>4, <1>5, <2>1 DEF InDeliver
  <2>3. /\ received' = [received EXCEPT ![d] = IF answer # "refused" THEN @ + 1 ELSE @]
        /\ unsure' = [unsure EXCEPT ![d] = IF answer = "lost" THEN @ + 1 ELSE @]
    BY <1>4, <1>11 DEF Post
  <2>4. InDeliver(w)'  BY <1>4, <2>1, <2>2 DEF InDeliver
  <2> QED  BY <1>4, <2>1, <2>2, <2>3, <2>4
<1>12. CASE RecordDelivered(w)
  <2>1. /\ UNCHANGED <<received, unsure, job>> /\ step'[w] = "healthy" /\ step[w] = "record"
        /\ Write(d, "delivered", try[w])
    BY <1>4, <1>12 DEF RecordDelivered, At, Goto, vars, seen
  <2>2. status'[d] \in {"delivered", "removed"} /\ \A e \in Jobs \ {d} : status'[e] = status[e]
    BY <2>1 DEF Write
  <2> QED  BY <1>4, <1>9, <2>1, <2>2 DEF InDeliver
<1>13. CASE RecordFailed(w)
  <2>1. /\ UNCHANGED <<received, unsure, job>> /\ step'[w] = "unhealthy" /\ step[w] = "fail"
        /\ Write(d, IF Exhausted(w) THEN "exhausted" ELSE "failed", try[w])
    BY <1>4, <1>13 DEF RecordFailed, At, Goto, vars, seen
  <2>2. /\ status'[d] \in {"failed", "exhausted", "removed"}
        /\ status[d] = "removed" => status'[d] = "removed"
        /\ \A e \in Jobs \ {d} : status'[e] = status[e]
    BY <2>1 DEF Write
  <2>3. received[d] <= unsure[d] \/ status[d] = "removed"
    BY <1>4, <1>5, <1>9, <2>1 DEF InDeliver, Open
  <2> QED  BY <1>4, <1>9, <2>1, <2>2, <2>3 DEF InDeliver
<1>14. CASE MarkHealthy(w) \/ MarkUnhealthy(w)
  <2>1. UNCHANGED <<status, received, unsure, job>> /\ step'[w] = "off" /\ step[w] # "record"
    BY <1>14 DEF MarkHealthy, MarkUnhealthy, At, Returns, HandlerEnds, rows, seen
  <2> QED  BY <1>9, <2>1 DEF InDeliver
<1>15. CASE StatementFails(w) \/ WorkerCrashes(w)
  <2>1. UNCHANGED <<status, received>> /\ step'[w] = "off" /\ Uncertain(w)
    BY <1>15 DEF StatementFails, WorkerCrashes, Returns, rows
  <2>2. unsure' = IF step[w] = "record" THEN [unsure EXCEPT ![d] = @ + 1] ELSE unsure
    BY <1>4, <2>1 DEF Uncertain, At
  <2>3. InDeliver(w)'  BY <2>1 DEF InDeliver
  <2> QED  BY <1>9, <2>1, <2>2, <2>3
<1> QED  BY <1>10, <1>11, <1>12, <1>13, <1>14, <1>15 DEF DeliverStep

\* Every step keeps the account of what was sent.
LEMMA DeliverySends == ASSUME WInv, WNext PROVE SendInv'
<1> SUFFICES ASSUME overruns' = 0
             PROVE  (\A w \in Workers : InDeliver(w)') /\ (\A d \in Jobs : Accounted(d)')
  BY DEF SendInv
<1>1. overruns = 0  BY OverrunsStay
<1> QED  BY <1>1, SendOutside, SendInside DEF WNext

-----------------------------------------------------------------------------
(* Who will send an open delivery *)

\* The parts of CarryInv, for one worker and for one delivery.
WorkerCarries(w) ==
    job[w] # NoJob =>
        /\ copy[w] = attempt[job[w]]
        /\ status[job[w]] \in Open => WorkInStep(w)
JobCarries(d) ==
    /\ state[d] = "running" => \E w \in Workers : job[w] = d
    /\ status[d] \in Open => InStep(d)
Carries == (\A w \in Workers : WorkerCarries(w)) /\ (\A d \in Jobs : JobCarries(d))

\* Faults are never undone, so a step that ends without any made none.
LEMMA FaultsStay ==
    ASSUME WInv, WNext, NoFaults'
    PROVE  /\ overruns = 0 /\ Carries
           /\ ~\E d \in Jobs : RequestDies(d)
           /\ ~\E w \in Workers : StatementFails(w) \/ WorkerCrashes(w) \/ FinishFails(w)
<1>1. WTypeOK'  BY DeliveryTypes, DeliveryIsJobStep, QueueInvStep DEF WInv, QueueInv
<1>2. /\ faults \in Nat /\ dbFaults \in Nat /\ overruns \in Nat
      /\ faults' \in Nat /\ dbFaults' \in Nat /\ overruns' \in Nat
  BY <1>1, DeliveryAssumption DEF WInv, QueueInv, WTypeOK, TypeOK
<1>3. faults' = 0 /\ dbFaults' = 0 /\ overruns' = 0
  <2>1. faults' + dbFaults' + overruns' = 0  BY DEF NoFaults
  <2>2. \A k, m, n \in Nat : k + m + n = 0 => k = 0 /\ m = 0 /\ n = 0  OBVIOUS
  <2> QED  BY <1>2, <2>1, <2>2
<1>4. overruns = 0  BY <1>3, OverrunsStay
<1>5. /\ dbFaults <= dbFaults'
      /\ ~\E d \in Jobs : RequestDies(d)
      /\ ~\E w \in Workers : StatementFails(w)
  <2>1. ASSUME NEW d \in Jobs, RequestDies(d) PROVE FALSE
    BY <1>2, <1>3, <2>1 DEF RequestDies
  <2>2. ASSUME NEW w \in Workers, StatementFails(w) PROVE FALSE
    BY <1>2, <1>3, <2>2 DEF StatementFails
  <2>3. dbFaults' = dbFaults
    BY <2>1, <2>2 DEF WNext, DeliverStep, Dispatch, Insert, EnqueueRequested, RetentionSweep,
       Update, StartDeliver, ClaimDelivery, Post, RecordDelivered, MarkHealthy, RecordFailed,
       MarkUnhealthy, WorkerCrashes, QueueStep
  <2> QED  BY <1>2, <2>1, <2>2, <2>3
<1>6. faults <= faults' /\ ~\E w \in Workers : Crash(w) \/ FinishFails(w)
  <2>1. ASSUME NEW w \in Workers, Crash(w) \/ FinishFails(w) PROVE FALSE
    BY <1>2, <1>3, <2>1 DEF Crash, FinishFails
  <2>2. [Next]_vars  BY DeliveryIsJobStep
  <2>3. faults' = faults
    BY <2>1, <2>2 DEF Next, vars, Enqueue, BecomesDue, Cancel, Retry, Prune, LeaseExpires,
       Reclaim, Claim, HandlerEnds, Finish, budgets
  <2> QED  BY <1>2, <2>1, <2>3
<1>7. NoFaults  BY <1>2, <1>3, <1>4, <1>5, <1>6 DEF NoFaults
<1>8. Carries  BY <1>7 DEF WInv, CarryInv, Carries, WorkerCarries, JobCarries
<1> QED  BY <1>4, <1>5, <1>6, <1>8 DEF WorkerCrashes

\* A worker and a delivery that a step leaves alone stay as they are.
LEMMA WorkerUndisturbed ==
    ASSUME NEW w \in Workers, NEW d, WorkerCarries(w), job[w] = d, job'[w] = d,
           copy'[w] = copy[w], step'[w] = step[w], try'[w] = try[w], phase'[w] = phase[w],
           outcome'[w] = outcome[w], attempt'[d] = attempt[d],
           status'[d] \in Open => status[d] \in Open /\ tries'[d] = tries[d]
    PROVE  WorkerCarries(w)'
BY DEF WorkerCarries, WorkInStep

LEMMA JobUndisturbed ==
    ASSUME NEW d \in Jobs, JobCarries(d), state'[d] = state[d], attempt'[d] = attempt[d],
           status'[d] \in Open => /\ status[d] \in Open /\ tries'[d] = tries[d]
                                  /\ d \in requests => d \in requests',
           \A w \in Workers : job[w] = d => job'[w] = job[w] /\ step'[w] = step[w]
    PROVE  JobCarries(d)'
<1>1. \A w \in Workers : Claiming(w, d) => Claiming(w, d)'  BY DEF Claiming
<1>2. Carried(d) /\ status'[d] \in Open => Carried(d)'  BY DEF Carried
<1> QED  BY <1>1, <1>2 DEF JobCarries, InStep

\* New deliveries, removed ones, and what an admin does to the endpoint.
LEMMA CarryRows ==
    ASSUME WInv, overruns = 0, Carries,
           \/ \E d \in Jobs : Dispatch(d) \/ Insert(d) \/ EnqueueRequested(d) \/ RetentionSweep(d)
           \/ \E on \in BOOLEAN : Update(on)
    PROVE  Carries'
<1> USE DEF WInv, WTypeOK, QueueInv, TypeOK
<1>1. UNCHANGED <<attempt, job, copy, phase, outcome, step, try>>
  BY DEF Dispatch, Insert, EnqueueRequested, RetentionSweep, Update, Enqueue, vars,
     workerVars, deliver
<1>2. ASSUME NEW d \in Jobs, Dispatch(d) \/ Insert(d) \/ EnqueueRequested(d) PROVE Carries'
  <2>1. /\ tries' = tries /\ state[d] = "absent"
        /\ \A e \in Jobs \ {d} : /\ state'[e] = state[e] /\ status'[e] = status[e]
                                 /\ e \in requests <=> e \in requests'
    BY <1>2 DEF Dispatch, Insert, EnqueueRequested, Enqueue, Existing, vars
  <2>2. \A w \in Workers : job[w] # d  BY <2>1, QueueAssumption DEF Existing
  <2>3. ASSUME NEW w \in Workers PROVE WorkerCarries(w)'
    <3>1. CASE job[w] = NoJob  BY <1>1, <3>1 DEF WorkerCarries
    <3>2. CASE job[w] # NoJob
      <4>1. PICK e \in Jobs : job[w] = e /\ e # d  BY <2>2, <3>2
      <4> QED  BY <1>1, <2>1, <4>1, WorkerUndisturbed DEF Carries
    <3> QED  BY <3>1, <3>2
  <2>4. ASSUME NEW e \in Jobs \ {d} PROVE JobCarries(e)'
    BY <1>1, <2>1, JobUndisturbed DEF Carries
  <2>5. JobCarries(d)'
    <3>1. attempt'[d] = 0  BY <1>1, <2>1 DEF Existing
    <3>2. tries'[d] \in Nat  BY <2>1
    <3>3. state'[d] # "running" /\ Carried(d)'
      BY <1>2, <2>1 DEF Dispatch, Insert, EnqueueRequested, Enqueue, vars, Carried, Live
    <3> QED  BY <3>1, <3>2, <3>3 DEF JobCarries, InStep
  <2> QED  BY <2>3, <2>4, <2>5 DEF Carries
<1>3. ASSUME \/ \E d \in Jobs : RetentionSweep(d)
             \/ \E on \in BOOLEAN : Update(on)
      PROVE  Carries'
  <2>1. /\ state' = state /\ requests' = requests
        /\ \A e \in Jobs : status'[e] \in Open => status[e] \in Open /\ tries'[e] = tries[e]
    BY <1>3 DEF RetentionSweep, Update, rows, vars, Open
  <2>2. ASSUME NEW w \in Workers PROVE WorkerCarries(w)'
    <3>1. CASE job[w] = NoJob  BY <1>1, <3>1 DEF WorkerCarries
    <3>2. CASE job[w] # NoJob
      <4>1. PICK e \in Jobs : job[w] = e  BY <3>2
      <4> QED  BY <1>1, <2>1, <4>1, WorkerUndisturbed DEF Carries
    <3> QED  BY <3>1, <3>2
  <2>3. ASSUME NEW e \in Jobs PROVE JobCarries(e)'
    BY <1>1, <2>1, JobUndisturbed DEF Carries
  <2> QED  BY <2>2, <2>3 DEF Carries
<1> QED  BY <1>2, <1>3

\* Steps of the queue outside the handlers.
LEMMA CarryQueue ==
    ASSUME WInv, overruns = 0, Carries, QueueStep,
           ~\E w \in Workers : FinishFails(w), overruns' = 0
    PROVE  Carries'
<1> USE DEF WInv, WTypeOK, QueueInv, TypeOK
<1>0. UNCHANGED <<status, tries, requests, step, try>>  BY DEF QueueStep, rows, deliver
<1>1. ASSUME NEW d \in Jobs,
             BecomesDue(d) \/ Cancel(d) \/ Retry(d) \/ Prune(d) \/ LeaseExpires(d) \/ Reclaim(d)
      PROVE  Carries'
  <2>1. /\ UNCHANGED <<job, copy, phase, outcome>>
        /\ \A e \in Jobs \ {d} : state'[e] = state[e] /\ attempt'[e] = attempt[e]
    BY <1>1 DEF BecomesDue, Cancel, Retry, Prune, LeaseExpires, Reclaim, workerVars
  <2>2. ~LeaseExpires(d) /\ ~Reclaim(d)
    <3>1. state[d] = "running" => lease[d] = "live" /\ \E w \in Workers : job[w] = d
      BY QueueAssumption, Alone DEF Carries, JobCarries
    <3> QED  BY <3>1 DEF LeaseExpires, Reclaim
  <2>3. /\ attempt'[d] \in {attempt[d], 0}
        /\ attempt'[d] = attempt[d] \/ \A w \in Workers : job[w] # d
    <3>1. state[d] \in {"dead", "cancelled"} => \A w \in Workers : job[w] # d
      BY QueueAssumption, Alone
    <3> QED  BY <1>1, <2>2, <3>1 DEF BecomesDue, Cancel, Retry, Prune
  <2>4. /\ state'[d] = "running" => state[d] = "running"
        /\ Carried(d) \/ state[d] \in {"cancelled", "pruned"} =>
              Carried(d)' \/ state'[d] \in {"cancelled", "pruned"}
        /\ state'[d] = state[d] \/ state'[d] \in {"cancelled", "pruned", "pending"}
    BY <1>0, <1>1, <2>2 DEF BecomesDue, Cancel, Retry, Prune, Carried, Live
  <2>5. ASSUME NEW w \in Workers PROVE WorkerCarries(w)'
    <3>1. CASE job[w] = NoJob  BY <2>1, <3>1 DEF WorkerCarries
    <3>2. CASE job[w] # NoJob
      <4>1. PICK e \in Jobs : job[w] = e  BY <3>2
      <4> QED  BY <1>0, <2>1, <2>3, <4>1, WorkerUndisturbed DEF Carries
    <3> QED  BY <3>1, <3>2
  <2>6. ASSUME NEW e \in Jobs \ {d} PROVE JobCarries(e)'
    BY <1>0, <2>1, JobUndisturbed DEF Carries
  <2>7. JobCarries(d)'
    <3>1. \A w \in Workers : Claiming(w, d) => Claiming(w, d)'  BY <1>0, <2>1 DEF Claiming
    <3>2. tries[d] \in Nat /\ attempt[d] \in Nat  OBVIOUS
    <3> QED  BY <1>0, <2>1, <2>3, <2>4, <3>1, <3>2 DEF Carries, JobCarries, InStep
  <2> QED  BY <2>5, <2>6, <2>7 DEF Carries
<1>2. ASSUME NEW w \in Workers, Finish(w) PROVE Carries'
  <2>1. PICK d \in Jobs : job[w] = d /\ d # NoJob
    BY <1>2, QueueAssumption DEF Finish, BusyWithAJob
  <2>2. step[w] = "off" /\ Idle(w) /\ UNCHANGED <<key, attempt>>  BY <1>2 DEF Finish
  <2>3. state[d] = "running" /\ \A v \in Workers \ {w} : job[v] # d  BY <2>1, Alone
  <2>4. KeyFree(d, key[d])  BY <2>3 DEF KeyFree, OneLivePerKey, Live
  <2>5. state' = [state EXCEPT ![d] = Verdict(w)]
    BY <1>2, <2>1, <2>3, <2>4 DEF Finish, CanFinish
  <2>6. status[d] \in Open => Verdict(w) = "pending"
    <3>1. SUFFICES ASSUME status[d] \in Open PROVE Verdict(w) = "pending"  OBVIOUS
    <3>2. /\ copy[w] = attempt[d] /\ outcome[w] = "error" /\ tries[d] < MaxAttempts
      BY <1>2, <2>1, <3>1 DEF Carries, WorkerCarries, WorkInStep, Finish
    <3>3. attempt[d] <= tries[d]
      BY <2>1, <2>2, <2>3, <3>1 DEF Carries, JobCarries, InStep, Claiming
    <3>4. attempt[d] \in Nat /\ tries[d] \in Nat /\ MaxAttempts \in Nat  BY QueueAssumption
    <3> QED  BY <3>2, <3>3, <3>4 DEF Verdict
  <2>7. ASSUME NEW v \in Workers PROVE WorkerCarries(v)'
    <3>1. CASE v = w  BY <2>2, <3>1 DEF WorkerCarries, Idle
    <3>2. CASE v # w /\ job[v] = NoJob  BY <2>2, <3>2 DEF WorkerCarries, Idle
    <3>3. CASE v # w /\ job[v] # NoJob
      <4>1. PICK e \in Jobs : job[v] = e  BY <3>3
      <4> QED  BY <1>0, <2>2, <3>3, <4>1, WorkerUndisturbed DEF Carries, Idle
    <3> QED  BY <3>1, <3>2, <3>3
  <2>8. ASSUME NEW e \in Jobs \ {d} PROVE JobCarries(e)'
    <3>1. \A v \in Workers : job[v] = e => job'[v] = job[v]  BY <2>1, <2>2 DEF Idle
    <3> QED  BY <1>0, <2>2, <2>5, <3>1, JobUndisturbed DEF Carries
  <2>9. JobCarries(d)'
    <3>1. state'[d] = Verdict(w) /\ Verdict(w) # "running"  BY <2>5 DEF Verdict
    <3>2. status[d] \in Open => attempt[d] <= tries[d]
      BY <2>1, <2>2, <2>3 DEF Carries, JobCarries, InStep, Claiming
    <3>3. tries[d] \in Nat /\ attempt[d] \in Nat  OBVIOUS
    <3> QED  BY <1>0, <2>2, <2>6, <3>1, <3>2, <3>3 DEF JobCarries, InStep, Carried, Live
  <2> QED  BY <2>7, <2>8, <2>9 DEF Carries
<1> QED  BY <1>1, <1>2 DEF QueueStep

\* Steps of Deliver and the claim of its job.
LEMMA CarryDeliver ==
    ASSUME WInv, overruns = 0, Carries, NEW w \in Workers,
           (\E d \in Jobs : StartDeliver(w, d)) \/ DeliverStep(w)
    PROVE  Carries'
<1> USE DEF WInv, WTypeOK, QueueInv, TypeOK
<1>1. ASSUME NEW d \in Jobs, StartDeliver(w, d) PROVE Carries'
  <2>1. /\ UNCHANGED <<status, tries, requests, try>> /\ step' = [step EXCEPT ![w] = "claim"]
        /\ state[d] = "pending" /\ state' = [state EXCEPT ![d] = "running"]
        /\ attempt' = [attempt EXCEPT ![d] = @ + 1] /\ copy' = [copy EXCEPT ![w] = attempt[d] + 1]
        /\ job' = [job EXCEPT ![w] = d] /\ phase' = [phase EXCEPT ![w] = "running"]
        /\ outcome' = outcome /\ phase[w] = "idle"
    BY <1>1 DEF StartDeliver, Claim, rows
  <2>2. job[w] = NoJob /\ \A v \in Workers : job[v] # d
    BY <2>1, QueueAssumption, Alone DEF BusyWithAJob
  <2>3. ASSUME NEW v \in Workers \ {w} PROVE WorkerCarries(v)'
    <3>1. CASE job[v] = NoJob  BY <2>1, <3>1 DEF WorkerCarries
    <3>2. CASE job[v] # NoJob
      <4>1. PICK e \in Jobs : job[v] = e /\ e # d  BY <2>2, <3>2
      <4> QED  BY <2>1, <4>1, WorkerUndisturbed DEF Carries
    <3> QED  BY <3>1, <3>2
  <2>4. WorkerCarries(w)'  BY <2>1 DEF WorkerCarries, WorkInStep
  <2>5. ASSUME NEW e \in Jobs \ {d} PROVE JobCarries(e)'
    <3>1. \A v \in Workers : job[v] = e => job'[v] = job[v] /\ step'[v] = step[v]
      BY <2>1, <2>2, QueueAssumption
    <3> QED  BY <2>1, <3>1, JobUndisturbed DEF Carries
  <2>6. JobCarries(d)'
    <3>1. Claiming(w, d)' /\ job'[w] = d  BY <2>1 DEF Claiming
    <3>2. status[d] \in Open => attempt[d] <= tries[d]
      BY <2>2 DEF Carries, JobCarries, InStep, Claiming
    <3>3. attempt'[d] = attempt[d] + 1 /\ Carried(d)' /\ attempt[d] \in Nat /\ tries[d] \in Nat
      BY <2>1 DEF Carried, Live
    <3> QED  BY <2>1, <3>1, <3>2, <3>3 DEF JobCarries, InStep
  <2> QED  BY <2>3, <2>4, <2>5, <2>6 DEF Carries
<1>2. SUFFICES ASSUME DeliverStep(w) PROVE Carries'  BY <1>1
<1>3. step[w] # "off"
  BY <1>2 DEF DeliverStep, ClaimDelivery, Post, RecordDelivered, MarkHealthy, RecordFailed,
     MarkUnhealthy, At
<1>4. PICK d \in Jobs : job[w] = d /\ d # NoJob  BY <1>3, Inside
<1>5. UNCHANGED <<state, attempt, job, copy, requests>>
  BY <1>2 DEF DeliverStep, ClaimDelivery, Post, RecordDelivered, MarkHealthy, RecordFailed,
     MarkUnhealthy, Returns, HandlerEnds, Goto, vars, rowVars, rows
<1>6. \A v \in Workers \ {w} : /\ step'[v] = step[v] /\ try'[v] = try[v] /\ phase'[v] = phase[v]
                               /\ outcome'[v] = outcome[v]
  BY <1>2 DEF DeliverStep, ClaimDelivery, Post, RecordDelivered, MarkHealthy, RecordFailed,
     MarkUnhealthy, Returns, HandlerEnds, Goto, vars
<1>7. \A e \in Jobs \ {d} : status'[e] = status[e] /\ tries'[e] = tries[e]
  BY <1>2, <1>4 DEF DeliverStep, ClaimDelivery, Post, RecordDelivered, MarkHealthy, RecordFailed,
     MarkUnhealthy, Write, rows
<1>8. phase[w] = "running" /\ state[d] = "running" /\ \A v \in Workers \ {w} : job[v] # d
  BY <1>3, <1>4, Inside, Alone
<1>9. ASSUME NEW v \in Workers \ {w} PROVE WorkerCarries(v)'
  <2>1. CASE job[v] = NoJob  BY <1>5, <2>1 DEF WorkerCarries
  <2>2. CASE job[v] # NoJob
    <3>1. PICK e \in Jobs : job[v] = e /\ e # d  BY <1>8, <2>2
    <3> QED  BY <1>5, <1>6, <1>7, <3>1, WorkerUndisturbed DEF Carries
  <2> QED  BY <2>1, <2>2
<1>10. ASSUME NEW e \in Jobs \ {d} PROVE JobCarries(e)'
  BY <1>4, <1>5, <1>6, <1>7, JobUndisturbed DEF Carries
<1>11. /\ status[d] \in Open => WorkInStep(w) /\ InStep(d)
       /\ tries[d] \in Nat /\ attempt[d] \in Nat /\ MaxAttempts \in Nat
  BY <1>4, QueueAssumption DEF Carries, WorkerCarries, JobCarries
<1>12. SUFFICES status'[d] \in Open =>
                  /\ WorkInStep(w)'
                  /\ attempt[d] <= tries'[d]
  <2>1. WorkerCarries(w)'
    <3>1. copy'[w] = attempt'[d] /\ job'[w] = d
      BY <1>4, <1>5 DEF Carries, WorkerCarries
    <3> QED  BY <1>12, <3>1 DEF WorkerCarries
  <2>2. JobCarries(d)'
    <3>1. Carried(d)'  BY <1>5, <1>8 DEF Carried, Live
    <3>2. tries'[d] \in Nat
      <4>1. tries'[d] \in {tries[d], tries[d] + 1, try[w]}
        BY <1>2, <1>4 DEF DeliverStep, ClaimDelivery, Post, RecordDelivered, MarkHealthy,
           RecordFailed, MarkUnhealthy, Write, rows
      <4> QED  BY <1>11, <4>1
    <3>3. attempt'[d] = attempt[d] /\ job'[w] = d  BY <1>4, <1>5
    <3> QED  BY <1>11, <1>12, <3>1, <3>2, <3>3 DEF JobCarries, InStep
  <2> QED  BY <1>9, <1>10, <2>1, <2>2 DEF Carries
<1>13. InDeliver(w)  BY DEF SendInv
<1>14. status[d] \in Open /\ step[w] # "claim" => attempt[d] <= tries[d]
  BY <1>8, <1>11 DEF InStep, Claiming
<1>15. CASE ClaimDelivery(w)
  <2>1. CASE status[d] \in Open
    <3>1. /\ tries'[d] = tries[d] + 1 /\ try'[w] = tries[d] + 1 /\ step'[w] = "post"
          /\ phase' = phase
      BY <1>4, <1>15, <2>1 DEF ClaimDelivery, Claimable, vars
    <3> QED  BY <1>4, <1>5, <1>8, <1>11, <2>1, <3>1 DEF WorkInStep, InStep
  <2>2. CASE status[d] \notin Open  BY <1>15, <2>2 DEF ClaimDelivery
  <2> QED  BY <2>1, <2>2
<1>16. ASSUME NEW answer \in {"accepted", "lost", "refused"}, Post(w, answer)
       PROVE  status'[d] \in Open => WorkInStep(w)' /\ attempt[d] <= tries'[d]
  <2>1. /\ UNCHANGED <<status, tries, try, phase, job>> /\ step[w] = "post"
        /\ step'[w] \in {"record", "fail"}
    BY <1>16 DEF Post, At, Goto, rows, vars
  <2> QED  BY <1>4, <1>8, <1>11, <1>14, <2>1 DEF WorkInStep
<1>17. CASE RecordDelivered(w)
  <2>1. step[w] = "record" /\ Write(d, "delivered", try[w])
    BY <1>4, <1>17 DEF RecordDelivered, At
  <2>2. status'[d] \notin Open  BY <2>1 DEF Write, Open
  <2> QED  BY <2>2
<1>18. CASE MarkHealthy(w)
  <2>1. status' = status /\ step[w] = "healthy"  BY <1>18 DEF MarkHealthy, At, rows
  <2> QED  BY <1>4, <1>13, <2>1 DEF InDeliver, Open
<1>19. CASE RecordFailed(w)
  <2>1. /\ step[w] = "fail" /\ step'[w] = "unhealthy" /\ phase' = phase /\ try' = try
        /\ Write(d, IF Exhausted(w) THEN "exhausted" ELSE "failed", try[w])
    BY <1>4, <1>19 DEF RecordFailed, At, Goto, vars
  <2>2. SUFFICES ASSUME status'[d] \in Open
                 PROVE  WorkInStep(w)' /\ attempt[d] <= tries'[d]
    OBVIOUS
  <2>3. status[d] # "removed" /\ ~Exhausted(w) /\ tries'[d] = try[w]
    BY <2>1, <2>2 DEF Write, Open
  <2>4. status[d] \in Open  BY <1>4, <1>13, <2>1, <2>3 DEF InDeliver
  <2>5. try[w] = tries[d]  BY <1>4, <1>11, <2>1, <2>4 DEF WorkInStep
  <2>6. try[w] < MaxAttempts  BY <1>11, <2>3, <2>5 DEF Exhausted
  <2> QED  BY <1>4, <1>5, <1>8, <1>14, <2>1, <2>3, <2>4, <2>5, <2>6 DEF WorkInStep
<1>20. CASE MarkUnhealthy(w)
  <2>1. /\ UNCHANGED <<status, tries>> /\ step[w] = "unhealthy" /\ step'[w] = "off"
        /\ outcome'[w] = IF Exhausted(w) THEN "ok" ELSE "error"
    BY <1>20 DEF MarkUnhealthy, At, Returns, HandlerEnds, rows
  <2>2. SUFFICES ASSUME status[d] \in Open
                 PROVE  WorkInStep(w)' /\ attempt[d] <= tries[d]
    BY <2>1
  <2>3. try[w] = tries[d] /\ tries[d] < MaxAttempts
    BY <1>4, <1>11, <2>1, <2>2 DEF WorkInStep
  <2>4. outcome'[w] = "error"  BY <1>11, <2>1, <2>3 DEF Exhausted
  <2> QED  BY <1>4, <1>5, <1>14, <2>1, <2>2, <2>3, <2>4 DEF WorkInStep
<1> QED  BY <1>2, <1>15, <1>16, <1>17, <1>18, <1>19, <1>20 DEF DeliverStep

\* Every step keeps open deliveries and their jobs in step.
LEMMA DeliveryCarries == ASSUME WInv, WNext PROVE CarryInv'
<1> SUFFICES ASSUME NoFaults' PROVE Carries'
  BY DEF CarryInv, Carries, WorkerCarries, JobCarries
<1>1. overruns' = 0
  <2>1. WTypeOK'  BY DeliveryTypes, DeliveryIsJobStep, QueueInvStep DEF WInv, QueueInv
  <2>2. faults' \in Nat /\ dbFaults' \in Nat /\ overruns' \in Nat
    BY <2>1, DeliveryAssumption DEF WTypeOK, TypeOK
  <2>3. faults' + dbFaults' + overruns' = 0  BY DEF NoFaults
  <2>4. \A k, m, n \in Nat : k + m + n = 0 => n = 0  OBVIOUS
  <2> QED  BY <2>2, <2>3, <2>4
<1> QED
  BY <1>1, FaultsStay, CarryRows, CarryQueue, CarryDeliver DEF WNext

-----------------------------------------------------------------------------
(* The theorems *)

\* Every step preserves the inductive invariant.
LEMMA DeliveryInv == WInv /\ [WNext]_wvars => WInv'
<1> SUFFICES ASSUME WInv, [WNext]_wvars PROVE WInv'  OBVIOUS
<1>1. CASE WNext
  <2>1. QueueInv'  BY <1>1, DeliveryIsJobStep, QueueInvStep DEF WInv
  <2>2. WTypeOK'  BY <1>1, <2>1, DeliveryTypes DEF QueueInv
  <2> QED  BY <1>1, <2>1, <2>2, DeliveryExisting, DeliverySends, DeliveryCarries DEF WInv
<1>2. CASE UNCHANGED wvars
  <2>1. QueueInv'  BY <1>2, QueueInvStep DEF WInv, wvars
  <2>2. WTypeOK' /\ Existing'  BY <1>2, <2>1 DEF WInv, WTypeOK, Existing, QueueInv, wvars, vars
  <2>3. SendInv'  BY <1>2 DEF WInv, SendInv, InDeliver, Accounted, Recording, wvars, vars
  <2>4. CarryInv'
    BY <1>2 DEF WInv, CarryInv, NoFaults, WorkInStep, InStep, Carried, Claiming, wvars, vars
  <2> QED  BY <2>1, <2>2, <2>3, <2>4 DEF WInv
<1> QED  BY <1>1, <1>2

\* The inductive invariant holds in every reachable state.
THEOREM DeliveryInvariant == WSpec => []WInv
BY DeliveryInit, DeliveryInv, PTL DEF WSpec

\* Deliveries are a use of the job queue: whatever Deliver, the admin and the faults
\* do, their jobs go through steps of the queue only, so all that is proved of the
\* queue holds of deliveries.
THEOREM DeliveriesRunOnTheQueue == WSpec => Spec
<1>1. WInit => Init  BY DEF WInit
<1>2. [WNext]_wvars => [Next]_vars  BY DeliveryIsJobStep DEF wvars
<1> QED  BY <1>1, <1>2, PTL DEF WSpec, Spec

\* Deliveries, endpoint and workers keep their types; a worker is in Deliver exactly
\* while its job's handler runs; a delivery awaiting its enqueue is pending.
THEOREM DeliveryTypeOK == WSpec => []WTypeOK
<1>1. WInv => WTypeOK  BY DEF WInv
<1> QED  BY <1>1, DeliveryInvariant, PTL

\* While every lease outlasts its Deliver, the endpoint accepts a delivery once, and
\* once more for each acceptance that went unrecorded, through any number of crashes,
\* failing statements, reclaims and retries.
THEOREM NotSentInVain == WSpec => []NoNeedlessResend
<1>1. WInv => NoNeedlessResend
  <2> SUFFICES ASSUME WInv, overruns = 0, NEW d \in Jobs PROVE received[d] <= 1 + unsure[d]
    BY DEF NoNeedlessResend
  <2>1. received[d] <= unsure[d] + 1 /\ unsure[d] \in Nat
    BY DEF WInv, SendInv, Accounted, WTypeOK
  <2> QED  BY <2>1
<1> QED  BY <1>1, DeliveryInvariant, PTL

\* Without faults a delivery that is still to be sent has a job that will send it,
\* unless an admin cancelled that job: the job's budget never ends before the
\* delivery's, although the two are counted apart.
THEOREM OpenOnesAreCarried == WSpec => []NoneStranded
<1>1. WInv => NoneStranded  BY DEF WInv, CarryInv, NoFaults, InStep, NoneStranded
<1> QED  BY <1>1, DeliveryInvariant, PTL

\* While every lease outlasts its Deliver, no delivery is reopened once delivered or
\* given up, although Deliver's writes do not look at the status they overwrite.
THEOREM SettledOnesStay == WSpec => SettledStays
<1> DEFINE Kept == overruns = 0 => \A d \in Jobs :
                     status[d] \in {"delivered", "exhausted"} => status'[d] \in {status[d], "removed"}
<1>1. WInv /\ [WNext]_wvars => [Kept]_wvars
  <2> SUFFICES ASSUME WInv, WNext, overruns = 0, NEW d \in Jobs,
                      status[d] \in {"delivered", "exhausted"}
               PROVE  status'[d] \in {status[d], "removed"}
    OBVIOUS
  <2> USE DEF WInv, WTypeOK
  <2>1. ASSUME NEW e \in Jobs, Dispatch(e) \/ Insert(e) \/ EnqueueRequested(e) \/ RequestDies(e)
                               \/ RetentionSweep(e)
        PROVE  status'[d] \in {status[d], "removed"}
    BY <2>1 DEF Dispatch, Insert, EnqueueRequested, RequestDies, RetentionSweep
  <2>2. ASSUME NEW w \in Workers, RecordDelivered(w) \/ RecordFailed(w)
        PROVE  status'[d] \in {status[d], "removed"}
    <3>1. step[w] \in {"record", "fail"}  BY <2>2 DEF RecordDelivered, RecordFailed, At
    <3>2. job[w] \in Jobs /\ status[job[w]] \in Open \union {"removed"}
      BY <3>1, Inside DEF SendInv, InDeliver
    <3>3. job[w] # d  BY <3>2 DEF Open
    <3> QED  BY <2>2, <3>2, <3>3 DEF RecordDelivered, RecordFailed, Write
  <2>3. ASSUME \/ \E on \in BOOLEAN : Update(on)
               \/ \E w \in Workers :
                     \/ \E e \in Jobs : StartDeliver(w, e)
                     \/ ClaimDelivery(w) \/ \E answer \in {"accepted", "lost", "refused"} : Post(w, answer)
                     \/ MarkHealthy(w) \/ MarkUnhealthy(w) \/ StatementFails(w) \/ WorkerCrashes(w)
               \/ QueueStep
        PROVE  status' = status
    BY <2>3 DEF Update, StartDeliver, ClaimDelivery, Post, MarkHealthy, MarkUnhealthy,
       StatementFails, WorkerCrashes, QueueStep, rows
  <2> QED  BY <2>1, <2>2, <2>3 DEF WNext, DeliverStep
<1> QED  BY <1>1, DeliveryInvariant, PTL DEF WSpec, SettledStays

=============================================================================
