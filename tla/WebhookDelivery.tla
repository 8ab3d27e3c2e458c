-------------------------- MODULE WebhookDelivery --------------------------
(***************************************************************************)
(* internal/webhook/service.go over the job queue: the deliveries of one   *)
(* endpoint.  A delivery is a row of its own; its job carries its id, so a *)
(* delivery and its job share a name here, and the dedupe key of the job   *)
(* is the delivery.                                                        *)
(*                                                                         *)
(* Deliver runs as the job's handler, in steps: claim the delivery, POST,  *)
(* record the outcome, update the endpoint's health.  The worker may be    *)
(* lost, and the database may fail, between any two of them.               *)
(***************************************************************************)
EXTENDS JobQueue

CONSTANTS
    Threshold,      \* consecutive failures that disable the endpoint (6)
    MaxDBFaults,    \* bound: failing statements of Deliver
    MaxUpdates      \* bound: updates of the endpoint by an admin

ASSUME DeliveryAssumption ==
    /\ Keys = Jobs
    /\ Threshold \in Nat \ {0} /\ MaxDBFaults \in Nat /\ MaxUpdates \in Nat

VARIABLES
    status,     \* status[d]: webhook_deliveries.status, "absent" before the row,
                \* "removed" after it
    tries,      \* tries[d]: webhook_deliveries.attempt
    requests,   \* deliveries a Replay or Test has inserted but not yet enqueued
    enabled, disabled, failures,    \* the endpoint: enabled, auto_disabled_at set,
                                    \* consecutive_failures
    step,       \* step[w]: where in Deliver the worker is
    try,        \* try[w]: the attempt its claim of the delivery returned
    received,   \* history: received[d], POSTs of d that the endpoint accepted
    unsure,     \* history: unsure[d], those whose acceptance was not recorded
    dbFaults, updates

rows == <<status, tries, requests>>
endpoint == <<enabled, disabled, failures>>
deliver == <<step, try>>
seen == <<received, unsure>>
wvars == <<vars, status, tries, requests, enabled, disabled, failures, step, try,
           received, unsure, dbFaults, updates>>

Open == {"pending", "failed"}

WInit ==
    /\ Init
    /\ status = [d \in Jobs |-> "absent"] /\ tries = [d \in Jobs |-> 0] /\ requests = {}
    /\ enabled = TRUE /\ disabled = FALSE /\ failures = 0
    /\ step = [w \in Workers |-> "off"] /\ try = [w \in Workers |-> 0]
    /\ received = [d \in Jobs |-> 0] /\ unsure = [d \in Jobs |-> 0]
    /\ dbFaults = 0 /\ updates = 0

-----------------------------------------------------------------------------
(* New deliveries *)

\* DispatchRecord and EnqueueAction: row and job in one transaction, for an
\* endpoint that is enabled and not auto-disabled.
Dispatch(d) ==
    /\ enabled /\ ~disabled /\ status[d] = "absent"
    /\ Enqueue(d, d, TRUE)
    /\ status' = [status EXCEPT ![d] = "pending"]
    /\ UNCHANGED <<tries, requests, endpoint, deliver, seen, dbFaults, updates>>

\* Replay and Test, first statement: the row, whatever the state of the endpoint.
Insert(d) ==
    /\ status[d] = "absent"
    /\ status' = [status EXCEPT ![d] = "pending"]
    /\ requests' = requests \union {d}
    /\ UNCHANGED <<vars, tries, endpoint, deliver, seen, dbFaults, updates>>

\* Replay and Test, second statement: the job.
EnqueueRequested(d) ==
    /\ d \in requests
    /\ Enqueue(d, d, TRUE)
    /\ requests' = requests \ {d}
    /\ UNCHANGED <<status, tries, endpoint, deliver, seen, dbFaults, updates>>

\* The request dies between the two, or its second statement fails.
RequestDies(d) ==
    /\ d \in requests /\ dbFaults < MaxDBFaults
    /\ dbFaults' = dbFaults + 1
    /\ requests' = requests \ {d}
    /\ UNCHANGED <<vars, status, tries, endpoint, deliver, seen, updates>>

\* RetentionSweep removes old rows that are not 'pending', with all that is known of them.
RetentionSweep(d) ==
    /\ status[d] \in {"delivered", "failed", "exhausted"}
    /\ status' = [status EXCEPT ![d] = "removed"]
    /\ tries' = [tries EXCEPT ![d] = 0]
    /\ received' = [received EXCEPT ![d] = 0] /\ unsure' = [unsure EXCEPT ![d] = 0]
    /\ UNCHANGED <<vars, requests, endpoint, deliver, dbFaults, updates>>

\* Update: enabling the endpoint clears its failures.
Update(on) ==
    /\ updates < MaxUpdates
    /\ updates' = updates + 1
    /\ enabled' = on
    /\ IF on THEN disabled' = FALSE /\ failures' = 0 ELSE UNCHANGED <<disabled, failures>>
    /\ UNCHANGED <<vars, rows, deliver, seen, dbFaults>>

-----------------------------------------------------------------------------
(* Deliver *)

\* The handler of w's job returns o.
Returns(w, o) ==
    /\ HandlerEnds(w, o)
    /\ step' = [step EXCEPT ![w] = "off"]
    /\ try' = [try EXCEPT ![w] = 0]

At(w, s) == step[w] = s
Goto(w, s) == step' = [step EXCEPT ![w] = s] /\ UNCHANGED <<vars, try>>

\* A worker claims the job of delivery d and enters Deliver.
StartDeliver(w, d) ==
    /\ Claim(w, d)
    /\ step' = [step EXCEPT ![w] = "claim"]
    /\ UNCHANGED <<rows, endpoint, try, seen, dbFaults, updates>>

\* Mutant: any delivery that exists is claimed.
Claimable_Any(d) == status[d] \notin {"absent", "removed"}

\* Mutant: the list of claimable states includes a final one.
Claimable_Exhausted(d) == status[d] \in Open \union {"exhausted"}

Claimable(d) == status[d] \in Open

\* The claiming UPDATE counts the attempt; no row means there is nothing to do.
ClaimDelivery(w) ==
    LET d == job[w]
    IN  /\ At(w, "claim")
        /\ IF Claimable(d)
           THEN /\ tries' = [tries EXCEPT ![d] = @ + 1]
                /\ try' = [try EXCEPT ![w] = tries[d] + 1]
                /\ step' = [step EXCEPT ![w] = "post"]
                /\ UNCHANGED vars
           ELSE Returns(w, "ok") /\ UNCHANGED tries
        /\ UNCHANGED <<status, requests, endpoint, seen, dbFaults, updates>>

\* The POST: accepted with a 2xx, accepted but the answer never arrives (lost), or
\* refused.  Neither enabled nor auto_disabled_at is looked at.
Post(w, answer) ==
    LET d == job[w]
    IN  /\ At(w, "post")
        /\ Goto(w, IF answer = "accepted" THEN "record" ELSE "fail")
        /\ received' = [received EXCEPT ![d] = IF answer # "refused" THEN @ + 1 ELSE @]
        /\ unsure' = [unsure EXCEPT ![d] = IF answer = "lost" THEN @ + 1 ELSE @]
        /\ UNCHANGED <<rows, endpoint, dbFaults, updates>>

\* UPDATE webhook_deliveries ... WHERE id = $1, whatever the status, unless the row
\* is gone.
Write(d, s, n) ==
    IF status[d] = "removed" THEN UNCHANGED <<status, tries>>
    ELSE /\ status' = [status EXCEPT ![d] = s]
         /\ tries' = [tries EXCEPT ![d] = n]

RecordDelivered(w) ==
    /\ At(w, "record")
    /\ Goto(w, "healthy")
    /\ Write(job[w], "delivered", try[w])
    /\ UNCHANGED <<requests, endpoint, seen, dbFaults, updates>>

\* A success ends an auto-disable.
MarkHealthy(w) ==
    /\ At(w, "healthy")
    /\ Returns(w, "ok")
    /\ IF status[job[w]] = "removed" THEN UNCHANGED <<disabled, failures>>
       ELSE disabled' = FALSE /\ failures' = 0
    /\ UNCHANGED <<rows, enabled, seen, dbFaults, updates>>

\* Mutant: the budget check of recordFailure is off by one.
Exhausted_OffByOne(w) == try[w] > MaxAttempts

Exhausted(w) == try[w] >= MaxAttempts

\* Mutant: recordFailure writes a status the schema does not know.
RecordFailed_Retrying(w) ==
    /\ At(w, "fail")
    /\ Goto(w, "unhealthy")
    /\ Write(job[w], IF Exhausted(w) THEN "exhausted" ELSE "retrying", try[w])
    /\ UNCHANGED <<requests, endpoint, seen, dbFaults, updates>>

\* recordFailure, first statement.
RecordFailed(w) ==
    /\ At(w, "fail")
    /\ Goto(w, "unhealthy")
    /\ Write(job[w], IF Exhausted(w) THEN "exhausted" ELSE "failed", try[w])
    /\ UNCHANGED <<requests, endpoint, seen, dbFaults, updates>>

\* Mutant: a failed attempt ends its job without an error.
MarkUnhealthy_Ok(w) ==
    /\ At(w, "unhealthy")
    /\ Returns(w, "ok")
    /\ IF status[job[w]] = "removed" THEN UNCHANGED <<disabled, failures>>
       ELSE /\ failures' = failures + 1
            /\ disabled' = (disabled \/ failures + 1 >= Threshold)
    /\ UNCHANGED <<rows, enabled, seen, dbFaults, updates>>

\* recordFailure, second statement: count the failure, disable at the threshold.
\* An exhausted delivery ends its job without an error.
MarkUnhealthy(w) ==
    /\ At(w, "unhealthy")
    /\ Returns(w, IF Exhausted(w) THEN "ok" ELSE "error")
    /\ IF status[job[w]] = "removed" THEN UNCHANGED <<disabled, failures>>
       ELSE /\ failures' = failures + 1
            /\ disabled' = (disabled \/ failures + 1 >= Threshold)
    /\ UNCHANGED <<rows, enabled, seen, dbFaults, updates>>

\* What an interrupted Deliver leaves uncertain: an accepted POST not recorded.
Uncertain(w) ==
    unsure' = IF At(w, "record") THEN [unsure EXCEPT ![job[w]] = @ + 1] ELSE unsure

\* A statement of Deliver fails, its deadline passes, or the endpoint's secret
\* cannot be decrypted before the POST: it returns an error.
StatementFails(w) ==
    /\ step[w] # "off" /\ dbFaults < MaxDBFaults
    /\ dbFaults' = dbFaults + 1
    /\ Returns(w, "error")
    /\ Uncertain(w)
    /\ UNCHANGED <<rows, endpoint, received, updates>>

\* The worker is lost inside Deliver or in finish.
WorkerCrashes(w) ==
    /\ Crash(w)
    /\ Uncertain(w)
    /\ step' = [step EXCEPT ![w] = "off"] /\ try' = [try EXCEPT ![w] = 0]
    /\ UNCHANGED <<rows, endpoint, received, dbFaults, updates>>

\* What happens to jobs outside their handlers.
QueueStep ==
    /\ \/ \E d \in Jobs : BecomesDue(d) \/ Cancel(d) \/ Retry(d) \/ Prune(d)
                          \/ LeaseExpires(d) \/ Reclaim(d)
       \/ \E w \in Workers : Finish(w) \/ FinishFails(w)
    /\ UNCHANGED <<rows, endpoint, deliver, seen, dbFaults, updates>>

-----------------------------------------------------------------------------
DeliverStep(w) ==
    \/ ClaimDelivery(w) \/ \E answer \in {"accepted", "lost", "refused"} : Post(w, answer)
    \/ RecordDelivered(w) \/ MarkHealthy(w) \/ RecordFailed(w) \/ MarkUnhealthy(w)

WNext ==
    \/ \E d \in Jobs : \/ Dispatch(d) \/ Insert(d) \/ EnqueueRequested(d) \/ RequestDies(d)
                       \/ RetentionSweep(d)
    \/ \E on \in BOOLEAN : Update(on)
    \/ \E w \in Workers :
          \/ \E d \in Jobs : StartDeliver(w, d)
          \/ DeliverStep(w) \/ StatementFails(w) \/ WorkerCrashes(w)
    \/ QueueStep

\* As in JobQueue: workers poll, handlers run, time passes, leases are reclaimed.
\* A request runs on until it ends or dies.
WFairness ==
    /\ \A w \in Workers :
          /\ WF_wvars(\E d \in Jobs : StartDeliver(w, d))
          /\ WF_wvars(DeliverStep(w))
          /\ WF_wvars(QueueStep /\ Finish(w))
    /\ \A d \in Jobs :
          /\ WF_wvars(EnqueueRequested(d))
          /\ WF_wvars(QueueStep /\ BecomesDue(d))
          /\ WF_wvars(QueueStep /\ LeaseExpires(d))
          /\ WF_wvars(QueueStep /\ Reclaim(d))

WSpec == WInit /\ [][WNext]_wvars
WFairSpec == WSpec /\ WFairness

-----------------------------------------------------------------------------
(* Properties *)

WTypeOK ==
    /\ TypeOK
    /\ status \in [Jobs -> {"absent", "pending", "failed", "delivered", "exhausted", "removed"}]
    /\ tries \in [Jobs -> Nat] /\ received \in [Jobs -> Nat] /\ unsure \in [Jobs -> Nat]
    /\ requests \subseteq {d \in Jobs : status[d] = "pending"}
    /\ enabled \in BOOLEAN /\ disabled \in BOOLEAN /\ failures \in Nat
    /\ step \in [Workers -> {"off", "claim", "post", "record", "healthy", "fail", "unhealthy"}]
    /\ try \in [Workers -> Nat]
    /\ \A w \in Workers : step[w] # "off" <=> phase[w] = "running"
    /\ dbFaults \in 0..MaxDBFaults /\ updates \in 0..MaxUpdates

\* A delivery that was delivered or given up is not reopened and changes no more,
\* as long as every lease outlasted its Deliver ("WHERE id=$1" alone does not see to it).
SettledStays ==
    [][overruns = 0 => \A d \in Jobs :
          status[d] \in {"delivered", "exhausted"} => status'[d] \in {status[d], "removed"}]_wvars

\* The endpoint accepts a delivery once, and once more for every acceptance that
\* could not be recorded: job retries, reclaims and admin retries send it no more often.
NoNeedlessResend ==
    overruns = 0 => \A d \in Jobs : received[d] <= 1 + unsure[d]

\* A delivery that is still to be sent has a job that will send it.  It may lose it
\* to an admin's cancel or to statements and workers that fail: the job's budget
\* counts those attempts, the delivery's does not.
Carried(d) == state[d] \in Live \/ d \in requests
NoneStranded ==
    faults + dbFaults + overruns = 0 =>
        \A d \in Jobs : status[d] \in Open => Carried(d) \/ state[d] \in {"cancelled", "pruned"}

\* Every delivery with a job is delivered or given up, unless an admin cancelled its
\* job, the job's budget went to attempts that Deliver could not record, or a lease
\* ran out under Deliver (the late one may write 'failed' over 'delivered').
EventuallySettled ==
    \A d \in Jobs :
        status[d] \in Open /\ state[d] = "pending" ~>
            status[d] \notin Open \/ state[d] \in {"cancelled", "dead", "pruned"} \/ overruns > 0

\* service.go:118-121: "Pending deliveries are never removed by retention: they are
\* operational work, not history, and must remain retryable."
PendingRetryable ==
    \A d \in Jobs : status[d] = "pending" => Carried(d) \/ state[d] # "absent"
=============================================================================
