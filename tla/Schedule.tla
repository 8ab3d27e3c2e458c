------------------------------- MODULE Schedule -------------------------------
(***************************************************************************)
(* A recurring job of cmd/hubchat/main.go: a chain of rows, the ticks.     *)
(*                                                                         *)
(* A process with the scheduler role primes the chain as it starts         *)
(* (EnsureScheduled); from then on the handler of each tick enqueues the   *)
(* next one, under a dedupe key made from its own row id, before it        *)
(* reports success.  The queue underneath is that of JobQueue, reduced to  *)
(* what a chain sees of it: a claim, the outcome, and a row that comes     *)
(* back because its worker was lost.  Handlers that outlive their lease    *)
(* are left to JobQueue.                                                   *)
(*                                                                         *)
(* A row is known by a number, which its successor takes over when it is   *)
(* done: what the queue keeps of finished rows does not matter here.       *)
(***************************************************************************)
EXTENDS Integers, FiniteSets

CONSTANTS
  Ticks,       \* numbers for the rows of this job type
  Primed,      \* the dedupe key main.go primes the type with
  Gone,        \* the key of a tick that is done: nothing will use it again
  MaxFaults    \* bound: faults and cancels, and the faults a composition adds

ASSUME ScheduleAssumption ==
  /\ Ticks \subseteq Nat /\ IsFiniteSet(Ticks) /\ MaxFaults \in Nat
  /\ Primed # Gone /\ {Primed, Gone} \cap Ticks = {}

VARIABLES
  tick,        \* each row: [st, by, spawned]
  reruns,      \* history: ticks that came back after they had placed a successor
  retried,     \* history: admin retries
  faults

scheduleVars == <<tick, reruns, retried, faults>>

\* A row's dedupe key names the tick that enqueued it.
Row(key) == [st |-> "pending", by |-> key, spawned |-> FALSE]
Blank == [st |-> "none", by |-> Gone, spawned |-> FALSE]

Live(j) == tick[j].st \in {"pending", "running"}
LiveTicks == {j \in Ticks : Live(j)}
KeyTaken(key) == key # Gone /\ \E i \in LiveTicks : tick[i].by = key

\* ids.New; which number a row gets does not matter.
NewTick(j) == tick[j].st = "none" /\ \A i \in Ticks : tick[i].st = "none" => j <= i

Disturbed == faults < MaxFaults /\ faults' = faults + 1

ScheduleInit ==
  /\ tick = [j \in Ticks |-> IF \A i \in Ticks : j <= i THEN Row(Primed) ELSE Blank]
  /\ reruns = 0 /\ retried = 0 /\ faults = 0

-------------------------------------------------------------------------------
\* Mutant: priming relies on its dedupe key alone.
Prime_KeyOnly ==
  /\ ~KeyTaken(Primed)
  /\ \E j \in Ticks : NewTick(j) /\ tick' = [tick EXCEPT ![j] = Row(Primed)]
  /\ UNCHANGED <<reruns, retried, faults>>

\* EnsureScheduled looks for a live row of the type and inserts one under an
\* advisory lock, so no other priming comes between.
Prime ==
  /\ LiveTicks = {}
  /\ \E j \in Ticks : NewTick(j) /\ tick' = [tick EXCEPT ![j] = Row(Primed)]
  /\ UNCHANGED <<reruns, retried, faults>>

StartTick(j) ==
  /\ tick[j].st = "pending"
  /\ tick' = [tick EXCEPT ![j].st = "running"]
  /\ UNCHANGED <<reruns, retried, faults>>

\* The rows without row j, whose own successor keeps a key nobody uses again.
Forget(j) ==
  [i \in Ticks |-> IF i = j THEN Blank ELSE IF tick[i].by = j THEN [tick[i] EXCEPT !.by = Gone] ELSE tick[i]]

\* Mutant: the handler reports success without a successor.
FinishTick_OkAnyway(j) ==
  /\ tick[j].st = "running"
  /\ tick' = Forget(j)
  /\ UNCHANGED <<reruns, retried, faults>>

\* The handler enqueues the successor and returns nil, and the outcome is
\* written.  ErrDuplicate, a live row that an earlier run of this tick enqueued,
\* is as good.  What can come between is the loss of the worker, see TickLost.
FinishTick(j) ==
  /\ tick[j].st = "running"
  /\ tick' = IF KeyTaken(j) THEN Forget(j) ELSE [tick EXCEPT ![j] = Row(Gone)]
  /\ UNCHANGED <<reruns, retried, faults>>

\* The work or the Enqueue fails: the row is tried again, or it was the last try.
TickFails(j) ==
  /\ tick[j].st = "running"
  /\ Disturbed
  /\ \E st \in {"pending", "stopped"} : tick' = [tick EXCEPT ![j].st = st]
  /\ UNCHANGED <<reruns, retried>>

\* The worker dies or cannot write the outcome, before or after it has enqueued
\* the successor; the reclaim makes the row pending again.
TickLost(j) ==
  /\ tick[j].st = "running"
  /\ Disturbed
  /\ \/ tick' = [tick EXCEPT ![j].st = "pending"] /\ UNCHANGED reruns
     \/ /\ IF KeyTaken(j) THEN tick' = [tick EXCEPT ![j].st = "pending"]
           ELSE \E n \in Ticks : NewTick(n) /\
             tick' = [tick EXCEPT ![j].st = "pending", ![j].spawned = TRUE, ![n] = Row(j)]
        /\ reruns' = reruns + 1
  /\ UNCHANGED retried

CancelTick(j) ==
  /\ tick[j].st = "pending"
  /\ Disturbed
  /\ tick' = [tick EXCEPT ![j].st = "stopped"]
  /\ UNCHANGED <<reruns, retried>>

\* An admin retries a dead or cancelled row, if its key is free.
RetryTick(j) ==
  /\ tick[j].st = "stopped" /\ ~KeyTaken(tick[j].by)
  /\ tick' = [tick EXCEPT ![j].st = "pending"]
  /\ retried' = retried + 1
  /\ UNCHANGED <<reruns, faults>>

-------------------------------------------------------------------------------
(* Properties                                                                *)

\* The ticks from which the schedule goes on.
Heads == {j \in LiveTicks : ~tick[j].spawned}

\* Restarts, several scheduler processes and repeated deliveries do not start a
\* second permanent copy of a schedule (the comment of EnsureScheduled).  A tick
\* that runs again although it had placed its successor adds one, when that
\* successor is done by then; so does an admin's retry.  Nothing ever joins them.
OneSchedule == Cardinality(Heads) <= 1 + reruns + retried
===============================================================================
