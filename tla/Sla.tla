---------------------------------- MODULE Sla ----------------------------------
(***************************************************************************)
(* The SLA timers of one conversation (internal/sla/runtime.go).           *)
(*                                                                         *)
(* Two actors move a timer.  The "sla" event consumer works through the    *)
(* conversation's events in order and dates what it does by the event's    *)
(* occurred_at; it also reads the conversation's state as it is now.  The  *)
(* evaluation tick, a recurring job, reads the due timers with the time it *)
(* started at, and then handles them one by one, each in a transaction     *)
(* that looks at the row again under its lock.                             *)
(*                                                                         *)
(* The conversation is one that the policy covers from the start, or one   *)
(* from before its inbox's policy was enabled or had the target, whose     *)
(* timers its next message starts.                                         *)
(* Tickets have the same timers but for next_response and are left out.    *)
(***************************************************************************)
EXTENDS BusinessHours, Schedule, Sequences

CONSTANTS
  Calendars,    \* the calendars the arithmetic is compared with its meaning on
  Calendar,     \* the calendar of the policy
  Warning,      \* warning_threshold_percent
  Policies,     \* target minutes of each kind of timer, or None
  PauseStates,  \* states that pause the policy's timers
  States,       \* states agents set
  BatchLimit,   \* timers a tick takes at most (LIMIT 500)
  None,
  MaxTime,      \* bound: minutes that pass
  MaxSteps      \* bound: messages, state changes and faults together

Kinds == {"first_response", "next_response", "resolution"}
Responses == {"first_response", "next_response"}

ASSUME SlaAssumption ==
  /\ MaxTime \in Nat /\ MaxSteps \in Nat /\ Warning \in Nat
  /\ BatchLimit \in Nat \ {0} /\ "open" \in States
  /\ None \notin Nat /\ Policies \subseteq [Kinds -> Nat \cup {None}]

ASSUME CalendarsAssumption == \A cal \in Calendars \cup {Calendar} : WellFormed(cal)

VARIABLES
  clock,
  live,        \* conversations.state
  told,        \* the state that its last state event told
  sent,        \* messages and state changes so far
  queue,       \* events the consumer's checkpoint has not passed: [type, at, arg]
  ensured,     \* the first transaction for the message at the queue's head is done
  again,       \* the queue's head has been handled before
  target,      \* the policy's target of each kind
  timer,       \* the sla_instances row of each kind: [st, elapsed, since, deadline, warned]
  batch,       \* each running tick: [now, left], the timers it has still to evaluate
  hist         \* history of each timer: [from, worked, stored, recounted, rehandled, announced]

subject == <<clock, live, told, sent, target>>
consumer == <<queue, ensured, again>>
timers == <<timer, hist>>
vars == <<subject, consumer, timers, batch, scheduleVars>>

NoTimer == [st |-> "none", elapsed |-> 0, since |-> None, deadline |-> None, warned |-> FALSE]
NoHistory == [from |-> None, worked |-> 0, stored |-> 0, recounted |-> 0,
              rehandled |-> FALSE, announced |-> [approaching |-> 0, breached |-> 0]]
NoBatch == [now |-> 0, left |-> {}]

Event(type, arg) == [type |-> type, at |-> clock, arg |-> arg]
Running(k) == timer[k].st = "active"
Unfinished(k) == timer[k].st \in {"active", "paused"}
Due(k) == Running(k) /\ timer[k].deadline <= clock

Init ==
  /\ ScheduleInit
  /\ clock = 0 /\ live = "open" /\ told = "open" /\ sent = 0
  /\ target \in Policies
  /\ queue \in {<<>>, <<Event("created", None)>>}
  /\ ensured = FALSE /\ again = FALSE
  /\ timer = [k \in Kinds |-> NoTimer]
  /\ hist = [k \in Kinds |-> NoHistory]
  /\ batch = [j \in Ticks |-> NoBatch]

-------------------------------------------------------------------------------
(* The conversation                                                          *)

Tell(event) ==
  /\ sent' = sent + 1
  /\ queue' = Append(queue, event)

\* A reply or an internal note of an agent is a message of an agent.
Post ==
  /\ \E author \in {"customer", "agent"} : Tell(Event("message", author))
  /\ UNCHANGED <<clock, live, told, target, ensured, again, timers, batch, scheduleVars>>

SetState ==
  /\ \E to \in States \ {live} :
       /\ Tell(Event("state", to))
       /\ live' = to /\ told' = to
  /\ UNCHANGED <<clock, target, ensured, again, timers, batch, scheduleVars>>

\* WakeSnoozed's UPDATE, when the event of the wake is lost.
WakeUntold ==
  /\ live = "snoozed" /\ live' = "open"
  /\ Disturbed
  /\ UNCHANGED <<clock, told, sent, target, consumer, timers, batch, tick, reruns, retried>>

Advance ==
  /\ clock < MaxTime /\ clock' = clock + 1
  /\ UNCHANGED <<live, told, sent, target, consumer, timers, batch, scheduleVars>>

-------------------------------------------------------------------------------
(* The consumer                                                              *)

\* A new timer that runs from `now`, or is paused; its target is counted from
\* `started`.
StartTimer(k, started, now, paused) ==
  [NoTimer EXCEPT !.st = IF paused THEN "paused" ELSE "active",
                  !.since = IF paused THEN None ELSE now,
                  !.deadline = IF paused THEN None ELSE Add(Calendar, started, target[k])]

\* EnsureConversation, insertTimer: the row's own state says whether it is
\* paused; a timer that exists stays as it is (ON CONFLICT DO NOTHING).
\* The conversation was created at 0.
EnsureConversation(now) ==
  LET new == {k \in {"first_response", "resolution"} : target[k] # None /\ timer[k].st = "none"}
      paused == live \in PauseStates
  IN /\ timer' = [k \in Kinds |-> IF k \in new THEN StartTimer(k, 0, now, paused) ELSE timer[k]]
     /\ hist' = [k \in Kinds |-> IF k \in new /\ ~paused THEN [hist[k] EXCEPT !.from = 0] ELSE hist[k]]

\* Mutant: the row's state is not looked at.
StartOrResetNext_Running(now) ==
  LET k == "next_response" IN
  IF target[k] = None THEN UNCHANGED timers
  ELSE /\ timer' = [timer EXCEPT ![k] = StartTimer(k, now, now, FALSE)]
       /\ hist' = [hist EXCEPT ![k] = [NoHistory EXCEPT !.from = now]]

\* A customer's message starts next_response afresh, whatever it was.
StartOrResetNext(now) ==
  LET k == "next_response"
      paused == live \in PauseStates
  IN IF target[k] = None THEN UNCHANGED timers
     ELSE /\ timer' = [timer EXCEPT ![k] = StartTimer(k, now, now, paused)]
          /\ hist' = [hist EXCEPT ![k] =
               [NoHistory EXCEPT !.from = IF paused THEN None ELSE now, !.rehandled = again,
                                 !.announced = IF again THEN hist[k].announced ELSE @]]

\* Mutant: the deadline stays.
Met_KeepsDeadline(k) == [timer[k] EXCEPT !.st = "met", !.elapsed = target[k], !.since = None]

Met(k) == [timer[k] EXCEPT !.st = "met", !.elapsed = target[k], !.since = None, !.deadline = None]

\* An agent's message satisfies the response timers that are not over.
AgentResponded ==
  /\ timer' = [k \in Kinds |-> IF k \in Responses /\ Unfinished(k) THEN Met(k) ELSE timer[k]]
  /\ UNCHANGED hist

Capped(k, minutes) == IF minutes > target[k] THEN target[k] ELSE minutes

\* Mutant: what has passed is taken by the clock, not by the calendar.
ElapsedAt_ByClock(k, now) ==
  Capped(k, timer[k].elapsed +
    IF timer[k].since = None \/ timer[k].since > now THEN 0 ELSE now - timer[k].since)

\* What the row has stored and what has been worked since it was started or
\* resumed.
ElapsedAt(k, now) ==
  Capped(k, timer[k].elapsed + IF timer[k].since = None THEN 0 ELSE Elapsed(Calendar, timer[k].since, now))

Paused(k, now) ==
  [timer[k] EXCEPT !.st = "paused", !.elapsed = ElapsedAt(k, now), !.since = None, !.deadline = None]

Resumed(k, now) ==
  [timer[k] EXCEPT !.st = "active", !.since = now, !.deadline = Add(Calendar, now, target[k] - timer[k].elapsed)]

SetSubjectState(to, now) ==
  LET over == to \in {"resolved", "closed"}
      pausing == {k \in Kinds : ~over /\ to \in PauseStates /\ timer[k].st = "active"}
      resuming == {k \in Kinds : ~over /\ to \notin PauseStates /\ timer[k].st = "paused"}
  IN /\ timer' = [k \in Kinds |->
          IF over /\ Unfinished(k) THEN Met(k)
          ELSE IF k \in pausing THEN Paused(k, now)
          ELSE IF k \in resuming THEN Resumed(k, now)
          ELSE timer[k]]
     /\ hist' = [k \in Kinds |->
          IF k \in pausing
            THEN [hist[k] EXCEPT !.from = None, !.worked = @ + Open(Calendar, hist[k].from, now),
                                 !.recounted = @ + hist[k].stored]
          ELSE IF k \in resuming THEN [hist[k] EXCEPT !.from = now, !.stored = 0]
          ELSE hist[k]]

\* MessageReceived's first transaction.
HandleMessage ==
  /\ queue # <<>> /\ Head(queue).type = "message" /\ ~ensured
  /\ EnsureConversation(Head(queue).at)
  /\ ensured' = TRUE
  /\ UNCHANGED <<subject, queue, again, batch, scheduleVars>>

\* processEvent's last transaction.
Effect(e) ==
  \/ e.type = "created" /\ EnsureConversation(e.at)
  \/ e.type = "message" /\ ensured /\ e.arg = "customer" /\ StartOrResetNext(e.at)
  \/ e.type = "message" /\ ensured /\ e.arg = "agent" /\ AgentResponded
  \/ e.type = "state" /\ SetSubjectState(e.arg, e.at)

\* It commits, and the checkpoint moves; or that write fails, or the process
\* dies first, and the event comes again.
Handle ==
  /\ queue # <<>>
  /\ Effect(Head(queue))
  /\ ensured' = FALSE
  /\ \/ queue' = Tail(queue) /\ again' = FALSE /\ UNCHANGED faults
     \/ again' = TRUE /\ Disturbed /\ UNCHANGED queue
  /\ UNCHANGED <<subject, batch, tick, reruns, retried>>

\* The process dies between the two transactions of a message.
HandleLost ==
  /\ ensured /\ ensured' = FALSE
  /\ Disturbed
  /\ UNCHANGED <<subject, queue, again, timers, batch, tick, reruns, retried>>

-------------------------------------------------------------------------------
(* The evaluation tick                                                       *)

\* Timers that are due, and those there was no warning about yet.
Selected == {k \in Kinds : Running(k) /\ (timer[k].deadline <= clock \/ ~timer[k].warned)}

\* The batch: as many of them as fit, the earliest deadlines first.
Batches ==
  {b \in SUBSET Selected :
     /\ Cardinality(b) <= BatchLimit /\ (b = Selected \/ Cardinality(b) = BatchLimit)
     /\ \A k \in b, other \in Selected \ b : timer[k].deadline <= timer[other].deadline}

Start(j) ==
  /\ StartTick(j)
  /\ \E b \in Batches : batch' = [batch EXCEPT ![j] = IF b = {} THEN NoBatch ELSE [now |-> clock, left |-> b]]
  /\ UNCHANGED <<subject, consumer, timers>>

Remaining(b, k) == IF b.left = {k} THEN NoBatch ELSE [b EXCEPT !.left = @ \ {k}]

Warns(k, minutes) == ~timer[k].warned /\ minutes * 100 >= target[k] * Warning

Breaches(k, now) == timer[k].deadline # None /\ timer[k].deadline <= now

\* evaluateOne.  The elapsed minutes are stored and running_since stays, so
\* that the next evaluation, or a pause, counts the same minutes again.
Evaluated(k, now) ==
  LET minutes == ElapsedAt(k, now)
      warns == Warns(k, minutes)
      breaches == Breaches(k, now)
  IN /\ timer' = [timer EXCEPT
          ![k].elapsed = minutes, ![k].warned = @ \/ warns,
          ![k].st = IF breaches THEN "breached" ELSE @, ![k].since = IF breaches THEN None ELSE @]
     /\ hist' = [hist EXCEPT
          ![k].stored = @ + (minutes - timer[k].elapsed),
          ![k].announced.approaching = IF warns THEN @ + 1 ELSE @,
          ![k].announced.breached = IF breaches THEN @ + 1 ELSE @]

\* Mutant: the row is taken as it was when the batch was read.
EvaluateOne_Unlocked(j, k) ==
  /\ tick[j].st = "running" /\ k \in batch[j].left
  /\ Evaluated(k, batch[j].now)
  /\ batch' = [batch EXCEPT ![j] = Remaining(@, k)]
  /\ UNCHANGED <<subject, consumer, scheduleVars>>

\* Its transaction reads the row again under a lock: it may not be active any
\* more.  (The code goes through a batch by deadline, here any order will do.)
EvaluateOne(j, k) ==
  /\ tick[j].st = "running" /\ k \in batch[j].left
  /\ IF Running(k) THEN Evaluated(k, batch[j].now) ELSE UNCHANGED timers
  /\ batch' = [batch EXCEPT ![j] = Remaining(@, k)]
  /\ UNCHANGED <<subject, consumer, scheduleVars>>

\* The run of a tick ends: well, with an error that leaves the rest of its batch
\* alone, or with its process.
Finish(j) ==
  /\ batch[j].left = {}
  /\ FinishTick(j)
  /\ UNCHANGED <<subject, consumer, timers, batch>>

Break(j) ==
  /\ TickFails(j) \/ TickLost(j)
  /\ batch' = [batch EXCEPT ![j] = NoBatch]
  /\ UNCHANGED <<subject, consumer, timers>>

\* A scheduler process starts, or an admin cancels or retries a tick.
Manage ==
  /\ Prime \/ \E j \in Ticks : CancelTick(j) \/ RetryTick(j)
  /\ UNCHANGED <<subject, consumer, timers, batch>>

-------------------------------------------------------------------------------
Step ==
  \/ Post \/ SetState \/ WakeUntold \/ Advance
  \/ HandleMessage \/ Handle \/ HandleLost
  \/ \E j \in Ticks : Start(j) \/ Finish(j) \/ Break(j) \/ \E k \in Kinds : EvaluateOne(j, k)
  \/ Manage

Next == Step /\ sent' + faults' <= MaxSteps

\* A worker takes what is due and goes on with it.  Nothing is assumed of the
\* consumer, of admins, or of a process that starts again.
Fairness ==
  \A j \in Ticks : WF_vars(Start(j) \/ Finish(j) \/ \E k \in Kinds : EvaluateOne(j, k))

Spec == Init /\ [][Next]_vars /\ Fairness

-------------------------------------------------------------------------------
(* Properties                                                                *)

\* Type correctness: a timer has a deadline and a running time exactly while it
\* runs (a breached one keeps its deadline), and its stored minutes never exceed
\* its target.
SlaTypeOK ==
  /\ clock \in 0..MaxTime /\ live \in States /\ told \in States
  /\ \A k \in Kinds :
       /\ timer[k].st \in {"none", "active", "paused", "met", "breached"}
       /\ timer[k].since # None <=> timer[k].st = "active"
       /\ timer[k].deadline # None <=> timer[k].st \in {"active", "breached"}
       /\ timer[k].st # "none" => timer[k].elapsed \in 0..target[k]
  /\ \A j \in Ticks : tick[j].st # "running" => batch[j] = NoBatch

\* Add skips what is not worked, and Elapsed is its inverse (the comments of the
\* two).  On every calendar Add leaves room for the work: it never comes before so
\* much has been worked, though windows overlap or run past midnight, where it may
\* lose a day.  Without overlaps Elapsed counts no minute that is not worked, and
\* none twice.  If windows are over before midnight as well, Add gives the first
\* minute by which so much has been worked, and Elapsed what has been worked in
\* between, except that it leaves out the last day when that is a later one than
\* the first and the end less than a day after the start.  They depend on no state,
\* so the initial ones are enough to compare them in.
CalendarExact ==
  Init => \A cal \in Calendars : \A start, d \in 0..(2 * DayLength) :
    LET t == Add(cal, start, d)
        end == start + d
    IN /\ Open(cal, start, t) >= d
       /\ Disjoint(cal) => Elapsed(cal, start, end) <= Open(cal, start, end)
       /\ Plain(cal) =>
            /\ Open(cal, start, t) = d /\ (d > 0 => Open(cal, start, t - 1) = d - 1)
            /\ Day(start) = Day(end) \/ d >= DayLength => Elapsed(cal, start, end) = Open(cal, start, end)

\* Each timer is announced as approaching, and as breached, once ("transitions
\* each due timer exactly once", Evaluate; warned_at, so that the warning is not
\* sent on every tick), although ticks overlap and come again; a message that is
\* handled twice starts next_response anew, which may announce it anew.
AnnouncedOnce ==
  \A k \in Kinds : hist[k].rehandled \/
    (hist[k].announced.approaching <= 1 /\ hist[k].announced.breached <= 1)

\* No timer breaches before its target has been worked, pauses not counted: the
\* deadline after a resume leaves out what was worked before, and those minutes
\* once more that an evaluation had stored by the time the timer was paused
\* (evaluateOne stores them and leaves running_since).  By so much, and no more,
\* a breach may come too soon.
BreachIsEarned ==
  [][\A k \in Kinds : Running(k) /\ timer'[k].st = "breached" =>
       hist[k].worked + hist[k].recounted + Open(Calendar, hist[k].from, clock) >= target[k]]_vars

\* Once the consumer has caught up, the unfinished timers are paused exactly if
\* the conversation is in a pause state, whatever the order in which messages
\* and state changes came and however late they were handled: as long as the
\* events told the state (Conversation's EventsTellState says when they do not).
PauseFollowsState ==
  queue = <<>> /\ told = live =>
    \A k \in Kinds : Unfinished(k) => (timer[k].st = "paused" <=> live \in PauseStates)

\* A timer that is due is settled, by a tick or by the consumer, unless a tick
\* died or was cancelled and no tick is left: a worker that is lost and an
\* evaluation that fails do not end the schedule.
DueTimersSettle ==
  \A k \in Kinds : Due(k) ~> ~Due(k) \/ (LiveTicks = {} /\ \E j \in Ticks : tick[j].st = "stopped")
===============================================================================
