---------------------------- MODULE RealtimeHub ----------------------------
(***************************************************************************)
(* internal/realtime: one workspace's part of the WebSocket hub, and the   *)
(* two browser clients (web/shared/src/lib/realtime.ts, the dashboard, and *)
(* web/widget/src/lib/socket.ts, the widget).                              *)
(*                                                                         *)
(* One goroutine drains the event log into the registered connections,     *)
(* starting where the hub's cursor is.  Each connection has a goroutine    *)
(* that positions it at the head of the log and then serves its frames; a  *)
(* resume replays the log from the browser's position while live events    *)
(* are deferred.  All of them interleave at every lock and every query.    *)
(*                                                                         *)
(* Sequences 1..head are the readable events: EventLog.tla shows that they *)
(* become readable in this order.                                          *)
(***************************************************************************)
EXTENDS Integers, Sequences, FiniteSets, FiniteSetsExt, SequencesExt

CONSTANTS
    Conns,          \* connections; each is opened at most once
    Browsers,
    NoConn,         \* no connection
    Owner,          \* [Conns -> Browsers]
    Kind,           \* [Browsers -> {"dashboard", "widget"}]
    Wants,          \* [Browsers -> sequences its topics and its grant let through]
    QueueSize,      \* frames a connection's outbound queue holds
    DrainPage,      \* rows per page of a drain (200)
    ResumePage,     \* rows per page of a replay (200)
    MaxResume,      \* events after which a replay is truncated (2000)
    InitialHead,    \* events in the log when the server starts
    Held,           \* [Browsers -> position kept from an earlier server, 0 for none]
    MaxHead,        \* bound: events committed
    MaxFaults       \* bound: failing queries of the hub

ASSUME HubAssumption ==
    /\ NoConn \notin Conns
    /\ Owner \in [Conns -> Browsers]
    /\ Kind \in [Browsers -> {"dashboard", "widget"}]
    /\ Wants \in [Browsers -> SUBSET (Nat \ {0})]
    /\ QueueSize \in Nat \ {0} /\ DrainPage \in Nat \ {0}
    /\ ResumePage \in Nat \ {0} /\ MaxResume \in Nat \ {0}
    /\ InitialHead \in Nat /\ Held \in [Browsers -> 0..InitialHead]
    /\ MaxHead \in Nat /\ InitialHead <= MaxHead /\ MaxFaults \in Nat

VARIABLES
    head,       \* the newest readable sequence
    signals,    \* signals waiting in the listener's channel
    cursor,     \* hub.cursor of the workspace, 0 without an entry
    drain,      \* the drain goroutine
    stage,      \* stage[c]: how far Serve has come
    latest,     \* latest[c]: what Serve read as the head of the log
    client,     \* client[c]: lastSeq, syncing and deferred
    sync,       \* sync[c]: the resume c's goroutine is at
    link,       \* link[c]: is the socket up, frames on their way, resume request
    browser,    \* browser[b]: position, and what the page has seen
    base,       \* history: base[c], the head c was positioned at, or told to reload from
    sent,       \* history: sent[c], events pushed to c
    jumped,     \* history: events the cursor was moved over without a drain
    faults      \* failing queries so far

hubVars == <<head, signals, cursor, drain>>
connVars == <<stage, latest, client, sync>>
history == <<base, sent, jumped>>
vars == <<head, signals, cursor, drain, stage, latest, client, sync, link, browser,
          base, sent, jumped, faults>>

Registered == {c \in Conns : stage[c] \in {"registered", "read", "positioned", "serving"}}
Wanted(c) == Wants[Owner[c]]
NoRequest == -1

Event(n) == [kind |-> "event", seq |-> n, from |-> 0, truncated |-> FALSE]
Ready(n) == [kind |-> "ready", seq |-> n, from |-> 0, truncated |-> FALSE]
Error == [kind |-> "error", seq |-> 0, from |-> 0, truncated |-> FALSE]
Resumed(m, n, t) == [kind |-> "resumed", seq |-> n, from |-> m, truncated |-> t]

NewClient == [lastSeq |-> 0, syncing |-> FALSE, deferred |-> {}]
DrainIdle == [pc |-> "idle", page |-> {}, last |-> 0, full |-> FALSE, seq |-> 0,
              targets |-> {}, target |-> NoConn]
SyncOff == [pc |-> "off", from |-> 0, pos |-> 0, page |-> {}, full |-> FALSE,
            delivered |-> 0, truncated |-> FALSE, flush |-> {}]
LinkDown == [up |-> FALSE, wire |-> <<>>, req |-> NoRequest]

Init ==
    /\ head = InitialHead /\ signals = 0 /\ cursor = 0 /\ drain = DrainIdle
    /\ stage = [c \in Conns |-> "new"] /\ latest = [c \in Conns |-> 0]
    /\ client = [c \in Conns |-> NewClient]
    /\ sync = [c \in Conns |-> SyncOff]
    /\ link = [c \in Conns |-> LinkDown]
    /\ browser = [b \in Browsers |-> [pos |-> Held[b], start |-> Held[b], got |-> {}, settled |-> FALSE]]
    /\ base = [c \in Conns |-> 0] /\ sent = [c \in Conns |-> {}]
    /\ jumped = {} /\ faults = 0

-----------------------------------------------------------------------------
(* The event log *)

\* An event commits; its signal reaches the hub or is lost.
Commit(reaches) ==
    /\ head < MaxHead
    /\ head' = head + 1
    /\ signals' = IF reaches THEN signals + 1 ELSE signals
    /\ UNCHANGED <<cursor, drain, connVars, link, browser, history, faults>>

\* Since: the first limit readable events after n.
Since(n, limit) == (n + 1)..Min({head, n + limit})

-----------------------------------------------------------------------------
(* Pushing frames *)

\* Mutant: the outbound queue is not bounded.
Enqueue_Unbounded(l, c, frame) ==
    IF ~l[c].up THEN l ELSE [l EXCEPT ![c].wire = Append(@, frame)]

\* enqueue: a full outbound queue closes the connection.
Enqueue(l, c, frame) ==
    IF ~l[c].up THEN l
    ELSE IF Len(l[c].wire) < QueueSize THEN [l EXCEPT ![c].wire = Append(@, frame)]
    ELSE [l EXCEPT ![c] = LinkDown]

\* setCursor moves the cursor forward only; what it passes over is noted.
MoveCursor(n) ==
    /\ cursor' = Max({cursor, n})
    /\ jumped' = jumped \union (cursor + 1)..n

-----------------------------------------------------------------------------
(* Serve *)

\* A dashboard asks for its gap as soon as the socket is open.
AskedOnOpen(b) ==
    IF Kind[b] = "dashboard" /\ browser[b].pos > 0 THEN browser[b].pos ELSE NoRequest

\* The handler upgrades the connection and registers it.
Dial(c) ==
    LET b == Owner[c]
    IN  /\ stage[c] = "new"
        /\ \A d \in Conns : Owner[d] = b => ~link[d].up
        /\ stage' = [stage EXCEPT ![c] = "registered"]
        /\ link' = [link EXCEPT ![c] = [up |-> TRUE, wire |-> <<>>, req |-> AskedOnOpen(b)]]
        /\ browser' = [browser EXCEPT ![b].settled = FALSE]
        /\ base' = [base EXCEPT ![c] = head]
        /\ UNCHANGED <<hubVars, latest, client, sync, sent, jumped, faults>>

\* LatestSequence.
ReadLatest(c) ==
    /\ stage[c] = "registered"
    /\ latest' = [latest EXCEPT ![c] = head]
    /\ stage' = [stage EXCEPT ![c] = "read"]
    /\ UNCHANGED <<hubVars, client, sync, link, browser, history, faults>>

\* LatestSequence fails: the connection stays at position 0.
ReadLatestFails(c) ==
    /\ stage[c] = "registered" /\ faults < MaxFaults
    /\ faults' = faults + 1
    /\ stage' = [stage EXCEPT ![c] = "positioned"]
    /\ UNCHANGED <<hubVars, latest, client, sync, link, browser, history>>

\* setSequence and setCursor.
Position(c) ==
    /\ stage[c] = "read"
    /\ client' = [client EXCEPT ![c].lastSeq = Max({@, latest[c]})]
    /\ MoveCursor(latest[c])
    /\ stage' = [stage EXCEPT ![c] = "positioned"]
    /\ base' = [base EXCEPT ![c] = latest[c]]
    /\ latest' = [latest EXCEPT ![c] = 0]
    /\ UNCHANGED <<head, signals, drain, sync, link, browser, sent, faults>>

\* The ready frame, then readLoop.
SendReady(c) ==
    /\ stage[c] = "positioned"
    /\ link' = Enqueue(link, c, Ready(client[c].lastSeq))
    /\ stage' = [stage EXCEPT ![c] = "serving"]
    /\ UNCHANGED <<hubVars, latest, client, sync, browser, history, faults>>

\* readLoop ends once the socket is gone and no resume is running.  The last
\* connection takes the hub's cursor with it; what the hub knew of c is gone.
Unregister(c) ==
    /\ stage[c] = "serving" /\ ~link[c].up /\ sync[c].pc = "off"
    /\ stage' = [stage EXCEPT ![c] = "closed"]
    /\ cursor' = IF Registered = {c} THEN 0 ELSE cursor
    /\ client' = [client EXCEPT ![c] = NewClient]
    /\ base' = [base EXCEPT ![c] = 0] /\ sent' = [sent EXCEPT ![c] = {}]
    /\ UNCHANGED <<head, signals, drain, latest, sync, link, browser, jumped, faults>>

-----------------------------------------------------------------------------
(* drain *)

TakeSignal ==
    /\ drain.pc = "idle" /\ signals > 0
    /\ signals' = signals - 1
    /\ drain' = [drain EXCEPT !.pc = "check"]
    /\ UNCHANGED <<head, cursor, connVars, link, browser, history, faults>>

\* hasClients.
CheckClients ==
    /\ drain.pc = "check"
    /\ drain' = [drain EXCEPT !.pc = IF Registered = {} THEN "idleread" ELSE "read"]
    /\ UNCHANGED <<head, signals, cursor, connVars, link, browser, history, faults>>

\* advanceCursorToLatest, its query and its setCursor.
IdleRead ==
    /\ drain.pc = "idleread"
    /\ drain' = [drain EXCEPT !.pc = "idleset", !.last = head]
    /\ UNCHANGED <<head, signals, cursor, connVars, link, browser, history, faults>>

IdleSet ==
    /\ drain.pc = "idleset"
    /\ MoveCursor(drain.last)
    /\ drain' = DrainIdle
    /\ UNCHANGED <<head, signals, connVars, link, browser, base, sent, faults>>

\* cursorFor and Since; an empty page ends the drain.
ReadPage ==
    LET records == Since(cursor, DrainPage)
    IN  /\ drain.pc = "read"
        /\ drain' = IF records = {} THEN DrainIdle
                    ELSE [drain EXCEPT !.pc = "deliver", !.page = records,
                                       !.last = Max(records),
                                       !.full = Cardinality(records) = DrainPage]
        /\ UNCHANGED <<head, signals, cursor, connVars, link, browser, history, faults>>

\* Since or LatestSequence fails: the drain ends, the signal is spent.
DrainFails ==
    /\ drain.pc \in {"read", "idleread"} /\ faults < MaxFaults
    /\ faults' = faults + 1
    /\ drain' = DrainIdle
    /\ UNCHANGED <<head, signals, cursor, connVars, link, browser, history>>

\* deliver: the targets of the next record are listed under the hub's lock.
NextRecord ==
    /\ drain.pc = "deliver" /\ drain.targets = {} /\ drain.page # {}
    /\ drain' = [drain EXCEPT !.seq = Min(drain.page), !.page = @ \ {Min(drain.page)},
                              !.targets = Registered]
    /\ UNCHANGED <<head, signals, cursor, connVars, link, browser, history, faults>>

\* Mutant: live events are dropped instead of deferred during a resume.
Claim_Drops(c) ==
    LET n == drain.seq
    IN  /\ drain.pc = "deliver" /\ c \in drain.targets
        /\ IF n \in Wanted(c) /\ n > client[c].lastSeq /\ ~client[c].syncing
           THEN /\ client' = [client EXCEPT ![c].lastSeq = n]
                /\ drain' = [drain EXCEPT !.targets = @ \ {c}, !.target = c, !.pc = "push"]
           ELSE /\ drain' = [drain EXCEPT !.targets = @ \ {c}]
                /\ UNCHANGED client
        /\ UNCHANGED <<head, signals, cursor, stage, latest, sync, link, browser,
                       history, faults>>

\* wants, eventFor and send up to its unlock: skip, defer, or claim the event.
Claim(c) ==
    LET n == drain.seq
        live == n \in Wanted(c) /\ n > client[c].lastSeq
    IN  /\ drain.pc = "deliver" /\ c \in drain.targets
        /\ IF live /\ ~client[c].syncing
           THEN /\ client' = [client EXCEPT ![c].lastSeq = n]
                /\ drain' = [drain EXCEPT !.targets = @ \ {c}, !.target = c, !.pc = "push"]
           ELSE /\ client' = IF live THEN [client EXCEPT ![c].deferred = @ \union {n}] ELSE client
                /\ drain' = [drain EXCEPT !.targets = @ \ {c}]
        /\ UNCHANGED <<head, signals, cursor, stage, latest, sync, link, browser,
                       history, faults>>

\* send after its unlock.
Push ==
    LET c == drain.target
    IN  /\ drain.pc = "push"
        /\ link' = Enqueue(link, c, Event(drain.seq))
        /\ sent' = [sent EXCEPT ![c] = @ \union {drain.seq}]
        /\ drain' = [drain EXCEPT !.pc = "deliver", !.target = NoConn]
        /\ UNCHANGED <<head, signals, cursor, connVars, browser, base, jumped, faults>>

\* Mutant: one page per signal.
PageDone_OnePage ==
    /\ drain.pc = "deliver" /\ drain.targets = {} /\ drain.page = {}
    /\ cursor' = Max({cursor, drain.last})
    /\ drain' = DrainIdle
    /\ UNCHANGED <<head, signals, connVars, link, browser, history, faults>>

\* setCursor; a full page is followed by another round.
PageDone ==
    /\ drain.pc = "deliver" /\ drain.targets = {} /\ drain.page = {}
    /\ cursor' = Max({cursor, drain.last})
    /\ drain' = [DrainIdle EXCEPT !.pc = IF drain.full THEN "check" ELSE "idle"]
    /\ UNCHANGED <<head, signals, connVars, link, browser, history, faults>>

-----------------------------------------------------------------------------
(* resume *)

\* Mutant: the replay is filtered against the connection's own position.
BeginResume_NoRewind(c) ==
    /\ stage[c] = "serving" /\ sync[c].pc = "off" /\ link[c].req # NoRequest
    /\ link' = [link EXCEPT ![c].req = NoRequest]
    /\ client' = [client EXCEPT ![c].syncing = TRUE, ![c].deferred = {}]
    /\ sync' = [sync EXCEPT ![c] = [SyncOff EXCEPT !.pc = "read", !.from = link[c].req,
                                                   !.pos = link[c].req]]
    /\ UNCHANGED <<hubVars, stage, latest, browser, history, faults>>

\* beginSync and rewind to the browser's position.
BeginResume(c) ==
    /\ stage[c] = "serving" /\ sync[c].pc = "off" /\ link[c].req # NoRequest
    /\ link' = [link EXCEPT ![c].req = NoRequest]
    /\ client' = [client EXCEPT ![c] = [lastSeq |-> link[c].req, syncing |-> TRUE, deferred |-> {}]]
    /\ sync' = [sync EXCEPT ![c] = [SyncOff EXCEPT !.pc = "read", !.from = link[c].req,
                                                   !.pos = link[c].req]]
    /\ UNCHANGED <<hubVars, stage, latest, browser, history, faults>>

\* The next page of the replay; an empty one ends it.
ResumeRead(c) ==
    LET records == Since(sync[c].pos, ResumePage)
    IN  /\ sync[c].pc = "read"
        /\ sync' = [sync EXCEPT ![c].pc = IF records = {} THEN "end" ELSE "replay",
                                ![c].page = records,
                                ![c].full = Cardinality(records) = ResumePage]
        /\ UNCHANGED <<hubVars, stage, latest, client, link, browser, history, faults>>

\* One record of the page: push it unless the connection has it, and after the
\* last one decide whether there is another page.
Replay(c) ==
    LET s == sync[c]
        n == Min(s.page)
        push == n \in Wanted(c) /\ n > client[c].lastSeq
        delivered == IF push THEN s.delivered + 1 ELSE s.delivered
        last == s.page = {n}
        truncated == last /\ s.full /\ delivered >= MaxResume
    IN  /\ s.pc = "replay"
        /\ IF push
           THEN /\ client' = [client EXCEPT ![c].lastSeq = n]
                /\ link' = Enqueue(link, c, Event(n))
                /\ sent' = [sent EXCEPT ![c] = @ \union {n}]
           ELSE UNCHANGED <<client, link, sent>>
        /\ sync' = [sync EXCEPT ![c] =
              [s EXCEPT !.page = @ \ {n}, !.pos = n, !.delivered = delivered,
                        !.truncated = truncated,
                        !.pc = IF ~last THEN "replay"
                               ELSE IF s.full /\ ~truncated THEN "read" ELSE "end"]]
        /\ UNCHANGED <<hubVars, stage, latest, browser, base, jumped, faults>>

\* The deferred events that the replay did not cover.
Kept(c) == {n \in client[c].deferred : n > client[c].lastSeq}

\* client[c] after endSync.
Ended(c) == [lastSeq |-> Max(Kept(c) \union {client[c].lastSeq}),
             syncing |-> FALSE, deferred |-> {}]

EndSync(c) ==
    /\ sync[c].pc = "end"
    /\ client' = [client EXCEPT ![c] = Ended(c)]
    /\ sync' = [sync EXCEPT ![c].pc = "flush", ![c].flush = Kept(c)]
    /\ UNCHANGED <<hubVars, stage, latest, link, browser, history, faults>>

\* The kept events are pushed in order; live ones may come in between.
Flush(c) ==
    LET n == Min(sync[c].flush)
    IN  /\ sync[c].pc = "flush" /\ sync[c].flush # {}
        /\ link' = Enqueue(link, c, Event(n))
        /\ sent' = [sent EXCEPT ![c] = @ \union {n}]
        /\ sync' = [sync EXCEPT ![c].flush = @ \ {n}]
        /\ UNCHANGED <<hubVars, stage, latest, client, browser, base, jumped, faults>>

\* The resumed frame.
Answer(c) ==
    /\ sync[c].pc = "flush" /\ sync[c].flush = {}
    /\ link' = Enqueue(link, c, Resumed(sync[c].from, client[c].lastSeq, sync[c].truncated))
    /\ sync' = [sync EXCEPT ![c] = SyncOff]
    /\ UNCHANGED <<hubVars, stage, latest, client, browser, history, faults>>

\* Since fails: the deferred events are thrown away and the browser is told to
\* reload, which shows it all there is now.
ResumeFails(c) ==
    /\ sync[c].pc = "read" /\ faults < MaxFaults
    /\ faults' = faults + 1
    /\ client' = [client EXCEPT ![c] = Ended(c)]
    /\ sync' = [sync EXCEPT ![c] = SyncOff]
    /\ link' = Enqueue(link, c, Error)
    /\ base' = [base EXCEPT ![c] = head]
    /\ UNCHANGED <<hubVars, stage, latest, browser, sent, jumped>>

-----------------------------------------------------------------------------
(* Browsers *)

\* The position b has after a frame that may move it to n.
Moved(b, n) ==
    [browser[b] EXCEPT !.pos = Max({@, n}),
                       !.start = IF browser[b].pos = 0 THEN n ELSE @]

\* A dashboard believes the sequences of ready and resumed frames, a widget only
\* those of events.
Trusts(b, f) == f.kind = "event" \/ Kind[b] = "dashboard"

\* onmessage; a widget asks for its gap when ready comes.
Receive(c) ==
    LET b == Owner[c]
        f == Head(link[c].wire)
        moved == IF Trusts(b, f) THEN Moved(b, f.seq) ELSE browser[b]
    IN  /\ link[c].up /\ link[c].wire # <<>>
        /\ browser' = [browser EXCEPT ![b] =
              [moved EXCEPT !.got = IF f.kind = "event" THEN @ \union {f.seq} ELSE @,
                            !.settled = @ \/ (f.kind = "resumed" /\ ~f.truncated)]]
        /\ link' = [link EXCEPT ![c].wire = Tail(@),
                                ![c].req = IF f.kind = "ready" /\ Kind[b] = "widget"
                                              /\ browser[b].pos > 0
                                           THEN browser[b].pos ELSE @]
        /\ UNCHANGED <<hubVars, connVars, history, faults>>

\* The network, a sleeping laptop or the writer's timeout ends the connection;
\* frames on their way are lost.
Disconnect(c) ==
    /\ link[c].up
    /\ link' = [link EXCEPT ![c] = LinkDown]
    /\ UNCHANGED <<hubVars, connVars, browser, history, faults>>

-----------------------------------------------------------------------------
DrainStep == TakeSignal \/ CheckClients \/ IdleRead \/ IdleSet \/ ReadPage \/ NextRecord
             \/ Push \/ PageDone \/ \E c \in Conns : Claim(c)

Next ==
    \/ \E reaches \in BOOLEAN : Commit(reaches)
    \/ TakeSignal \/ CheckClients \/ IdleRead \/ IdleSet
    \/ ReadPage \/ DrainFails \/ NextRecord \/ Push \/ PageDone
    \/ \E c \in Conns :
          \/ Dial(c) \/ ReadLatest(c) \/ ReadLatestFails(c) \/ Position(c) \/ SendReady(c)
          \/ Unregister(c) \/ Claim(c)
          \/ BeginResume(c) \/ ResumeRead(c) \/ Replay(c) \/ EndSync(c) \/ Flush(c)
          \/ Answer(c) \/ ResumeFails(c)
          \/ Receive(c) \/ Disconnect(c)

\* The drain goroutine runs.  Nothing is asked of browsers, connections or signals.
Fairness == WF_vars(DrainStep)

Spec == Init /\ [][Next]_vars
FairSpec == Spec /\ Fairness

-----------------------------------------------------------------------------
(* Properties *)

Frame == [kind : {"event", "ready", "resumed", "error"}, seq : Nat, from : Nat, truncated : BOOLEAN]

HubTyped ==
    /\ head \in 0..MaxHead /\ signals \in 0..head
    /\ cursor \in 0..head /\ jumped \subseteq 1..head /\ faults \in 0..MaxFaults

DrainTyped ==
    drain \in [pc : {"idle", "check", "idleread", "idleset", "read", "deliver", "push"},
               page : SUBSET (1..head), last : 0..head, full : BOOLEAN, seq : 0..head,
               targets : SUBSET Conns, target : Conns \union {NoConn}]

ConnTyped ==
    /\ stage \in [Conns -> {"new", "registered", "read", "positioned", "serving", "closed"}]
    /\ latest \in [Conns -> 0..head] /\ base \in [Conns -> 0..head]
    /\ sent \in [Conns -> SUBSET (1..head)]
    /\ \A c \in Conns : sent[c] \subseteq Wanted(c)

ClientTyped ==
    client \in [Conns -> [lastSeq : 0..head, syncing : BOOLEAN, deferred : SUBSET (1..head)]]

SyncTyped ==
    sync \in [Conns -> [pc : {"off", "read", "replay", "end", "flush"}, from : 0..head,
                       pos : 0..head, page : SUBSET (1..head), full : BOOLEAN,
                       delivered : Nat, truncated : BOOLEAN, flush : SUBSET (1..head)]]

LinkTyped ==
    /\ link \in [Conns -> [up : BOOLEAN, wire : Seq(Frame), req : {NoRequest} \union 1..head]]
    /\ \A c \in Conns :
          /\ Len(link[c].wire) <= QueueSize
          /\ \A i \in 1..Len(link[c].wire) : link[c].wire[i].seq <= head

BrowserTyped ==
    /\ browser \in [Browsers -> [pos : 0..head, start : 0..head, got : SUBSET (1..head),
                                 settled : BOOLEAN]]
    /\ \A b \in Browsers : browser[b].got \subseteq 1..browser[b].pos

\* Positions are within the log, queues within their bound, and live events are
\* deferred exactly while a replay runs.
TypeOK ==
    /\ HubTyped /\ DrainTyped /\ ConnTyped /\ ClientTyped /\ SyncTyped
    /\ LinkTyped /\ BrowserTyped
    /\ \A c \in Conns : client[c].syncing <=> sync[c].pc \in {"read", "replay", "end"}

\* What a connection has been given, or will be by the steps under way.
Given(c) == sent[c] \union client[c].deferred \union sync[c].flush

\* Events up to the hub's cursor from the position c was told at its start, or from
\* when it was told to reload.
Promised(c) == {n \in Wanted(c) : base[c] < n /\ n <= cursor}

Current == {c \in Conns : stage[c] = "serving" /\ link[c].up}

\* Every event the drain has passed was given to every connection that serves,
\* through resumes, page boundaries, lost signals and connections that come and
\* go in the middle of a page; only what a cursor jump passed over is missing.
DrainedMeansGiven == \A c \in Current : Promised(c) \ jumped \subseteq Given(c)

\* A resumed frame that does not admit a truncation tells the truth: everything
\* it covers was pushed before it, or is in the drain's hands right now.
ResumedMeansComplete ==
    \A c \in Conns : \A f \in Range(link[c].wire) :
        f.kind = "resumed" /\ ~f.truncated =>
            \A n \in Wanted(c) \ jumped :
                f.from < n /\ n <= f.seq =>
                    n \in sent[c] \/ (drain.target = c /\ drain.seq = n)

\* One signal brings the hub level with the log, however many events it stands
\* for and whichever signals before it were lost, unless a query fails.
SignalsConverge ==
    \A n \in InitialHead + 1..MaxHead :
        signals > 0 /\ n <= head /\ faults = MaxFaults ~> cursor >= n \/ Registered = {}

\* hub.go:92-95: "Reading from the log means a signal that arrives late, out of
\* order, or not at all still converges on the right answer."
NothingPassedOver == \A c \in Current : Promised(c) \subseteq Given(c)

\* socket.ts:5-9: "a dropped connection (a laptop sleeping, a flaky mobile
\* network) never loses a message: the server replays the gap".  Once the replay
\* is acknowledged nothing from the first position on is missing.
ReconnectLosesNothing ==
    \A b \in Browsers : browser[b].settled =>
        {n \in Wants[b] : browser[b].start < n /\ n <= browser[b].pos} \ jumped
            \subseteq browser[b].got
=============================================================================
