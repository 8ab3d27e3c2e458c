-------------------------- MODULE RealtimeHub_proofs --------------------------
(***************************************************************************)
(* What the hub promises for any connections, browsers, positions, page    *)
(* and queue sizes: types, that no event the drain has passed is missing   *)
(* on a connection (only a cursor jump passes over one), and that a resume *)
(* is answered truthfully.                                                 *)
(***************************************************************************)
EXTENDS RealtimeHub, FiniteSetTheorems, WellFoundedInduction, TLAPS

Syncing == {"read", "replay", "end"}
Working == {"deliver", "push"}

\* The drain names targets only while it goes through a page, in ascending order,
\* and the cursor is before the page unless it has jumped.
DrainShape ==
    /\ drain.pc \notin Working => drain.targets = {} /\ drain.seq = 0
    /\ drain.pc # "push" => drain.target = NoConn
    /\ drain.pc = "push" => drain.target \in Conns /\ drain.seq \in Wanted(drain.target)
    /\ drain.pc \in Working =>
          /\ drain.seq <= drain.last
          /\ \A n \in drain.page : drain.seq < n /\ n <= drain.last
          /\ \A n \in drain.page \union {drain.seq} : n <= cursor => n = 0 \/ n \in jumped

\* A socket that is down has nothing on its way; a browser has one at a time.
LinkShape ==
    /\ \A c \in Conns : ~link[c].up => link[c] = LinkDown
    /\ \A c \in Conns : link[c].up => c \in Registered
    /\ \A c, d \in Conns : Owner[c] = Owner[d] /\ link[c].up /\ link[d].up => c = d
    /\ \A c \in Conns : \A i \in 1..Len(link[c].wire) :
          link[c].wire[i].kind = "event" => link[c].wire[i].seq > 0

\* A resume replays from the browser's position on; what it has read it has sent.
\* Without a truncation it reads beyond the position the connection started from.
SyncShape(c) ==
    /\ stage[c] = "read" => base[c] <= latest[c]
    /\ sync[c].pc # "off" => stage[c] = "serving"
    /\ sync[c].pc \notin Syncing => client[c].deferred = {}
    /\ sync[c].pc # "flush" => sync[c].flush = {}
    /\ sync[c].flush \subseteq Wanted(c)
    /\ \A n \in client[c].deferred : n \in Wanted(c) /\ sync[c].from < n
    /\ sync[c].pc \in Syncing =>
          sync[c].from <= client[c].lastSeq /\ client[c].lastSeq <= sync[c].pos
    /\ sync[c].pc # "off" =>
          \A n \in Wanted(c) : sync[c].from < n /\ n <= sync[c].pos => n \in sent[c]
    /\ sync[c].pc = "replay" =>
          \E k \in 1..head : /\ sync[c].page = (sync[c].pos + 1)..k /\ sync[c].pos < k
                             /\ sync[c].full \/ base[c] <= k
    /\ sync[c].pc \in {"end", "flush"} => sync[c].truncated \/ base[c] <= sync[c].pos

Shape == DrainShape /\ LinkShape /\ \A c \in Conns : SyncShape(c)

\* Event n has been given to c, or will be by a step under way.
Has(c, n) ==
    \/ n \in sent[c] \/ n \in client[c].deferred \/ n \in sync[c].flush
    \/ drain.target = c /\ drain.seq = n

\* Nothing up to m is missing on c.
Covered(c, m) == \A n \in Wanted(c) \ jumped : base[c] < n /\ n <= m => Has(c, n)

\* The positions on c's link: of frames on their way, of a request for a resume, and
\* of the browser at its other end.
OnLink(c) ==
    {link[c].wire[i].seq : i \in 1..Len(link[c].wire)}
        \union {n \in {link[c].req} : n # NoRequest}
        \union {n \in {browser[Owner[c]].pos} : link[c].up}

\* The positions that c, its goroutine, its browser or the hub may take for granted.
Known(c) ==
    {cursor, client[c].lastSeq} \union client[c].deferred \union sync[c].flush
        \union {n \in {drain.seq} : drain.target = c} \union OnLink(c)

\* The page at work: only what is left of it, and the record at hand, may be missing.
PageCovered(c) ==
    drain.pc \in Working =>
        \A n \in Wanted(c) \ jumped :
            base[c] < n /\ n <= drain.last =>
                n \in drain.page \/ (n = drain.seq /\ c \in drain.targets) \/ Has(c, n)

Coverage == \A c \in Registered : PageCovered(c) /\ \A m \in Known(c) : Covered(c, m)

\* Frame f, if it answers a resume without a truncation, tells the truth.
Truthful(c, f) ==
    f.kind = "resumed" /\ ~f.truncated =>
        \A n \in Wanted(c) \ jumped :
            f.from < n /\ n <= f.seq => n \in sent[c] \/ (drain.target = c /\ drain.seq = n)

Truth == \A c \in Conns : \A i \in 1..Len(link[c].wire) : Truthful(c, link[c].wire[i])

HubInv == TypeOK /\ Shape /\ Coverage /\ Truth

-----------------------------------------------------------------------------
(* Least and greatest elements *)

LEMMA HasLeast ==
    ASSUME NEW S, S \subseteq Nat, S # {}
    PROVE  \E n \in S : \A m \in S : n <= m
<1> DEFINE R == OpToRel(<, Nat)
<1>1. PICK n \in S : \A m \in S : ~(<<m, n>> \in R)
  BY NatLessThanWellFounded, WFMin
<1>2. \A m \in S : ~(m < n)  BY <1>1 DEF OpToRel
<1> QED  BY <1>2

\* Min, of a page or of a flush.
LEMMA LeastOf ==
    ASSUME NEW S, S \subseteq Nat, S # {}
    PROVE  Min(S) \in S /\ \A m \in S : Min(S) <= m
<1>1. \E n \in S : \A m \in S : n <= m  BY HasLeast
<1> QED  BY <1>1 DEF Min

\* Max, of a set with a bound: its least bound belongs to it.
LEMMA GreatestOf ==
    ASSUME NEW S, S \subseteq Nat, S # {}, NEW b \in Nat, \A m \in S : m <= b
    PROVE  Max(S) \in S /\ \A m \in S : m <= Max(S)
<1> DEFINE Bounds == {n \in Nat : \A m \in S : m <= n}
<1>1. PICK n \in Bounds : \A k \in Bounds : n <= k
  <2>1. b \in Bounds  OBVIOUS
  <2>2. Bounds \subseteq Nat  OBVIOUS
  <2> HIDE DEF Bounds
  <2> QED  BY <2>1, <2>2, HasLeast
<1>2. n \in S
  <2> SUFFICES ASSUME n \notin S PROVE FALSE  OBVIOUS
  <2>1. \A m \in S : m <= n - 1  BY <1>1
  <2>2. n - 1 \in Nat
    <3>1. PICK m \in S : TRUE  OBVIOUS
    <3>2. n \in Nat /\ m \in Nat /\ m <= n - 1  BY <1>1, <2>1, <3>1
    <3> QED  BY <3>2
  <2>3. n - 1 \in Bounds  BY <2>1, <2>2
  <2> QED  BY <1>1, <2>3
<1>3. \A m \in S : n >= m  BY <1>1
<1> QED  BY <1>2, <1>3 DEF Max

\* Max, of a position that never goes back.
LEMMA GreaterOf ==
    ASSUME NEW m \in Nat, NEW n \in Nat
    PROVE  Max({m, n}) = IF m >= n THEN m ELSE n
<1>1. CASE m >= n
  <2>1. Max({m, n}) \in {m, n} /\ \A k \in {m, n} : Max({m, n}) >= k  BY <1>1 DEF Max
  <2> QED  BY <1>1, <2>1
<1>2. CASE ~(m >= n)
  <2>1. Max({m, n}) \in {m, n} /\ \A k \in {m, n} : Max({m, n}) >= k  BY <1>2 DEF Max
  <2> QED  BY <1>2, <2>1
<1> QED  BY <1>1, <1>2

\* Since returns the rows after n, up to a page or the head of the log; only
\* without any row after n it returns none.
LEMMA SinceIs ==
    ASSUME HubTyped, NEW n \in 0..head, NEW limit \in Nat \ {0}
    PROVE  /\ Since(n, limit) = {} => n = head
           /\ Since(n, limit) # {} =>
                 \E k \in 1..head : /\ Since(n, limit) = (n + 1)..k /\ n < k
                                    /\ Max(Since(n, limit)) = k
                                    /\ Cardinality(Since(n, limit)) = limit \/ k = head
<1> DEFINE k == Min({head, n + limit})
<1>1. head \in Nat /\ n \in Nat /\ n + limit \in Nat /\ n <= head  BY DEF HubTyped
<1>2. k \in {head, n + limit} /\ k <= head /\ k <= n + limit
  BY <1>1, LeastOf, {head, n + limit} \subseteq Nat, {head, n + limit} # {}
<1>3. Since(n, limit) = (n + 1)..k  BY DEF Since
<1> HIDE DEF k
<1>4. CASE n = head
  BY <1>1, <1>2, <1>3, <1>4
<1>5. CASE n < head
  <2>1. n < k /\ k \in 1..head  BY <1>1, <1>2, <1>5
  <2>2. Max((n + 1)..k) = k
    <3>1. k \in (n + 1)..k /\ \A m \in (n + 1)..k : k >= m  BY <1>1, <2>1
    <3>2. Max((n + 1)..k) \in (n + 1)..k /\ \A m \in (n + 1)..k : Max((n + 1)..k) >= m
      BY <3>1 DEF Max
    <3> QED  BY <1>1, <2>1, <3>1, <3>2
  <2>3. Cardinality((n + 1)..k) = k - n
    BY <1>1, <2>1, FS_Interval, n + 1 \in Int, k \in Int
  <2> QED  BY <1>1, <1>2, <1>3, <2>1, <2>2, <2>3
<1> QED  BY <1>1, <1>4, <1>5

-----------------------------------------------------------------------------
(* Which operation writes what *)

Serving(c) == Dial(c) \/ ReadLatest(c) \/ ReadLatestFails(c) \/ Position(c) \/ SendReady(c)
              \/ Unregister(c)
Resuming(c) == BeginResume(c) \/ ResumeRead(c) \/ Replay(c) \/ EndSync(c) \/ Flush(c)
               \/ Answer(c) \/ ResumeFails(c)
Draining == TakeSignal \/ CheckClients \/ IdleRead \/ IdleSet \/ ReadPage \/ DrainFails
            \/ NextRecord \/ Push \/ PageDone \/ \E c \in Conns : Claim(c)

\* The operations, by who runs them.
LEMMA Steps ==
    Next => \/ \E reaches \in BOOLEAN : Commit(reaches)
            \/ Draining
            \/ \E c \in Conns : Serving(c) \/ Resuming(c) \/ Receive(c) \/ Disconnect(c)
BY DEF Next, Draining, Serving, Resuming

LEMMA CommitWrites ==
    ASSUME NEW reaches \in BOOLEAN, Commit(reaches)
    PROVE  /\ head < MaxHead /\ head' = head + 1 /\ signals' \in {signals, signals + 1}
           /\ UNCHANGED <<cursor, drain, stage, latest, client, sync, link, browser, base,
                          sent, jumped, faults>>
BY DEF Commit, connVars, history

\* What the drain goroutine leaves alone.
LEMMA DrainingWrites ==
    ASSUME Draining
    PROVE  /\ UNCHANGED <<head, stage, latest, sync, browser, base>>
           /\ TakeSignal \/ signals' = signals
           /\ IdleSet \/ PageDone \/ cursor' = cursor
           /\ IdleSet \/ jumped' = jumped
           /\ DrainFails \/ faults' = faults
           /\ (\E c \in Conns : Claim(c)) \/ client' = client
           /\ Push \/ (link' = link /\ sent' = sent)
BY DEF Draining, TakeSignal, CheckClients, IdleRead, IdleSet, ReadPage, DrainFails,
       NextRecord, Push, PageDone, Claim, MoveCursor, connVars, history

\* What opening and closing a connection leaves alone.
LEMMA ServingWrites ==
    ASSUME NEW c \in Conns, Serving(c)
    PROVE  /\ UNCHANGED <<head, signals, drain, sync>>
           /\ Position(c) \/ Unregister(c) \/ cursor' = cursor
           /\ Position(c) \/ jumped' = jumped
           /\ ReadLatestFails(c) \/ faults' = faults
           /\ ReadLatest(c) \/ Position(c) \/ latest' = latest
           /\ Position(c) \/ Unregister(c) \/ client' = client
           /\ Dial(c) \/ SendReady(c) \/ link' = link
           /\ Dial(c) \/ browser' = browser
           /\ Dial(c) \/ Position(c) \/ Unregister(c) \/ base' = base
           /\ Unregister(c) \/ sent' = sent
BY DEF Serving, Dial, ReadLatest, ReadLatestFails, Position, SendReady, Unregister,
       MoveCursor, hubVars, history

\* What a resume leaves alone.
LEMMA ResumingWrites ==
    ASSUME NEW c \in Conns, Resuming(c)
    PROVE  /\ UNCHANGED <<head, signals, cursor, drain, stage, latest, browser, jumped>>
           /\ ResumeFails(c) \/ (faults' = faults /\ base' = base)
           /\ Replay(c) \/ Flush(c) \/ sent' = sent
           /\ ResumeRead(c) \/ Flush(c) \/ Answer(c) => client' = client
           /\ ResumeRead(c) \/ EndSync(c) => link' = link
BY DEF Resuming, BeginResume, ResumeRead, Replay, EndSync, Flush, Answer, ResumeFails,
       hubVars, history

LEMMA ReceiveWrites ==
    ASSUME NEW c \in Conns, Receive(c) \/ Disconnect(c)
    PROVE  /\ UNCHANGED <<head, signals, cursor, drain, stage, latest, client, sync, base,
                          sent, jumped, faults>>
           /\ Receive(c) \/ browser' = browser
BY DEF Receive, Disconnect, hubVars, connVars, history

-----------------------------------------------------------------------------
(* Pushing a frame *)

\* What a step that enqueues frame to c does to the links.
Pushes(c, frame) ==
    /\ link' \in [Conns -> [up : BOOLEAN, wire : Seq(Frame), req : {NoRequest} \union 1..head]]
    /\ \A d \in Conns : d # c => link'[d] = link[d]
    /\ \/ ~link[c].up /\ link'[c] = link[c]
       \/ link[c].up /\ link'[c] = LinkDown
       \/ /\ link[c].up /\ link'[c].up /\ link'[c].req = link[c].req
          /\ Len(link[c].wire) < QueueSize
          /\ link'[c].wire = Append(link[c].wire, frame)

LEMMA EnqueuePushes ==
    ASSUME LinkTyped, NEW c \in Conns, NEW frame \in Frame, link' = Enqueue(link, c, frame)
    PROVE  Pushes(c, frame)
<1> USE DEF LinkTyped
<1>1. CASE ~link[c].up
  BY <1>1 DEF Enqueue, Pushes
<1>2. CASE link[c].up /\ Len(link[c].wire) < QueueSize
  <2>1. link' = [link EXCEPT ![c].wire = Append(@, frame)]  BY <1>2 DEF Enqueue
  <2>2. Append(link[c].wire, frame) \in Seq(Frame)  OBVIOUS
  <2>3. link'[c] = [link[c] EXCEPT !.wire = Append(@, frame)] /\ \A d \in Conns : d # c => link'[d] = link[d]
    BY <2>1
  <2>4. link' \in [Conns -> [up : BOOLEAN, wire : Seq(Frame), req : {NoRequest} \union 1..head]]
    BY <2>1, <2>2
  <2> QED  BY <1>2, <2>3, <2>4 DEF Pushes
<1>3. CASE link[c].up /\ ~(Len(link[c].wire) < QueueSize)
  <2>1. link' = [link EXCEPT ![c] = LinkDown]  BY <1>3 DEF Enqueue
  <2>2. LinkDown \in [up : BOOLEAN, wire : Seq(Frame), req : {NoRequest} \union 1..head]
    BY DEF LinkDown
  <2> QED  BY <1>3, <2>1, <2>2 DEF Pushes
<1> QED  BY <1>1, <1>2, <1>3

\* Whatever holds of the frame and of all frames on their way still does.
LEMMA PushesNothingElse ==
    ASSUME LinkTyped, NEW c \in Conns, NEW frame \in Frame, Pushes(c, frame), NEW d \in Conns,
           NEW i \in 1..Len(link'[d].wire)
    PROVE  \/ i \in 1..Len(link[d].wire) /\ link'[d].wire[i] = link[d].wire[i]
           \/ d = c /\ link[c].up /\ link'[d].wire[i] = frame
<1>1. CASE d # c
  BY <1>1 DEF Pushes
<1>2. CASE d = c
  <2>1. CASE ~link[c].up /\ link'[c] = link[c]  BY <1>2, <2>1
  <2>2. CASE link'[c] = LinkDown  BY <1>2, <2>2 DEF LinkDown
  <2>3. CASE link[c].up /\ link'[c].wire = Append(link[c].wire, frame)
    <3>1. link[c].wire \in Seq(Frame)  BY DEF LinkTyped
    <3>2. Len(link'[c].wire) = Len(link[c].wire) + 1 /\ Len(link[c].wire) \in Nat
      BY <2>3, <3>1
    <3>3. i = Len(link[c].wire) + 1 => link'[c].wire[i] = frame
      BY <2>3, <3>1, <3>2
    <3>4. i \in 1..Len(link[c].wire) => link'[c].wire[i] = link[c].wire[i]
      BY <2>3, <3>1, <3>2
    <3> QED  BY <1>2, <2>3, <3>2, <3>3, <3>4
  <2> QED  BY <1>2, <2>1, <2>2, <2>3 DEF Pushes
<1> QED  BY <1>1, <1>2

LEMMA PushesTyped ==
    ASSUME LinkTyped, HubAssumption, NEW c \in Conns, NEW frame \in Frame, Pushes(c, frame),
           frame.seq <= head, head' = head
    PROVE  LinkTyped'
<1>1. ASSUME NEW d \in Conns PROVE Len(link'[d].wire) <= QueueSize
  <2>1. CASE d # c  BY <2>1 DEF Pushes, LinkTyped
  <2>2. CASE d = c /\ ~link[c].up  BY <2>2 DEF Pushes, LinkTyped
  <2>3. CASE link'[c] = LinkDown /\ d = c  BY <2>3 DEF LinkDown, HubAssumption
  <2>4. CASE /\ d = c /\ Len(link[c].wire) < QueueSize
             /\ link'[c].wire = Append(link[c].wire, frame)
    <3>1. link[c].wire \in Seq(Frame)  BY DEF LinkTyped
    <3> QED  BY <2>4, <3>1 DEF HubAssumption
  <2> QED  BY <2>1, <2>2, <2>3, <2>4 DEF Pushes
<1>2. ASSUME NEW d \in Conns, NEW i \in 1..Len(link'[d].wire)
      PROVE  link'[d].wire[i].seq <= head
  <2>1. \/ i \in 1..Len(link[d].wire) /\ link'[d].wire[i] = link[d].wire[i]
        \/ link'[d].wire[i] = frame
    BY <1>2, PushesNothingElse
  <2> QED  BY <2>1 DEF LinkTyped
<1> QED  BY <1>1, <1>2 DEF LinkTyped, Pushes

-----------------------------------------------------------------------------
(* Types *)

LEMMA InitTyped == HubAssumption /\ Init => TypeOK
<1> SUFFICES ASSUME HubAssumption, Init PROVE TypeOK  OBVIOUS
<1>1. HubTyped /\ DrainTyped
  BY DEF Init, HubAssumption, HubTyped, DrainTyped, DrainIdle
<1>2. ConnTyped /\ ClientTyped /\ SyncTyped
  BY DEF Init, HubAssumption, ConnTyped, ClientTyped, SyncTyped, NewClient, SyncOff
<1>3. LinkTyped
  BY DEF Init, HubAssumption, LinkTyped, LinkDown
<1>4. BrowserTyped
  BY DEF Init, HubAssumption, BrowserTyped
<1> QED  BY <1>1, <1>2, <1>3, <1>4 DEF Init, TypeOK, NewClient, SyncOff

\* A longer log leaves every position within it.
LEMMA CommitTyped ==
    ASSUME TypeOK, HubAssumption, NEW reaches \in BOOLEAN, Commit(reaches)
    PROVE  TypeOK'
<1>1. /\ head \in 0..MaxHead /\ head < MaxHead /\ head' = head + 1 /\ MaxHead \in Nat
      /\ 0..head \subseteq 0..head' /\ 1..head \subseteq 1..head'
  BY CommitWrites DEF TypeOK, HubTyped, HubAssumption
<1>2. HubTyped'
  <2>1. signals \in 0..head /\ signals' \in 0..head'
    BY <1>1, CommitWrites DEF TypeOK, HubTyped
  <2>2. jumped' = jumped /\ jumped \subseteq 1..head /\ cursor' = cursor /\ faults' = faults
    BY CommitWrites DEF TypeOK, HubTyped
  <2> QED  BY <1>1, <2>1, <2>2 DEF TypeOK, HubTyped
<1>3. DrainTyped'
  BY <1>1, CommitWrites DEF TypeOK, DrainTyped
<1>4. ConnTyped'
  BY <1>1, CommitWrites DEF TypeOK, ConnTyped, Wanted
<1>5. ClientTyped'
  <2>1. \A c \in Conns : client[c] \in [lastSeq : 0..head', syncing : BOOLEAN,
                                        deferred : SUBSET (1..head')]
    BY <1>1 DEF TypeOK, ClientTyped
  <2>2. client' = client /\ client = [c \in Conns |-> client[c]]
    BY CommitWrites DEF TypeOK, ClientTyped
  <2> QED  BY <2>1, <2>2 DEF ClientTyped
<1>6. SyncTyped'
  <2>1. \A c \in Conns :
           sync[c] \in [pc : {"off", "read", "replay", "end", "flush"}, from : 0..head',
                        pos : 0..head', page : SUBSET (1..head'), full : BOOLEAN,
                        delivered : Nat, truncated : BOOLEAN, flush : SUBSET (1..head')]
    BY <1>1 DEF TypeOK, SyncTyped
  <2>2. sync' = sync /\ sync = [c \in Conns |-> sync[c]]
    BY CommitWrites DEF TypeOK, SyncTyped
  <2> QED  BY <2>1, <2>2 DEF SyncTyped
<1>7. LinkTyped'
  <2>1. \A c \in Conns :
           link[c] \in [up : BOOLEAN, wire : Seq(Frame), req : {NoRequest} \union 1..head']
    BY <1>1 DEF TypeOK, LinkTyped
  <2>2. link' = link /\ link = [c \in Conns |-> link[c]]
    BY CommitWrites DEF TypeOK, LinkTyped
  <2>3. \A c \in Conns : \A i \in 1..Len(link[c].wire) : link[c].wire[i].seq <= head'
    <3>1. ASSUME NEW c \in Conns, NEW i \in 1..Len(link[c].wire)
          PROVE  link[c].wire[i].seq <= head'
      <4>1. link[c].wire \in Seq(Frame)  BY DEF TypeOK, LinkTyped
      <4>2. link[c].wire[i] \in Frame  BY <4>1
      <4>3. link[c].wire[i].seq \in Nat  BY <4>2 DEF Frame
      <4> QED  BY <1>1, <4>3 DEF TypeOK, LinkTyped
    <3> QED  BY <3>1
  <2> QED  BY <2>1, <2>2, <2>3 DEF TypeOK, LinkTyped
<1>8. BrowserTyped'
  <2>1. \A b \in Browsers :
           browser[b] \in [pos : 0..head', start : 0..head', got : SUBSET (1..head'),
                           settled : BOOLEAN]
    BY <1>1 DEF TypeOK, BrowserTyped
  <2>2. browser' = browser /\ browser = [b \in Browsers |-> browser[b]]
    BY CommitWrites DEF TypeOK, BrowserTyped
  <2> QED  BY <2>1, <2>2 DEF TypeOK, BrowserTyped
<1> QED  BY <1>2, <1>3, <1>4, <1>5, <1>6, <1>7, <1>8, CommitWrites DEF TypeOK

\* The drain goroutine.
LEMMA DrainingTyped ==
    ASSUME TypeOK, Shape, HubAssumption, Draining
    PROVE  TypeOK'
<1>0. /\ UNCHANGED <<head, stage, latest, sync, browser, base>>
      /\ head \in Nat /\ cursor \in 0..head
      /\ HubTyped /\ DrainTyped /\ ConnTyped /\ ClientTyped /\ LinkTyped
  BY DrainingWrites DEF TypeOK, HubTyped
<1>1. HubTyped'
  <2>1. CASE TakeSignal
    BY <1>0, <2>1 DEF TakeSignal, HubTyped, history
  <2>2. CASE IdleSet
    <3>1. drain.last \in 0..head  BY <1>0 DEF DrainTyped
    <3>2. Max({cursor, drain.last}) \in 0..head  BY <1>0, <3>1, GreaterOf
    <3>3. (cursor + 1)..drain.last \subseteq 1..head  BY <1>0, <3>1
    <3>4. jumped' = jumped \union (cursor + 1)..drain.last /\ jumped \subseteq 1..head
      BY <1>0, <2>2 DEF IdleSet, MoveCursor, HubTyped
    <3>5. cursor' \in 0..head  BY <2>2, <3>2 DEF IdleSet, MoveCursor
    <3> QED  BY <1>0, <2>2, <3>3, <3>4, <3>5 DEF IdleSet, HubTyped
  <2>3. CASE PageDone
    <3>1. drain.last \in 0..head  BY <1>0 DEF DrainTyped
    <3>2. Max({cursor, drain.last}) \in 0..head  BY <1>0, <3>1, GreaterOf
    <3> QED  BY <1>0, <2>3, <3>2 DEF PageDone, HubTyped, history
  <2>4. CASE DrainFails
    BY <1>0, <2>4 DEF DrainFails, HubTyped, HubAssumption, history
  <2> QED  BY <1>0, <2>1, <2>2, <2>3, <2>4, DrainingWrites DEF HubTyped
<1>2. DrainTyped'
  <2> USE <1>0 DEF DrainTyped
  <2>1. CASE TakeSignal  BY <2>1 DEF TakeSignal
  <2>2. CASE CheckClients  BY <2>2 DEF CheckClients
  <2>3. CASE IdleRead
    <3>1. drain' = [drain EXCEPT !.pc = "idleset", !.last = head] /\ head \in 0..head
      BY <2>3 DEF IdleRead
    <3> QED  BY <3>1
  <2>4. CASE IdleSet \/ DrainFails \/ PageDone
    <3>1. DrainIdle \in [pc : {"idle", "check", "idleread", "idleset", "read", "deliver", "push"},
                         page : SUBSET (1..head), last : 0..head, full : BOOLEAN, seq : 0..head,
                         targets : SUBSET Conns, target : Conns \union {NoConn}]
      BY <1>0 DEF DrainIdle
    <3>2. drain' = DrainIdle \/ drain' = [DrainIdle EXCEPT !.pc = "check"]
          \/ drain' = [DrainIdle EXCEPT !.pc = "idle"]
      BY <2>4 DEF IdleSet, DrainFails, PageDone
    <3> QED  BY <3>1, <3>2
  <2>5. CASE ReadPage
    <3>1. CASE Since(cursor, DrainPage) = {}
      BY <2>5, <3>1 DEF ReadPage, DrainIdle
    <3>2. CASE Since(cursor, DrainPage) # {}
      <4>1. PICK k \in 1..head : /\ Since(cursor, DrainPage) = (cursor + 1)..k
                                 /\ Max(Since(cursor, DrainPage)) = k
        BY <3>2, SinceIs DEF HubAssumption
      <4>2. /\ drain'.page = (cursor + 1)..k /\ drain'.last = k
            /\ drain' = [drain EXCEPT !.pc = "deliver", !.page = (cursor + 1)..k, !.last = k,
                                      !.full = Cardinality(Since(cursor, DrainPage)) = DrainPage]
        BY <2>5, <3>2, <4>1 DEF ReadPage
      <4>3. (cursor + 1)..k \subseteq 1..head /\ k \in 0..head  BY <4>1
      <4>4. (Cardinality(Since(cursor, DrainPage)) = DrainPage) \in BOOLEAN  OBVIOUS
      <4> QED  BY <4>2, <4>3, <4>4
    <3> QED  BY <3>1, <3>2
  <2>6. CASE NextRecord
    <3>1. Min(drain.page) \in drain.page /\ Min(drain.page) \in 1..head
      BY <2>6, LeastOf, drain.page \subseteq Nat DEF NextRecord
    <3>2. Registered \in SUBSET Conns  BY DEF Registered
    <3>3. drain.page \ {Min(drain.page)} \in SUBSET (1..head) /\ Min(drain.page) \in 0..head
      BY <3>1
    <3>4. drain' = [drain EXCEPT !.seq = Min(drain.page), !.page = drain.page \ {Min(drain.page)},
                                 !.targets = Registered]
      BY <2>6 DEF NextRecord
    <3> QED  BY <3>2, <3>3, <3>4
  <2>7. CASE Push  BY <2>7 DEF Push
  <2>8. CASE \E c \in Conns : Claim(c)
    <3>1. PICK c \in Conns : Claim(c)  BY <2>8
    <3>2. drain' = [drain EXCEPT !.targets = @ \ {c}, !.target = c, !.pc = "push"]
             \/ drain' = [drain EXCEPT !.targets = @ \ {c}]
      BY <3>1 DEF Claim
    <3>3. drain.targets \ {c} \in SUBSET Conns  OBVIOUS
    <3>4. CASE drain' = [drain EXCEPT !.targets = @ \ {c}]  BY <3>3, <3>4
    <3>5. CASE drain' = [drain EXCEPT !.targets = @ \ {c}, !.target = c, !.pc = "push"]
      BY <3>3, <3>5
    <3> QED  BY <3>2, <3>4, <3>5
  <2> QED  BY <2>1, <2>2, <2>3, <2>4, <2>5, <2>6, <2>7, <2>8 DEF Draining
<1>3. ConnTyped' /\ LinkTyped'
  <2>1. CASE Push
    <3>1. drain.target \in Conns /\ drain.seq \in Wanted(drain.target) /\ drain.seq \in 0..head
      BY <1>0, <2>1 DEF Push, Shape, DrainShape, DrainTyped
    <3>2. drain.seq \in 1..head
      BY <3>1 DEF Wanted, HubAssumption
    <3>3. ConnTyped'
      BY <1>0, <2>1, <3>1, <3>2 DEF Push, ConnTyped, Wanted
    <3>4. Event(drain.seq) \in Frame /\ Event(drain.seq).seq <= head
      BY <3>2 DEF Event, Frame
    <3>5. Pushes(drain.target, Event(drain.seq))
      BY <1>0, <2>1, <3>1, <3>4, EnqueuePushes DEF Push
    <3> QED  BY <1>0, <3>1, <3>3, <3>4, <3>5, PushesTyped
  <2>2. CASE link' = link /\ sent' = sent
    BY <1>0, <2>2 DEF ConnTyped, LinkTyped, Wanted
  <2> QED  BY <2>1, <2>2, DrainingWrites
<1>4. ClientTyped' /\ \A c \in Conns : client'[c].syncing = client[c].syncing
  <2>1. CASE \E c \in Conns : Claim(c)
    <3>1. PICK c \in Conns : Claim(c)  BY <2>1
    <3>2. \/ client' = client
          \/ client' = [client EXCEPT ![c].lastSeq = drain.seq]
          \/ drain.seq \in Wanted(c) /\ client' = [client EXCEPT ![c].deferred = @ \union {drain.seq}]
      BY <3>1 DEF Claim
    <3>3. drain.seq \in 0..head /\ (drain.seq \in Wanted(c) => drain.seq \in 1..head)
      BY <1>0 DEF DrainTyped, Wanted, HubAssumption
    <3> QED  BY <1>0, <3>2, <3>3 DEF ClientTyped
  <2>2. CASE client' = client
    BY <1>0, <2>2 DEF ClientTyped
  <2> QED  BY <2>1, <2>2, DrainingWrites
<1> QED  BY <1>0, <1>1, <1>2, <1>3, <1>4 DEF TypeOK, SyncTyped, BrowserTyped

\* Opening and closing a connection.
LEMMA ServingTyped ==
    ASSUME TypeOK, HubAssumption, NEW c \in Conns, Serving(c)
    PROVE  TypeOK'
<1>0. /\ UNCHANGED <<head, signals, drain, sync>>
      /\ head \in Nat /\ cursor \in 0..head /\ latest[c] \in 0..head
      /\ HubTyped /\ DrainTyped /\ ConnTyped /\ ClientTyped /\ SyncTyped /\ LinkTyped
      /\ BrowserTyped
  BY ServingWrites DEF TypeOK, HubTyped, ConnTyped
<1>1. HubTyped'
  <2>1. CASE Position(c)
    <3>1. Max({cursor, latest[c]}) \in 0..head  BY <1>0, GreaterOf
    <3>2. (cursor + 1)..latest[c] \subseteq 1..head  BY <1>0
    <3>3. /\ cursor' = Max({cursor, latest[c]}) /\ jumped' = jumped \union (cursor + 1)..latest[c]
          /\ jumped \subseteq 1..head /\ faults' = faults
      BY <1>0, <2>1 DEF Position, MoveCursor, HubTyped
    <3> QED  BY <1>0, <3>1, <3>2, <3>3 DEF HubTyped
  <2>2. CASE Unregister(c)
    BY <1>0, <2>2 DEF Unregister, HubTyped
  <2>3. CASE ReadLatestFails(c)
    BY <1>0, <2>3 DEF ReadLatestFails, HubTyped, HubAssumption, hubVars, history
  <2> QED  BY <1>0, <2>1, <2>2, <2>3, ServingWrites DEF HubTyped
<1>2. ConnTyped'
  <2>1. stage' \in [Conns -> {"new", "registered", "read", "positioned", "serving", "closed"}]
    BY <1>0 DEF ConnTyped, Serving, Dial, ReadLatest, ReadLatestFails, Position, SendReady,
                Unregister
  <2>2. latest' \in [Conns -> 0..head]
    <3>1. latest' \in {latest, [latest EXCEPT ![c] = head], [latest EXCEPT ![c] = 0]}
      BY ServingWrites DEF ReadLatest, Position
    <3> QED  BY <1>0, <3>1 DEF ConnTyped
  <2>3. base' \in [Conns -> 0..head]
    <3>1. base' \in {base, [base EXCEPT ![c] = head], [base EXCEPT ![c] = latest[c]],
                     [base EXCEPT ![c] = 0]}
      BY ServingWrites DEF Dial, Position, Unregister
    <3> QED  BY <1>0, <3>1 DEF ConnTyped
  <2>4. sent' = sent \/ sent' = [sent EXCEPT ![c] = {}]
    BY ServingWrites DEF Unregister
  <2>5. sent' \in [Conns -> SUBSET (1..head)] /\ \A d \in Conns : sent'[d] \subseteq Wanted(d)
    BY <1>0, <2>4 DEF ConnTyped
  <2> QED  BY <1>0, <2>1, <2>2, <2>3, <2>5 DEF ConnTyped, Wanted
<1>3. ClientTyped' /\ \A d \in Conns : client'[d].syncing <=> sync'[d].pc \in Syncing
  <2>0. \A d \in Conns : client[d].syncing <=> sync[d].pc \in Syncing  BY DEF TypeOK, Syncing
  <2>1. CASE Position(c)
    <3>1. client[c].lastSeq \in 0..head  BY <1>0 DEF ClientTyped
    <3>2. Max({client[c].lastSeq, latest[c]}) \in 0..head  BY <1>0, <3>1, GreaterOf
    <3>3. client' = [client EXCEPT ![c].lastSeq = Max({client[c].lastSeq, latest[c]})]
      BY <2>1 DEF Position
    <3> QED  BY <1>0, <2>0, <3>2, <3>3 DEF ClientTyped
  <2>2. CASE Unregister(c)
    <3>1. client' = [client EXCEPT ![c] = NewClient] /\ sync[c].pc = "off"
      BY <2>2 DEF Unregister
    <3>2. NewClient \in [lastSeq : 0..head, syncing : BOOLEAN, deferred : SUBSET (1..head)]
      BY <1>0 DEF NewClient
    <3> QED  BY <1>0, <2>0, <3>1, <3>2 DEF ClientTyped, NewClient, Syncing
  <2>3. CASE client' = client
    BY <1>0, <2>0, <2>3 DEF ClientTyped
  <2> QED  BY <2>1, <2>2, <2>3, ServingWrites
<1>4. LinkTyped' /\ BrowserTyped'
  <2>1. CASE Dial(c)
    <3>1. AskedOnOpen(Owner[c]) \in {NoRequest} \union 1..head
      BY <1>0 DEF AskedOnOpen, BrowserTyped, HubAssumption
    <3>2. /\ link' = [link EXCEPT ![c] = [up |-> TRUE, wire |-> <<>>, req |-> AskedOnOpen(Owner[c])]]
          /\ browser' = [browser EXCEPT ![Owner[c]].settled = FALSE]
      BY <2>1 DEF Dial
    <3>3. LinkTyped'  BY <1>0, <3>1, <3>2 DEF LinkTyped, HubAssumption
    <3>4. BrowserTyped'
      <4> USE <1>0 DEF BrowserTyped
      <4> DEFINE r == [browser[Owner[c]] EXCEPT !.settled = FALSE]
      <4>0. browser' = [browser EXCEPT ![Owner[c]] = r]  BY <3>2
      <4>1. r \in [pos : 0..head, start : 0..head, got : SUBSET (1..head), settled : BOOLEAN]
        <5>1. Owner[c] \in Browsers  BY DEF HubAssumption
        <5>2. browser[Owner[c]] \in [pos : 0..head, start : 0..head, got : SUBSET (1..head),
                                    settled : BOOLEAN]
          BY <5>1
        <5> QED  BY <5>2
      <4>2. \A b \in Browsers : browser'[b].got = browser[b].got /\ browser'[b].pos = browser[b].pos
        BY <1>0, <3>2 DEF BrowserTyped
      <4> HIDE DEF r
      <4>3. browser' \in [Browsers -> [pos : 0..head, start : 0..head, got : SUBSET (1..head),
                                      settled : BOOLEAN]]
        BY <4>0, <4>1
      <4> QED  BY <4>2, <4>3
    <3> QED  BY <3>3, <3>4
  <2>2. CASE SendReady(c)
    <3>1. client[c].lastSeq \in 0..head  BY <1>0 DEF ClientTyped
    <3>2. Ready(client[c].lastSeq) \in Frame /\ Ready(client[c].lastSeq).seq <= head
      BY <1>0, <3>1 DEF Ready, Frame
    <3>3. Pushes(c, Ready(client[c].lastSeq))
      BY <1>0, <2>2, <3>2, EnqueuePushes DEF SendReady
    <3> QED  BY <1>0, <2>2, <3>2, <3>3, PushesTyped DEF BrowserTyped, SendReady
  <2>3. CASE link' = link /\ browser' = browser
    BY <1>0, <2>3 DEF LinkTyped, BrowserTyped
  <2> QED  BY <2>1, <2>2, <2>3, ServingWrites
<1> QED  BY <1>0, <1>1, <1>2, <1>3, <1>4 DEF TypeOK, DrainTyped, SyncTyped, Syncing

\* What endSync leaves: no position goes back.
LEMMA EndedIs ==
    ASSUME TypeOK, NEW c \in Conns
    PROVE  /\ Ended(c).lastSeq \in Kept(c) \union {client[c].lastSeq}
           /\ \A n \in Kept(c) \union {client[c].lastSeq} : n <= Ended(c).lastSeq
           /\ Ended(c) \in [lastSeq : 0..head, syncing : BOOLEAN, deferred : SUBSET (1..head)]
           /\ ~Ended(c).syncing /\ Ended(c).deferred = {}
           /\ Kept(c) \subseteq 1..head
<1> DEFINE S == Kept(c) \union {client[c].lastSeq}
<1>1. head \in Nat /\ client[c].lastSeq \in 0..head /\ client[c].deferred \subseteq 1..head
  BY DEF TypeOK, HubTyped, ClientTyped
<1>2. Kept(c) \subseteq 1..head  BY <1>1 DEF Kept
<1>3. S \subseteq 0..head /\ S \subseteq Nat /\ S # {} /\ \A m \in S : m <= head
  BY <1>1, <1>2
<1> HIDE DEF S
<1>4. Max(S) \in S /\ \A m \in S : m <= Max(S)
  BY <1>1, <1>3, GreatestOf
<1>5. Ended(c) = [lastSeq |-> Max(S), syncing |-> FALSE, deferred |-> {}]
  BY DEF Ended, S
<1> QED  BY <1>1, <1>2, <1>3, <1>4, <1>5 DEF S

\* Record n of c's replay, k the last of its page: n comes right after the position,
\* and if the connection wants it, it has not been sent.
Replayed(c, k, n) ==
    /\ sync[c].pc = "replay" /\ stage[c] = "serving"
    /\ n = sync[c].pos + 1 /\ n <= k /\ (sync[c].full \/ base[c] <= k)
    /\ sync' = [sync EXCEPT ![c] = sync'[c]]
    /\ sync'[c] = [pc |-> sync'[c].pc, from |-> sync[c].from, pos |-> n,
                   page |-> (n + 1)..k, full |-> sync[c].full,
                   delivered |-> sync'[c].delivered,
                   truncated |-> sync'[c].truncated, flush |-> sync[c].flush]
    /\ sync'[c].delivered \in Nat /\ sync'[c].truncated \in BOOLEAN
    /\ \/ n < k /\ sync'[c].pc = "replay"
       \/ n = k /\ sync'[c].pc = "read"
       \/ n = k /\ sync'[c].pc = "end" /\ (~sync[c].full \/ sync'[c].truncated)
    /\ \/ /\ n \in Wanted(c) /\ n > client[c].lastSeq
          /\ client' = [client EXCEPT ![c].lastSeq = n]
          /\ link' = Enqueue(link, c, Event(n))
          /\ sent' = [sent EXCEPT ![c] = @ \union {n}]
       \/ n \notin Wanted(c) /\ UNCHANGED <<client, link, sent>>

\* A replay takes its page in order.
LEMMA ReplayIs ==
    ASSUME TypeOK, Shape, NEW c \in Conns, Replay(c)
    PROVE  \E k \in 1..head, n \in 1..head : Replayed(c, k, n)
<1> DEFINE n == sync[c].pos + 1
           m == Min(sync[c].page)
           push == m \in Wanted(c) /\ m > client[c].lastSeq
           delivered == IF push THEN sync[c].delivered + 1 ELSE sync[c].delivered
           last == sync[c].page = {m}
           truncated == last /\ sync[c].full /\ delivered >= MaxResume
<1>1. sync[c].pc = "replay"  BY DEF Replay
<1>2. PICK k \in 1..head : /\ sync[c].page = (sync[c].pos + 1)..k /\ sync[c].pos < k
                           /\ sync[c].full \/ base[c] <= k
  BY <1>1 DEF Shape, SyncShape
<1>3. /\ head \in Nat /\ sync[c].pos \in 0..head /\ sync[c].delivered \in Nat
      /\ client[c].lastSeq \in 0..head
  BY DEF TypeOK, HubTyped, SyncTyped, ClientTyped
<1>4. n \in 1..head /\ n <= k /\ n \in sync[c].page /\ \A i \in sync[c].page : n <= i
  BY <1>2, <1>3
<1>5. m = n
  <2>1. sync[c].page \subseteq Nat /\ sync[c].page # {}  BY <1>2, <1>3, <1>4
  <2>2. m \in sync[c].page /\ \A i \in sync[c].page : m <= i  BY <2>1, LeastOf
  <2> QED  BY <1>2, <1>3, <1>4, <2>2
<1>6. client[c].lastSeq <= sync[c].pos /\ stage[c] = "serving"
  BY <1>1 DEF Shape, SyncShape, Syncing
<1>7. /\ sync' = [sync EXCEPT ![c] =
              [sync[c] EXCEPT !.page = @ \ {m}, !.pos = m, !.delivered = delivered,
                        !.truncated = truncated,
                        !.pc = IF ~last THEN "replay"
                               ELSE IF sync[c].full /\ ~truncated THEN "read" ELSE "end"]]
      /\ IF push
           THEN /\ client' = [client EXCEPT ![c].lastSeq = m]
                /\ link' = Enqueue(link, c, Event(m))
                /\ sent' = [sent EXCEPT ![c] = @ \union {m}]
           ELSE UNCHANGED <<client, link, sent>>
  BY DEF Replay
<1>8. delivered \in Nat /\ truncated \in BOOLEAN  BY <1>3
<1>9. sync[c].page \ {n} = (n + 1)..k /\ (sync[c].page = {n} <=> n = k)
  BY <1>2, <1>3, <1>4
<1> HIDE DEF m, n
<1>10. /\ sync' = [sync EXCEPT ![c] = sync'[c]]
       /\ sync'[c] = [sync[c] EXCEPT !.page = (n + 1)..k, !.pos = n, !.delivered = delivered,
                        !.truncated = truncated,
                        !.pc = IF n # k THEN "replay"
                               ELSE IF sync[c].full /\ ~truncated THEN "read" ELSE "end"]
  BY <1>5, <1>7, <1>9 DEF TypeOK, SyncTyped
<1>11. IF push
           THEN /\ client' = [client EXCEPT ![c].lastSeq = n]
                /\ link' = Enqueue(link, c, Event(n))
                /\ sent' = [sent EXCEPT ![c] = @ \union {n}]
           ELSE UNCHANGED <<client, link, sent>>
  BY <1>5, <1>7
<1>12. push <=> n \in Wanted(c) /\ n > client[c].lastSeq  BY <1>5
<1>13. n > client[c].lastSeq  BY <1>3, <1>6 DEF n
<1> HIDE DEF push, delivered, truncated, last
<1>14. \/ n < k /\ sync'[c].pc = "replay"
       \/ n = k /\ sync'[c].pc = "read"
       \/ n = k /\ sync'[c].pc = "end" /\ (~sync[c].full \/ sync'[c].truncated)
  BY <1>3, <1>4, <1>10 DEF TypeOK, SyncTyped
<1>15. sync'[c] = [pc |-> sync'[c].pc, from |-> sync[c].from, pos |-> n,
                   page |-> (n + 1)..k, full |-> sync[c].full,
                   delivered |-> delivered, truncated |-> truncated, flush |-> sync[c].flush]
  <2>1. sync[c] = [pc |-> sync[c].pc, from |-> sync[c].from, pos |-> sync[c].pos,
                   page |-> sync[c].page, full |-> sync[c].full,
                   delivered |-> sync[c].delivered, truncated |-> sync[c].truncated,
                   flush |-> sync[c].flush]
    BY DEF TypeOK, SyncTyped
  <2> QED  BY <1>10, <2>1
<1>16. /\ sync'[c].from = sync[c].from /\ sync'[c].pos = n
       /\ sync'[c].page = (n + 1)..k /\ sync'[c].full = sync[c].full
       /\ sync'[c].delivered = delivered /\ sync'[c].truncated = truncated
       /\ sync'[c].flush = sync[c].flush
  BY <1>15
<1>17. \/ /\ n \in Wanted(c) /\ n > client[c].lastSeq
          /\ client' = [client EXCEPT ![c].lastSeq = n]
          /\ link' = Enqueue(link, c, Event(n))
          /\ sent' = [sent EXCEPT ![c] = @ \union {n}]
       \/ n \notin Wanted(c) /\ UNCHANGED <<client, link, sent>>
  BY <1>11, <1>12, <1>13
<1>18. n = sync[c].pos + 1  BY DEF n
<1>19. Replayed(c, k, n)
  BY <1>1, <1>2, <1>4, <1>6, <1>8, <1>10, <1>14, <1>15, <1>16, <1>17, <1>18 DEF Replayed
<1> QED  BY <1>4, <1>19

\* A resume.
LEMMA ResumingTyped ==
    ASSUME TypeOK, Shape, HubAssumption, NEW c \in Conns, Resuming(c)
    PROVE  TypeOK'
<1> DEFINE ClientRecord == [lastSeq : 0..head, syncing : BOOLEAN, deferred : SUBSET (1..head)]
           SyncRecord == [pc : {"off", "read", "replay", "end", "flush"}, from : 0..head,
                          pos : 0..head, page : SUBSET (1..head), full : BOOLEAN,
                          delivered : Nat, truncated : BOOLEAN, flush : SUBSET (1..head)]
<1>0. /\ UNCHANGED <<head, signals, cursor, drain, stage, latest, browser, jumped>>
      /\ head \in Nat /\ client[c] \in ClientRecord /\ sync[c] \in SyncRecord
      /\ HubTyped /\ DrainTyped /\ ConnTyped /\ ClientTyped /\ SyncTyped /\ LinkTyped
      /\ BrowserTyped
  BY ResumingWrites DEF TypeOK, HubTyped, ClientTyped, SyncTyped
<1>1. HubTyped' /\ DrainTyped' /\ BrowserTyped'
  <2>1. CASE ResumeFails(c)
    BY <1>0, <2>1 DEF ResumeFails, HubTyped, HubAssumption, DrainTyped, BrowserTyped
  <2>2. CASE faults' = faults
    BY <1>0, <2>2 DEF HubTyped, DrainTyped, BrowserTyped
  <2> QED  BY <2>1, <2>2, ResumingWrites
\* The connection and its resume get records of their types; syncing fits.
<1>2. \E r \in ClientRecord, s \in SyncRecord :
         /\ client' = [client EXCEPT ![c] = r] /\ sync' = [sync EXCEPT ![c] = s]
         /\ r.syncing <=> s.pc \in Syncing
  <2>0. /\ client = [client EXCEPT ![c] = client[c]]
        /\ client[c].syncing <=> sync[c].pc \in Syncing
    BY <1>0 DEF ClientTyped, TypeOK, Syncing
  <2>1. CASE BeginResume(c)
    <3>1. link[c].req \in 1..head  BY <1>0, <2>1 DEF BeginResume, LinkTyped
    <3>2. [lastSeq |-> link[c].req, syncing |-> TRUE, deferred |-> {}] \in ClientRecord
      BY <1>0, <3>1
    <3> DEFINE s == [SyncOff EXCEPT !.pc = "read", !.from = link[c].req, !.pos = link[c].req]
    <3>3. SyncOff \in SyncRecord  BY <1>0 DEF SyncOff
    <3>4. sync' = [sync EXCEPT ![c] = s]  BY <2>1 DEF BeginResume
    <3>5. link[c].req \in 0..head  BY <1>0, <3>1
    <3>6. s \in SyncRecord  BY <3>3, <3>5
    <3>7. s.pc = "read"  BY <3>3
    <3> HIDE DEF s
    <3> QED  BY <2>1, <3>2, <3>4, <3>6, <3>7 DEF BeginResume, Syncing
  <2>2. CASE ResumeRead(c)
    <3> DEFINE records == Since(sync[c].pos, ResumePage)
               s == [sync[c] EXCEPT !.pc = IF records = {} THEN "end" ELSE "replay",
                                    !.page = records,
                                    !.full = Cardinality(records) = ResumePage]
    <3>1. sync' = [sync EXCEPT ![c] = s] /\ client' = client /\ sync[c].pc = "read"
      BY <1>0, <2>2 DEF ResumeRead, SyncTyped
    <3>2. records \in SUBSET (1..head)
      <4>1. \/ records = {}
            \/ \E k \in 1..head : records = (sync[c].pos + 1)..k
        BY <1>0, SinceIs DEF HubAssumption
      <4> HIDE DEF records
      <4> QED  BY <1>0, <4>1
    <3>3. (Cardinality(records) = ResumePage) \in BOOLEAN  OBVIOUS
    <3> HIDE DEF records
    <3>4. s \in SyncRecord /\ s.pc \in {"end", "replay"}  BY <1>0, <3>2, <3>3
    <3> HIDE DEF s, SyncRecord, ClientRecord
    <3>5. client[c].syncing <=> s.pc \in Syncing  BY <2>0, <3>1, <3>4 DEF Syncing
    <3>6. client' = [client EXCEPT ![c] = client[c]]  BY <2>0, <3>1
    <3> QED  BY <1>0, <3>1, <3>4, <3>5, <3>6
  <2>3. CASE Replay(c)
    <3>0. PICK k \in 1..head, n \in 1..head : Replayed(c, k, n)
      BY <2>3, ReplayIs
    <3>1. /\ sync' = [sync EXCEPT ![c] = sync'[c]]
          /\ sync'[c].delivered \in Nat /\ sync'[c].truncated \in BOOLEAN
          /\ sync'[c] = [pc |-> sync'[c].pc, from |-> sync[c].from, pos |-> n,
                         page |-> (n + 1)..k, full |-> sync[c].full,
                         delivered |-> sync'[c].delivered,
                         truncated |-> sync'[c].truncated, flush |-> sync[c].flush]
          /\ sync'[c].pc \in {"replay", "read", "end"}
          /\ client' = client \/ client' = [client EXCEPT ![c].lastSeq = n]
      BY <3>0 DEF Replayed
    <3>2. (n + 1)..k \subseteq 1..head  BY <1>0
    <3>3. sync'[c] \in SyncRecord
      <4> DEFINE p == sync'[c].pc
                 q == sync'[c].delivered
                 u == sync'[c].truncated
      <4>1. p \in {"replay", "read", "end"} /\ q \in Nat /\ u \in BOOLEAN  BY <3>1
      <4>2. sync'[c] = [pc |-> p, from |-> sync[c].from, pos |-> n, page |-> (n + 1)..k,
                        full |-> sync[c].full, delivered |-> q, truncated |-> u,
                        flush |-> sync[c].flush]
        BY <3>1
      <4> HIDE DEF p, q, u
      <4>3. [pc |-> p, from |-> sync[c].from, pos |-> n, page |-> (n + 1)..k,
             full |-> sync[c].full, delivered |-> q, truncated |-> u,
             flush |-> sync[c].flush] \in SyncRecord
        BY <1>0, <3>2, <4>1
      <4> QED  BY <4>2, <4>3
    <3>4. sync[c].pc = "replay"  BY <2>3 DEF Replay
    <3>5. \/ client' = [client EXCEPT ![c] = client[c]]
          \/ client' = [client EXCEPT ![c] = [client[c] EXCEPT !.lastSeq = n]]
      BY <2>0, <3>1
    <3>6. [client[c] EXCEPT !.lastSeq = n] \in ClientRecord  BY <1>0
    <3> QED  BY <1>0, <2>0, <3>1, <3>3, <3>4, <3>5, <3>6 DEF Syncing
  <2>4. CASE EndSync(c)
    <3> DEFINE s == [sync[c] EXCEPT !.pc = "flush", !.flush = Kept(c)]
    <3>1. client' = [client EXCEPT ![c] = Ended(c)] /\ sync' = [sync EXCEPT ![c] = s]
      BY <1>0, <2>4 DEF EndSync, SyncTyped
    <3>2. Ended(c) \in ClientRecord /\ ~Ended(c).syncing /\ Kept(c) \in SUBSET (1..head)
      BY EndedIs
    <3>3. s \in SyncRecord /\ s.pc = "flush"  BY <1>0, <3>2
    <3> QED  BY <3>1, <3>2, <3>3 DEF Syncing
  <2>5. CASE Flush(c)
    <3> DEFINE s == [sync[c] EXCEPT !.flush = @ \ {Min(sync[c].flush)}]
    <3>1. client' = client /\ sync' = [sync EXCEPT ![c] = s] /\ sync[c].pc = "flush"
      BY <1>0, <2>5 DEF Flush, SyncTyped
    <3>2. s \in SyncRecord /\ s.pc = sync[c].pc
      <4>1. sync[c].flush \ {Min(sync[c].flush)} \in SUBSET (1..head)  BY <1>0
      <4> QED  BY <1>0, <4>1
    <3> QED  BY <1>0, <2>0, <3>1, <3>2
  <2>6. CASE Answer(c) \/ ResumeFails(c)
    <3>1. SyncOff \in SyncRecord /\ SyncOff.pc = "off"  BY <1>0 DEF SyncOff
    <3>2. /\ sync' = [sync EXCEPT ![c] = SyncOff]
          /\ \/ client' = client /\ sync[c].pc = "flush"
             \/ client' = [client EXCEPT ![c] = Ended(c)]
      BY <2>6 DEF Answer, ResumeFails
    <3>3. Ended(c) \in ClientRecord /\ ~Ended(c).syncing  BY EndedIs
    <3> QED  BY <1>0, <2>0, <3>1, <3>2, <3>3 DEF Syncing
  <2> QED  BY <2>1, <2>2, <2>3, <2>4, <2>5, <2>6 DEF Resuming
<1>3. ClientTyped' /\ SyncTyped'
  BY <1>0, <1>2 DEF ClientTyped, SyncTyped
<1>4. \A d \in Conns : client'[d].syncing <=> sync'[d].pc \in Syncing
  BY <1>0, <1>2 DEF ClientTyped, SyncTyped, TypeOK, Syncing
<1>5. ConnTyped'
  <2>1. base' \in [Conns -> 0..head]
    <3>1. base' \in {base, [base EXCEPT ![c] = head]}  BY ResumingWrites DEF ResumeFails
    <3> QED  BY <1>0, <3>1 DEF ConnTyped
  <2>2. sent' = sent \/ \E n \in Wanted(c) : n <= head /\ sent' = [sent EXCEPT ![c] = @ \union {n}]
    <3>1. CASE Replay(c)
      <4>1. PICK k \in 1..head, n \in 1..head : Replayed(c, k, n)  BY <3>1, ReplayIs
      <4>2. \/ n \in Wanted(c) /\ sent' = [sent EXCEPT ![c] = @ \union {n}]
            \/ sent' = sent
        BY <4>1 DEF Replayed
      <4> QED  BY <1>0, <4>2
    <3>2. CASE Flush(c)
      <4>1. Min(sync[c].flush) \in sync[c].flush
        BY <1>0, <3>2, LeastOf, sync[c].flush \subseteq Nat DEF Flush
      <4>2. sync[c].flush \subseteq Wanted(c)  BY DEF Shape, SyncShape
      <4>3. sent' = [sent EXCEPT ![c] = @ \union {Min(sync[c].flush)}]  BY <3>2 DEF Flush
      <4>4. Min(sync[c].flush) \in 1..head  BY <1>0, <4>1
      <4>5. Min(sync[c].flush) \in Wanted(c) /\ Min(sync[c].flush) <= head
        BY <1>0, <4>1, <4>2, <4>4
      <4> QED  BY <4>3, <4>5
    <3> QED  BY <3>1, <3>2, ResumingWrites
  <2>3. \A n \in Wanted(c) : n <= head => n \in 1..head  BY <1>0 DEF Wanted, HubAssumption
  <2>4. sent' \in [Conns -> SUBSET (1..head)] /\ \A d \in Conns : sent'[d] \subseteq Wanted(d)
    BY <1>0, <2>2, <2>3 DEF ConnTyped
  <2> QED  BY <1>0, <2>1, <2>4 DEF ConnTyped, Wanted
<1>6. LinkTyped'
  <2>1. CASE BeginResume(c)
    <3>1. link' = [link EXCEPT ![c].req = NoRequest]  BY <2>1 DEF BeginResume
    <3>2. \A d \in Conns : link'[d].wire = link[d].wire  BY <1>0, <3>1 DEF LinkTyped
    <3>3. link' \in [Conns -> [up : BOOLEAN, wire : Seq(Frame), req : {NoRequest} \union 1..head]]
      <4>1. [link[c] EXCEPT !.req = NoRequest] \in [up : BOOLEAN, wire : Seq(Frame),
                                                    req : {NoRequest} \union 1..head]
        <5>1. link[c] \in [up : BOOLEAN, wire : Seq(Frame), req : {NoRequest} \union 1..head]
          BY <1>0 DEF LinkTyped
        <5> QED  BY <5>1
      <4> QED  BY <1>0, <3>1, <4>1 DEF LinkTyped
    <3> QED  BY <1>0, <3>2, <3>3 DEF LinkTyped
  <2>2. CASE ResumeRead(c) \/ EndSync(c)
    BY <1>0, <2>2, ResumingWrites DEF LinkTyped
  <2>3. CASE link' = link
    BY <1>0, <2>3 DEF LinkTyped
  <2>4. CASE \E frame \in Frame : frame.seq <= head /\ link' = Enqueue(link, c, frame)
    BY <1>0, <2>4, EnqueuePushes, PushesTyped
  <2>5. CASE Replay(c)
    <3>0. PICK k \in 1..head, n \in 1..head : Replayed(c, k, n)  BY <2>5, ReplayIs
    <3>1. link' = Enqueue(link, c, Event(n)) \/ link' = link  BY <3>0 DEF Replayed
    <3>2. Event(n) \in Frame /\ Event(n).seq <= head  BY <1>0 DEF Event, Frame
    <3> QED  BY <2>3, <2>4, <3>1, <3>2
  <2>6. CASE Flush(c)
    <3>1. Min(sync[c].flush) \in sync[c].flush
      BY <1>0, <2>6, LeastOf, sync[c].flush \subseteq Nat DEF Flush
    <3>2. Event(Min(sync[c].flush)) \in Frame /\ Event(Min(sync[c].flush)).seq <= head
      BY <1>0, <3>1 DEF Event, Frame
    <3> QED  BY <2>4, <2>6, <3>2 DEF Flush
  <2>7. CASE Answer(c)
    <3> DEFINE f == Resumed(sync[c].from, client[c].lastSeq, sync[c].truncated)
    <3>1. f \in Frame /\ f.seq <= head  BY <1>0 DEF Resumed, Frame
    <3> QED  BY <2>4, <2>7, <3>1 DEF Answer
  <2>8. CASE ResumeFails(c)
    <3>1. Error \in Frame /\ Error.seq <= head  BY <1>0 DEF Error, Frame
    <3> QED  BY <2>4, <2>8, <3>1 DEF ResumeFails
  <2> QED  BY <2>1, <2>2, <2>5, <2>6, <2>7, <2>8 DEF Resuming
<1> QED  BY <1>1, <1>3, <1>4, <1>5, <1>6 DEF TypeOK, Syncing

\* What a browser takes from a frame, and what it leaves on the wire.
LEMMA ReceiveIs ==
    ASSUME TypeOK, Shape, HubAssumption, NEW c \in Conns, Receive(c)
    PROVE  LET b == Owner[c]
               f == link[c].wire[1]
           IN  /\ link[c].up /\ 1 \in 1..Len(link[c].wire) /\ f.seq \in 0..head
               /\ browser'[b].pos \in {browser[b].pos, f.seq}
               /\ \A d \in Browsers : d # b => browser'[d] = browser[d]
               /\ BrowserTyped'
               /\ \A d \in Conns : d # c => link'[d] = link[d]
               /\ link'[c].up
               /\ link'[c].req \in {link[c].req, browser[b].pos}
               /\ link'[c].req # link[c].req => browser[b].pos > 0
               /\ Len(link'[c].wire) = Len(link[c].wire) - 1
               /\ \A i \in 1..Len(link'[c].wire) :
                     i + 1 \in 1..Len(link[c].wire) /\ link'[c].wire[i] = link[c].wire[i + 1]
               /\ LinkTyped'
<1> DEFINE b == Owner[c]
           w == link[c].wire
           f == w[1]
           BrowserRecord == [pos : 0..head, start : 0..head, got : SUBSET (1..head),
                             settled : BOOLEAN]
           LinkRecord == [up : BOOLEAN, wire : Seq(Frame), req : {NoRequest} \union 1..head]
<1>0. /\ head \in Nat /\ head' = head /\ b \in Browsers
      /\ LinkTyped /\ BrowserTyped /\ link[c] \in LinkRecord /\ browser[b] \in BrowserRecord
      /\ w \in Seq(Frame) /\ w # <<>> /\ Head(w) = f /\ link[c].up
  <2>1. head \in Nat /\ head' = head /\ b \in Browsers /\ LinkTyped /\ BrowserTyped
    BY ReceiveWrites DEF TypeOK, HubTyped, HubAssumption
  <2>2. link[c] \in LinkRecord /\ browser[b] \in BrowserRecord
    BY <2>1 DEF LinkTyped, BrowserTyped
  <2>3. w \in Seq(Frame) /\ w # <<>> /\ link[c].up  BY <2>2 DEF Receive
  <2> QED  BY <2>1, <2>2, <2>3
<1>1. 1 \in 1..Len(w) /\ f \in Frame /\ f.seq \in 0..head
  <2>1. Len(w) \in Nat /\ Len(w) >= 1  BY <1>0
  <2>2. f \in Frame  BY <1>0, <2>1
  <2>3. f.seq \in Nat /\ f.seq <= head  BY <1>0, <2>1, <2>2 DEF Frame, LinkTyped
  <2> QED  BY <1>0, <2>1, <2>2, <2>3
<1>2. f.kind = "event" => f.seq > 0
  BY <1>1 DEF Shape, LinkShape
\* the browser
<1> DEFINE moved == IF Trusts(b, f) THEN Moved(b, f.seq) ELSE browser[b]
           r == [moved EXCEPT !.got = IF f.kind = "event" THEN @ \union {f.seq} ELSE @,
                              !.settled = @ \/ (f.kind = "resumed" /\ ~f.truncated)]
<1>3. browser' = [browser EXCEPT ![b] = r]
  BY <1>0 DEF Receive
<1>4. /\ moved \in BrowserRecord /\ moved.got = browser[b].got
      /\ moved.pos \in {browser[b].pos, f.seq} /\ browser[b].pos <= moved.pos
      /\ f.kind = "event" => f.seq <= moved.pos
  <2>1. Max({browser[b].pos, f.seq}) = IF browser[b].pos >= f.seq THEN browser[b].pos ELSE f.seq
    <3>1. browser[b].pos \in Nat /\ f.seq \in Nat  BY <1>0, <1>1
    <3> QED  BY <3>1, GreaterOf
  <2>2. CASE Trusts(b, f)
    <3>1. moved = [browser[b] EXCEPT !.pos = Max({@, f.seq}),
                                     !.start = IF browser[b].pos = 0 THEN f.seq ELSE @]
      BY <2>2 DEF Moved
    <3> HIDE DEF moved
    <3> DEFINE p == IF browser[b].pos >= f.seq THEN browser[b].pos ELSE f.seq
               s == IF browser[b].pos = 0 THEN f.seq ELSE browser[b].start
    <3>2. moved = [browser[b] EXCEPT !.pos = p, !.start = s]
      BY <2>1, <3>1
    <3>3. /\ p \in 0..head /\ s \in 0..head /\ p \in {browser[b].pos, f.seq}
          /\ browser[b].pos <= p /\ f.seq <= p
      BY <1>0, <1>1
    <3> HIDE DEF p, s
    <3>4. /\ moved \in BrowserRecord /\ moved.got = browser[b].got /\ moved.pos = p
      BY <1>0, <3>2, <3>3
    <3> QED  BY <3>3, <3>4
  <2>3. CASE ~Trusts(b, f)
    BY <1>0, <2>3 DEF Trusts
  <2> QED  BY <2>2, <2>3
<1> HIDE DEF moved
<1>5. /\ r.pos = moved.pos /\ r \in BrowserRecord
      /\ r.got = IF f.kind = "event" THEN moved.got \union {f.seq} ELSE moved.got
  <2>1. f.kind = "event" => f.seq \in 1..head  BY <1>0, <1>1, <1>2
  <2>2. (moved.settled \/ (f.kind = "resumed" /\ ~f.truncated)) \in BOOLEAN  OBVIOUS
  <2>3. (IF f.kind = "event" THEN moved.got \union {f.seq} ELSE moved.got) \in SUBSET (1..head)
    BY <1>4, <2>1
  <2> QED  BY <1>4, <2>2, <2>3
<1> HIDE DEF r
<1>6. r.got \subseteq 1..r.pos
  <2>1. browser[b].got \subseteq 1..browser[b].pos  BY <1>0 DEF BrowserTyped
  <2>2. moved.pos \in Nat /\ browser[b].pos \in Nat  BY <1>0, <1>4
  <2> QED  BY <1>1, <1>2, <1>4, <1>5, <2>1, <2>2
<1>7. /\ browser'[b] = r /\ \A d \in Browsers : d # b => browser'[d] = browser[d]
      /\ browser' \in [Browsers -> BrowserRecord]
  BY <1>0, <1>3, <1>5 DEF BrowserTyped
<1>8. BrowserTyped'
  BY <1>0, <1>6, <1>7 DEF BrowserTyped
\* the connection
<1> DEFINE q == IF f.kind = "ready" /\ Kind[b] = "widget" /\ browser[b].pos > 0
                THEN browser[b].pos ELSE link[c].req
<1>9. link' = [link EXCEPT ![c] = [link[c] EXCEPT !.wire = Tail(w), !.req = q]]
  BY <1>0 DEF Receive, LinkTyped
<1>10. q \in {link[c].req, browser[b].pos} /\ (q # link[c].req => browser[b].pos > 0)
       /\ q \in {NoRequest} \union 1..head
  BY <1>0
<1> HIDE DEF q
<1>11. /\ Tail(w) \in Seq(Frame) /\ Len(Tail(w)) = Len(w) - 1
       /\ \A i \in 1..Len(Tail(w)) : i + 1 \in 1..Len(w) /\ Tail(w)[i] = w[i + 1]
  BY <1>0
<1>12. /\ link'[c].up /\ link'[c].req = q /\ link'[c].wire = Tail(w)
       /\ \A d \in Conns : d # c => link'[d] = link[d]
  BY <1>0, <1>9 DEF LinkTyped
<1>13. link' \in [Conns -> LinkRecord]
  <2>1. [link[c] EXCEPT !.wire = Tail(w), !.req = q] \in LinkRecord
    BY <1>0, <1>10, <1>11
  <2> QED  BY <1>0, <1>9, <2>1 DEF LinkTyped
<1>14. LinkTyped'
  <2>1. \A d \in Conns : Len(link'[d].wire) <= QueueSize
    <3>1. Len(w) <= QueueSize /\ Len(w) \in Nat /\ QueueSize \in Nat
      BY <1>0 DEF LinkTyped, HubAssumption
    <3>2. Len(link'[c].wire) <= QueueSize  BY <1>11, <1>12, <3>1
    <3> QED  BY <1>0, <1>12, <3>2 DEF LinkTyped
  <2>2. ASSUME NEW d \in Conns, NEW i \in 1..Len(link'[d].wire)
        PROVE  link'[d].wire[i].seq <= head
    <3>1. CASE d = c
      <4>1. \A j \in 1..Len(w) : w[j].seq <= head  BY <1>0 DEF LinkTyped
      <4>2. i + 1 \in 1..Len(w) /\ link'[d].wire[i] = w[i + 1]  BY <1>11, <1>12, <3>1
      <4> QED  BY <4>1, <4>2
    <3>2. CASE d # c  BY <1>0, <1>12, <3>2 DEF LinkTyped
    <3> QED  BY <3>1, <3>2
  <2> QED  BY <1>0, <1>13, <2>1, <2>2 DEF LinkTyped
<1> HIDE DEF w
<1> QED
  BY <1>0, <1>1, <1>4, <1>5, <1>7, <1>8, <1>10, <1>11, <1>12, <1>14 DEF w

LEMMA BrowserStepTyped ==
    ASSUME TypeOK, Shape, HubAssumption, NEW c \in Conns, Receive(c) \/ Disconnect(c)
    PROVE  TypeOK'
<1>0. /\ UNCHANGED <<head, signals, cursor, drain, stage, latest, client, sync, base,
                     sent, jumped, faults>>
  BY ReceiveWrites
<1>1. LinkTyped' /\ BrowserTyped'
  <2>1. CASE Receive(c)
    BY <2>1, ReceiveIs
  <2>2. CASE Disconnect(c)
    <3>1. link' = [link EXCEPT ![c] = LinkDown] /\ browser' = browser
      BY <2>2 DEF Disconnect
    <3>2. LinkDown \in [up : BOOLEAN, wire : Seq(Frame), req : {NoRequest} \union 1..head]
      BY DEF LinkDown
    <3>3. Len(LinkDown.wire) = 0  BY DEF LinkDown
    <3> QED  BY <1>0, <3>1, <3>2, <3>3 DEF TypeOK, LinkTyped, BrowserTyped, HubAssumption
  <2> QED  BY <2>1, <2>2
<1> QED
  BY <1>0, <1>1 DEF TypeOK, HubTyped, DrainTyped, ConnTyped, ClientTyped, SyncTyped, Wanted

LEMMA TypesStep ==
    ASSUME TypeOK, Shape, HubAssumption, [Next]_vars
    PROVE  TypeOK'
<1>1. CASE Next
  BY <1>1, Steps, CommitTyped, DrainingTyped, ServingTyped, ResumingTyped, BrowserStepTyped
<1>2. CASE UNCHANGED vars
  BY <1>2 DEF vars, TypeOK, HubTyped, DrainTyped, ConnTyped, ClientTyped, SyncTyped, LinkTyped,
              BrowserTyped, Wanted
<1> QED  BY <1>1, <1>2

-----------------------------------------------------------------------------
(* Shape *)

LEMMA InitShape == HubAssumption /\ Init => Shape
<1> SUFFICES ASSUME HubAssumption, Init PROVE Shape  OBVIOUS
<1>1. DrainShape  BY DEF Init, DrainShape, DrainIdle, Working
<1>2. LinkShape  BY DEF Init, LinkShape, LinkDown
<1>3. \A c \in Conns : SyncShape(c)
  BY DEF Init, SyncShape, SyncOff, NewClient, Syncing
<1> QED  BY <1>1, <1>2, <1>3 DEF Shape

\* Moving the cursor over the page at work notes what it passes over.
LEMMA DrainShapeStep ==
    ASSUME TypeOK, Shape, HubAssumption, Next
    PROVE  DrainShape'
<1>0. /\ head \in Nat /\ cursor \in 0..head /\ drain.page \subseteq 1..head /\ drain.seq \in 0..head
      /\ drain.last \in 0..head /\ DrainShape /\ NoConn \notin Conns /\ DrainTyped
  BY DEF TypeOK, HubTyped, DrainTyped, Shape, HubAssumption
<1>1. CASE drain' = drain /\ cursor' = cursor /\ jumped' = jumped
  BY <1>0, <1>1 DEF DrainShape, Wanted
<1>2. ASSUME NEW c \in Conns, Serving(c) PROVE DrainShape'
  <2>1. CASE Position(c)
    <3>1. latest[c] \in 0..head  BY DEF TypeOK, ConnTyped
    <3>2. /\ cursor' = IF cursor >= latest[c] THEN cursor ELSE latest[c]
          /\ jumped' = jumped \union (cursor + 1)..latest[c]
      BY <1>0, <2>1, <3>1, GreaterOf, cursor \in Nat, latest[c] \in Nat DEF Position, MoveCursor
    <3>3. \A n \in drain.page \union {drain.seq} :
             n <= cursor' => n <= cursor \/ n \in jumped'
      BY <1>0, <3>1, <3>2
    <3>4. drain' = drain  BY <2>1 DEF Position
    <3> QED  BY <1>0, <3>2, <3>3, <3>4 DEF DrainShape, Wanted
  <2>2. CASE Unregister(c)
    <3>1. cursor' \in {0, cursor} /\ drain' = drain /\ jumped' = jumped  BY <2>2 DEF Unregister
    <3>2. \A n \in drain.page \union {drain.seq} : n <= cursor' => n <= cursor \/ n = 0
      BY <1>0, <3>1
    <3> QED  BY <1>0, <3>1, <3>2 DEF DrainShape, Wanted
  <2>3. CASE cursor' = cursor /\ jumped' = jumped
    BY <1>1, <1>2, <2>3, ServingWrites
  <2> QED  BY <1>2, <2>1, <2>2, <2>3, ServingWrites
<1>3. CASE Draining
  <2>1. CASE TakeSignal \/ CheckClients \/ IdleRead
    BY <1>0, <2>1 DEF TakeSignal, CheckClients, IdleRead, DrainShape, Wanted, Working, DrainTyped
  <2>2. CASE IdleSet \/ DrainFails \/ PageDone
    <3>1. /\ drain'.pc \in {"idle", "check"} /\ drain'.targets = {} /\ drain'.target = NoConn
          /\ drain'.seq = 0
      BY <2>2 DEF IdleSet, DrainFails, PageDone, DrainIdle
    <3> QED  BY <3>1 DEF DrainShape, Working
  <2>3. CASE ReadPage
    <3>1. CASE Since(cursor, DrainPage) = {}
      BY <2>3, <3>1 DEF ReadPage, DrainIdle, DrainShape, Working
    <3>2. CASE Since(cursor, DrainPage) # {}
      <4>1. PICK k \in 1..head : /\ Since(cursor, DrainPage) = (cursor + 1)..k
                                 /\ Max(Since(cursor, DrainPage)) = k
        BY <3>2, SinceIs DEF HubAssumption, TypeOK, HubTyped
      <4>2. /\ drain'.pc = "deliver" /\ drain'.page = (cursor + 1)..k /\ drain'.last = k
            /\ drain'.seq = drain.seq /\ drain'.target = drain.target
        BY <1>0, <2>3, <3>2, <4>1 DEF ReadPage, DrainTyped
      <4>3. drain.seq = 0 /\ drain.target = NoConn
        BY <1>0, <2>3 DEF ReadPage, DrainShape, Working
      <4>4. cursor' = cursor  BY <2>3 DEF ReadPage
      <4> QED  BY <1>0, <4>1, <4>2, <4>3, <4>4 DEF DrainShape, Working
    <3> QED  BY <3>1, <3>2
  <2>4. CASE NextRecord
    <3>1. Min(drain.page) \in drain.page /\ \A m \in drain.page : Min(drain.page) <= m
      BY <1>0, <2>4, LeastOf, drain.page \subseteq Nat DEF NextRecord
    <3>2. /\ drain'.pc = "deliver" /\ drain'.page = drain.page \ {Min(drain.page)}
          /\ drain'.seq = Min(drain.page) /\ drain'.last = drain.last /\ drain'.target = drain.target
          /\ drain.pc = "deliver"
      BY <1>0, <2>4 DEF NextRecord, DrainTyped
    <3>3. cursor' = cursor /\ jumped' = jumped  BY <2>4 DEF NextRecord, history
    <3>4. \A m \in drain'.page : drain'.seq < m /\ m <= drain'.last
      BY <1>0, <3>1, <3>2 DEF DrainShape, Working
    <3>5. drain'.seq <= drain'.last  BY <1>0, <3>1, <3>2 DEF DrainShape, Working
    <3>6. \A m \in drain'.page \union {drain'.seq} : m \in drain.page  BY <3>1, <3>2
    <3> QED  BY <1>0, <3>2, <3>3, <3>4, <3>5, <3>6 DEF DrainShape, Working
  <2>5. CASE Push
    <3>1. /\ drain'.pc = "deliver" /\ drain'.page = drain.page /\ drain'.seq = drain.seq
          /\ drain'.last = drain.last /\ drain'.target = NoConn /\ drain.pc = "push"
          /\ cursor' = cursor /\ jumped' = jumped
      BY <1>0, <2>5 DEF Push, DrainTyped
    <3> QED  BY <1>0, <3>1 DEF DrainShape, Working
  <2>6. CASE \E c \in Conns : Claim(c)
    <3>1. PICK c \in Conns : Claim(c)  BY <2>6
    <3>2. /\ drain'.page = drain.page /\ drain'.seq = drain.seq /\ drain'.last = drain.last
          /\ drain.pc = "deliver" /\ cursor' = cursor /\ jumped' = jumped
          /\ \/ drain'.pc = "deliver" /\ drain'.target = drain.target
             \/ drain'.pc = "push" /\ drain'.target = c /\ drain.seq \in Wanted(c)
      <4>1. /\ drain.pc = "deliver" /\ cursor' = cursor /\ jumped' = jumped
            /\ \/ drain' = [drain EXCEPT !.targets = @ \ {c}]
               \/ /\ drain' = [drain EXCEPT !.targets = @ \ {c}, !.target = c, !.pc = "push"]
                  /\ drain.seq \in Wanted(c)
        BY <3>1 DEF Claim, history
      <4>2. CASE drain' = [drain EXCEPT !.targets = @ \ {c}]
        BY <1>0, <4>1, <4>2 DEF DrainTyped
      <4>3. CASE /\ drain' = [drain EXCEPT !.targets = @ \ {c}, !.target = c, !.pc = "push"]
                 /\ drain.seq \in Wanted(c)
        BY <1>0, <4>1, <4>3 DEF DrainTyped
      <4> QED  BY <4>1, <4>2, <4>3
    <3> QED  BY <1>0, <3>2 DEF DrainShape, Working, Wanted
  <2> QED  BY <1>3, <2>1, <2>2, <2>3, <2>4, <2>5, <2>6 DEF Draining
<1>4. CASE \E reaches \in BOOLEAN : Commit(reaches)
  BY <1>1, <1>4, CommitWrites
<1>5. ASSUME NEW c \in Conns, Resuming(c) \/ Receive(c) \/ Disconnect(c) PROVE DrainShape'
  BY <1>1, <1>5, ResumingWrites, ReceiveWrites
<1> QED  BY <1>2, <1>3, <1>4, <1>5, Steps

\* A socket's frames are lost with it; a browser opens one at a time.
LEMMA LinkShapeStep ==
    ASSUME TypeOK, Shape, HubAssumption, Next
    PROVE  LinkShape'
<1>0. /\ head \in Nat /\ LinkTyped /\ LinkShape /\ LinkDown.up = FALSE
      /\ Len(LinkDown.wire) = 0
  BY DEF TypeOK, HubTyped, Shape, LinkDown
\* most steps change one link only, which stays up if it was, or goes down
<1>1. ASSUME NEW c \in Conns, \A d \in Conns : d # c => link'[d] = link[d],
             link'[c] = LinkDown \/ link'[c] = link[c] \/ (link[c].up /\ link'[c].up),
             \A i \in 1..Len(link'[c].wire) :
                link'[c].wire[i].kind = "event" => link'[c].wire[i].seq > 0,
             \A d \in Conns : link[d].up /\ d \in Registered => d \in Registered'
      PROVE  LinkShape'
  <2>1. \A d \in Conns : link'[d].up => link[d].up  BY <1>0, <1>1
  <2>2. \A d \in Conns : ~link'[d].up => link'[d] = LinkDown
    BY <1>0, <1>1 DEF LinkShape
  <2>3. \A d \in Conns : \A i \in 1..Len(link'[d].wire) :
            link'[d].wire[i].kind = "event" => link'[d].wire[i].seq > 0
    BY <1>0, <1>1 DEF LinkShape
  <2> QED  BY <1>0, <1>1, <2>1, <2>2, <2>3 DEF LinkShape
<1>2. CASE link' = link /\ \A d \in Conns : link[d].up /\ d \in Registered => d \in Registered'
  BY <1>0, <1>2 DEF LinkShape
<1>3. ASSUME NEW c \in Conns, NEW frame \in Frame, link' = Enqueue(link, c, frame),
             frame.kind = "event" => frame.seq > 0,
             \A d \in Conns : link[d].up /\ d \in Registered => d \in Registered'
      PROVE  LinkShape'
  <2>1. Pushes(c, frame)  BY <1>0, <1>3, EnqueuePushes
  <2>2. ASSUME NEW i \in 1..Len(link'[c].wire)
        PROVE  link'[c].wire[i].kind = "event" => link'[c].wire[i].seq > 0
    <3>1. \/ i \in 1..Len(link[c].wire) /\ link'[c].wire[i] = link[c].wire[i]
          \/ link'[c].wire[i] = frame
      BY <1>0, <2>1, PushesNothingElse
    <3> QED  BY <1>0, <1>3, <3>1 DEF LinkShape
  <2>3. /\ \A d \in Conns : d # c => link'[d] = link[d]
        /\ link'[c] = LinkDown \/ link'[c] = link[c] \/ (link[c].up /\ link'[c].up)
    BY <2>1 DEF Pushes
  <2> QED  BY <1>1, <1>3, <2>2, <2>3
<1>4. stage' = stage => Registered' = Registered  BY DEF Registered
<1>5. CASE \E reaches \in BOOLEAN : Commit(reaches)
  BY <1>2, <1>4, <1>5, CommitWrites
<1>6. CASE Draining
  <2>1. CASE Push
    <3>1. drain.target \in Conns /\ drain.seq \in Wanted(drain.target)
      BY <2>1 DEF Push, Shape, DrainShape
    <3>2. drain.seq \in Nat /\ drain.seq > 0
      BY <3>1 DEF Wanted, HubAssumption
    <3>3. Event(drain.seq) \in Frame /\ Event(drain.seq).seq > 0  BY <3>2 DEF Event, Frame
    <3>4. link' = Enqueue(link, drain.target, Event(drain.seq)) /\ stage' = stage
      BY <2>1 DEF Push, connVars
    <3> QED  BY <1>3, <1>4, <3>1, <3>3, <3>4
  <2> QED  BY <1>2, <1>4, <1>6, <2>1, DrainingWrites
<1>7. ASSUME NEW c \in Conns, Serving(c) PROVE LinkShape'
  <2>0. \A d \in Conns : link[d].up /\ d \in Registered => d \in Registered'
    BY <1>7 DEF Registered, Serving, Dial, ReadLatest, ReadLatestFails, Position, SendReady,
                Unregister, TypeOK, ConnTyped
  <2>1. CASE Dial(c)
    <3>1. /\ \A d \in Conns : d # c => link'[d] = link[d]
          /\ link'[c].up /\ Len(link'[c].wire) = 0
          /\ \A d \in Conns : Owner[d] = Owner[c] => ~link[d].up
      BY <1>0, <2>1 DEF Dial, LinkTyped
    <3>2. c \in Registered'
      BY <2>1 DEF Dial, Registered, TypeOK, ConnTyped
    <3>3. \A d \in Conns : ~link'[d].up => link'[d] = LinkDown
      BY <1>0, <3>1 DEF LinkShape
    <3>4. \A d \in Conns : link'[d].up => d \in Registered'
      BY <1>0, <2>0, <3>1, <3>2 DEF LinkShape
    <3>5. \A d, e \in Conns : Owner[d] = Owner[e] /\ link'[d].up /\ link'[e].up => d = e
      BY <1>0, <3>1 DEF LinkShape
    <3>6. \A d \in Conns : \A i \in 1..Len(link'[d].wire) :
              link'[d].wire[i].kind = "event" => link'[d].wire[i].seq > 0
      BY <1>0, <3>1 DEF LinkShape
    <3> QED  BY <3>3, <3>4, <3>5, <3>6 DEF LinkShape
  <2>2. CASE SendReady(c)
    <3>1. client[c].lastSeq \in 0..head  BY DEF TypeOK, ClientTyped
    <3>2. Ready(client[c].lastSeq) \in Frame /\ Ready(client[c].lastSeq).kind # "event"
      BY <1>0, <3>1 DEF Ready, Frame
    <3> QED  BY <1>3, <2>0, <2>2, <3>2 DEF SendReady
  <2> QED  BY <1>2, <1>7, <2>0, <2>1, <2>2, ServingWrites
<1>8. ASSUME NEW c \in Conns, Resuming(c) PROVE LinkShape'
  <2>0. stage' = stage /\ head \in Nat  BY <1>0, <1>8, ResumingWrites
  <2>1. CASE BeginResume(c)
    <3>1. link' = [link EXCEPT ![c].req = NoRequest]  BY <2>1 DEF BeginResume
    <3>2. link[c].up  BY <1>0, <2>1 DEF BeginResume, LinkShape, LinkDown
    <3>3. /\ link'[c].up /\ link'[c].wire = link[c].wire
          /\ \A d \in Conns : d # c => link'[d] = link[d]
      BY <1>0, <3>1, <3>2 DEF LinkTyped
    <3>4. \A i \in 1..Len(link'[c].wire) :
              link'[c].wire[i].kind = "event" => link'[c].wire[i].seq > 0
      BY <1>0, <3>3 DEF LinkShape
    <3> QED  BY <1>1, <1>4, <2>0, <3>2, <3>3, <3>4
  <2>2. CASE Replay(c)
    <3>1. PICK k \in 1..head, n \in 1..head : Replayed(c, k, n)  BY <2>2, ReplayIs
    <3>2. link' = Enqueue(link, c, Event(n)) \/ link' = link  BY <3>1 DEF Replayed
    <3>3. Event(n) \in Frame /\ Event(n).seq > 0  BY <2>0 DEF Event, Frame
    <3> QED  BY <1>2, <1>3, <1>4, <2>0, <3>2, <3>3
  <2>3. CASE Flush(c)
    <3>1. sync[c].flush \subseteq 1..head  BY DEF TypeOK, SyncTyped
    <3>2. Min(sync[c].flush) \in 1..head
      BY <2>0, <2>3, <3>1, LeastOf, sync[c].flush \subseteq Nat DEF Flush
    <3>3. Event(Min(sync[c].flush)) \in Frame /\ Event(Min(sync[c].flush)).seq > 0
      BY <2>0, <3>2 DEF Event, Frame
    <3> QED  BY <1>3, <1>4, <2>0, <2>3, <3>3 DEF Flush
  <2>4. CASE Answer(c)
    <3> DEFINE f == Resumed(sync[c].from, client[c].lastSeq, sync[c].truncated)
    <3>1. sync[c].from \in Nat /\ client[c].lastSeq \in Nat /\ sync[c].truncated \in BOOLEAN
      BY <2>0 DEF TypeOK, SyncTyped, ClientTyped
    <3>2. f \in Frame /\ f.kind # "event"  BY <3>1 DEF Resumed, Frame
    <3>3. link' = Enqueue(link, c, f)  BY <2>4 DEF Answer
    <3> HIDE DEF f
    <3> QED  BY <1>3, <1>4, <2>0, <3>2, <3>3
  <2>5. CASE ResumeFails(c)
    <3>1. Error \in Frame /\ Error.kind # "event"  BY DEF Error, Frame
    <3> QED  BY <1>3, <1>4, <2>0, <2>5, <3>1 DEF ResumeFails
  <2>6. CASE ResumeRead(c) \/ EndSync(c)
    BY <1>2, <1>4, <2>0, <2>6, <1>8, ResumingWrites
  <2> QED  BY <1>8, <2>1, <2>2, <2>3, <2>4, <2>5, <2>6 DEF Resuming
<1>9. ASSUME NEW c \in Conns, Receive(c) PROVE LinkShape'
  <2>1. stage' = stage  BY <1>9, ReceiveWrites
  <2>2. /\ link[c].up /\ link'[c].up
        /\ \A d \in Conns : d # c => link'[d] = link[d]
        /\ \A i \in 1..Len(link'[c].wire) :
              i + 1 \in 1..Len(link[c].wire) /\ link'[c].wire[i] = link[c].wire[i + 1]
    BY <1>9, ReceiveIs
  <2>3. \A i \in 1..Len(link'[c].wire) :
            link'[c].wire[i].kind = "event" => link'[c].wire[i].seq > 0
    <3>1. \A j \in 1..Len(link[c].wire) : link[c].wire[j].kind = "event" => link[c].wire[j].seq > 0
      BY <1>0 DEF LinkShape
    <3> QED  BY <2>2, <3>1
  <2> QED  BY <1>1, <1>4, <2>1, <2>2, <2>3
<1>10. ASSUME NEW c \in Conns, Disconnect(c) PROVE LinkShape'
  <2>1. stage' = stage  BY <1>10, ReceiveWrites
  <2>2. link'[c] = LinkDown /\ \A d \in Conns : d # c => link'[d] = link[d]
    BY <1>0, <1>10 DEF Disconnect, LinkTyped
  <2> QED  BY <1>0, <1>1, <1>4, <2>1, <2>2
<1> QED  BY <1>5, <1>6, <1>7, <1>8, <1>9, <1>10, Steps

\* Nothing of d changes but that the log and what was sent may grow.
LEMMA SyncShapeKept ==
    ASSUME TypeOK, HubAssumption, NEW d \in Conns, SyncShape(d),
           head' \in Nat, head <= head', stage'[d] = stage[d], latest'[d] = latest[d],
           base'[d] = base[d], client'[d] = client[d], sync'[d] = sync[d],
           sent[d] \subseteq sent'[d]
    PROVE  SyncShape(d)'
<1>1. head \in Nat /\ 1..head \subseteq 1..head'  BY DEF TypeOK, HubTyped
<1>2. sync[d].pc = "replay" =>
        \E k \in 1..head' : /\ sync[d].page = (sync[d].pos + 1)..k /\ sync[d].pos < k
                            /\ sync[d].full \/ base[d] <= k
  BY <1>1 DEF SyncShape
<1>3. sync[d].pc # "off" =>
        \A n \in Wanted(d) : sync[d].from < n /\ n <= sync[d].pos => n \in sent'[d]
  BY DEF SyncShape
<1> QED  BY <1>2, <1>3 DEF SyncShape, Wanted

\* A closed or unopened connection, or one that is not resuming.
LEMMA NotResuming ==
    ASSUME NEW d \in Conns, sync'[d].pc = "off", client'[d].deferred = {}, sync'[d].flush = {},
           stage'[d] = "read" => base'[d] <= latest'[d]
    PROVE  SyncShape(d)'
BY DEF SyncShape, Syncing

LEMMA WantedPositive ==
    ASSUME HubAssumption, NEW c \in Conns
    PROVE  \A n \in Wanted(c) : n \in Nat /\ n > 0
BY DEF Wanted, HubAssumption

LEMMA SyncShapeStep ==
    ASSUME TypeOK, TypeOK', Shape, HubAssumption, Next, NEW d \in Conns
    PROVE  SyncShape(d)'
<1>0. /\ head \in Nat /\ SyncShape(d) /\ client[d].lastSeq \in Nat /\ sync[d].from \in Nat
      /\ sync[d].pos \in 0..head
      /\ client[d].syncing <=> sync[d].pc \in Syncing
      /\ ConnTyped /\ ClientTyped /\ SyncTyped
      /\ latest[d] \in 0..head /\ base[d] \in 0..head
  BY DEF TypeOK, HubTyped, ClientTyped, SyncTyped, ConnTyped, Shape, Syncing
<1>1. CASE \E reaches \in BOOLEAN : Commit(reaches)
  BY <1>0, <1>1, CommitWrites, SyncShapeKept
<1>2. CASE Draining
  <2>0. UNCHANGED <<head, stage, latest, sync, browser, base>>  BY <1>2, DrainingWrites
  <2>1. CASE Push
    <3>1. /\ client' = client /\ drain.target \in Conns
          /\ sent' = [sent EXCEPT ![drain.target] = @ \union {drain.seq}]
      BY <2>1 DEF Push, connVars, Shape, DrainShape
    <3>2. sent[d] \subseteq sent'[d]  BY <1>0, <3>1 DEF ConnTyped
    <3> QED  BY <1>0, <2>0, <3>1, <3>2, SyncShapeKept
  <2>2. CASE \E c \in Conns : Claim(c)
    <3>1. PICK c \in Conns : Claim(c)  BY <2>2
    <3>2. sent' = sent  BY <3>1 DEF Claim, history
    <3>3. CASE c # d \/ client' = client
      <4>1. client'[d] = client[d]  BY <1>0, <3>1, <3>3 DEF Claim, ClientTyped
      <4> QED  BY <1>0, <2>0, <3>2, <4>1, SyncShapeKept
    <3>4. CASE c = d /\ client' = [client EXCEPT ![d].lastSeq = drain.seq] /\ ~client[d].syncing
      <4>1. client'[d].deferred = client[d].deferred
        BY <1>0, <3>4 DEF ClientTyped
      <4> QED  BY <1>0, <2>0, <3>2, <3>4, <4>1 DEF SyncShape, Syncing, Wanted
    <3>5. CASE /\ c = d /\ client[d].syncing /\ drain.seq \in Wanted(d)
               /\ drain.seq > client[d].lastSeq
               /\ client' = [client EXCEPT ![d].deferred = @ \union {drain.seq}]
      <4>1. /\ client'[d].deferred = client[d].deferred \union {drain.seq}
            /\ client'[d].lastSeq = client[d].lastSeq
        BY <1>0, <3>5 DEF ClientTyped
      <4>2. sync[d].from < drain.seq /\ sync[d].pc \in Syncing
        <5>1. drain.seq \in Nat  BY <3>5, WantedPositive
        <5>2. sync[d].pc \in Syncing  BY <1>0, <3>5
        <5>3. sync[d].from <= client[d].lastSeq  BY <1>0, <5>2 DEF SyncShape
        <5> QED  BY <1>0, <3>5, <5>1, <5>2, <5>3
      <4>3. \A n \in client'[d].deferred : n \in Wanted(d) /\ sync[d].from < n
        BY <1>0, <3>5, <4>1, <4>2 DEF SyncShape
      <4> QED  BY <1>0, <2>0, <3>2, <4>1, <4>2, <4>3 DEF SyncShape, Syncing, Wanted
    <3> QED  BY <3>1, <3>3, <3>4, <3>5 DEF Claim
  <2>3. CASE client' = client /\ link' = link /\ sent' = sent
    BY <1>0, <2>0, <2>3, SyncShapeKept
  <2> QED  BY <1>2, <2>1, <2>2, <2>3, DrainingWrites
<1>3. ASSUME NEW c \in Conns, Serving(c) PROVE SyncShape(d)'
  <2>0. UNCHANGED <<head, signals, drain, sync>>  BY <1>3, ServingWrites
  <2>1. CASE c # d
    <3>1. /\ stage'[d] = stage[d] /\ latest'[d] = latest[d] /\ base'[d] = base[d]
          /\ client'[d] = client[d] /\ sent'[d] = sent[d]
      BY <1>0, <1>3, <2>1 DEF Serving, Dial, ReadLatest, ReadLatestFails, Position, SendReady,
         Unregister, history, ConnTyped, ClientTyped
    <3> QED  BY <1>0, <2>0, <3>1, SyncShapeKept
  <2>2. CASE c = d /\ SendReady(d)
    <3>1. stage' = [stage EXCEPT ![d] = "serving"] /\ UNCHANGED <<latest, client, base, sent>>
      BY <2>2 DEF SendReady, history
    <3>2. stage'[d] = "serving" /\ stage[d] = "positioned"
      BY <1>0, <2>2, <3>1 DEF ConnTyped, SendReady
    <3> QED  BY <1>0, <2>0, <3>1, <3>2, NotResuming DEF SyncShape, Syncing
  <2>3. CASE c = d /\ Unregister(d)
    <3>1. /\ stage'[d] = "closed" /\ client'[d].deferred = {} /\ sync[d].pc = "off"
      BY <1>0, <2>3 DEF Unregister, ConnTyped, ClientTyped, NewClient
    <3> QED  BY <1>0, <2>0, <3>1, NotResuming DEF SyncShape
  <2>4. CASE c = d /\ (Dial(d) \/ ReadLatest(d) \/ ReadLatestFails(d) \/ Position(d))
    <3>1. /\ sync[d].pc = "off" /\ client'[d].deferred = client[d].deferred
      BY <1>0, <2>4 DEF Dial, ReadLatest, ReadLatestFails, Position, ClientTyped, SyncShape
    <3>2. stage'[d] = "read" => base'[d] <= latest'[d]
      BY <1>0, <2>4 DEF Dial, ReadLatest, ReadLatestFails, Position, ConnTyped, history
    <3> QED  BY <1>0, <2>0, <3>1, <3>2, NotResuming DEF SyncShape, Syncing
  <2> QED  BY <1>3, <2>1, <2>2, <2>3, <2>4 DEF Serving
<1>4. ASSUME NEW c \in Conns, Resuming(c) PROVE SyncShape(d)'
  <2>0. UNCHANGED <<head, signals, cursor, drain, stage, latest, browser, jumped>>
    BY <1>4, ResumingWrites
  <2>1. CASE c # d
    <3>1. /\ client'[d] = client[d] /\ base'[d] = base[d] /\ sync'[d] = sync[d]
          /\ sent'[d] = sent[d]
      <4>1. CASE Replay(c)
        <5>1. PICK k \in 1..head, n \in 1..head : Replayed(c, k, n)  BY <4>1, ReplayIs
        <5>2. /\ sync' = [sync EXCEPT ![c] = sync'[c]] /\ base' = base
              /\ client' = client \/ client' = [client EXCEPT ![c].lastSeq = n]
              /\ sent' = sent \/ sent' = [sent EXCEPT ![c] = @ \union {n}]
          BY <4>1, <5>1 DEF Replayed, Replay
        <5> QED  BY <1>0, <2>1, <5>2 DEF ClientTyped, SyncTyped, ConnTyped
      <4>2. CASE BeginResume(c) \/ ResumeRead(c) \/ EndSync(c)
        BY <1>0, <2>1, <4>2 DEF BeginResume, ResumeRead, EndSync, history, ClientTyped, SyncTyped
      <4>3. CASE Flush(c) \/ Answer(c) \/ ResumeFails(c)
        BY <1>0, <2>1, <4>3 DEF Flush, Answer, ResumeFails, history, ClientTyped, SyncTyped,
           ConnTyped
      <4> QED  BY <1>4, <4>1, <4>2, <4>3 DEF Resuming
    <3> QED  BY <1>0, <2>0, <3>1, SyncShapeKept
  <2>2. CASE c = d /\ BeginResume(d)
    <3>1. /\ sync'[d] = [SyncOff EXCEPT !.pc = "read", !.from = link[d].req, !.pos = link[d].req]
          /\ client'[d] = [lastSeq |-> link[d].req, syncing |-> TRUE, deferred |-> {}]
          /\ stage[d] = "serving" /\ UNCHANGED history /\ sync[d].pc = "off"
      BY <1>0, <2>2 DEF BeginResume, ClientTyped, SyncTyped
    <3>2. link[d].req \in 1..head  BY <2>2 DEF BeginResume, TypeOK, LinkTyped
    <3>3. /\ sync'[d].pc = "read" /\ sync'[d].from = link[d].req /\ sync'[d].pos = link[d].req
          /\ sync'[d].flush = {} /\ client'[d].lastSeq = link[d].req /\ client'[d].deferred = {}
      BY <3>1 DEF SyncOff
    <3>4. \A n \in Wanted(d) : ~(link[d].req < n /\ n <= link[d].req)
      BY <1>0, <3>2 DEF Wanted, HubAssumption
    <3> QED  BY <1>0, <2>0, <3>1, <3>2, <3>3, <3>4 DEF SyncShape, Syncing, Wanted
  <2>3. CASE c = d /\ ResumeRead(d)
    <3> DEFINE records == Since(sync[d].pos, ResumePage)
    <3>1. /\ sync'[d].pc = (IF records = {} THEN "end" ELSE "replay") /\ sync'[d].page = records
          /\ sync'[d].full = (Cardinality(records) = ResumePage)
          /\ sync'[d].from = sync[d].from /\ sync'[d].pos = sync[d].pos
          /\ sync'[d].flush = sync[d].flush /\ sync[d].pc = "read"
          /\ UNCHANGED <<client, base, sent>>
      <4>1. /\ sync' = [sync EXCEPT ![d].pc = IF records = {} THEN "end" ELSE "replay",
                                    ![d].page = records,
                                    ![d].full = Cardinality(records) = ResumePage]
            /\ sync[d].pc = "read" /\ UNCHANGED <<client, base, sent>>
        BY <2>3 DEF ResumeRead, history
      <4> DEFINE p == IF records = {} THEN "end" ELSE "replay"
                 full == Cardinality(records) = ResumePage
      <4>2. sync' = [sync EXCEPT ![d] = [sync[d] EXCEPT !.pc = p, !.page = records, !.full = full]]
        BY <1>0, <4>1 DEF SyncTyped
      <4> HIDE DEF records, p, full
      <4>3. sync'[d] = [sync[d] EXCEPT !.pc = p, !.page = records, !.full = full]
        BY <1>0, <4>2 DEF SyncTyped
      <4>4. /\ sync'[d].pc = p /\ sync'[d].page = records /\ sync'[d].full = full
            /\ sync'[d].from = sync[d].from /\ sync'[d].pos = sync[d].pos
            /\ sync'[d].flush = sync[d].flush
        BY <1>0, <4>3 DEF SyncTyped
      <4> QED  BY <4>1, <4>4 DEF p, full
    <3>2. CASE records = {}
      <4>1. HubTyped /\ ResumePage \in Nat \ {0} /\ sync[d].pos \in 0..head
        BY <1>0 DEF HubAssumption, TypeOK
      <4>2. sync[d].pos = head  BY <3>2, <4>1, SinceIs
      <4>3. base[d] <= sync[d].pos  BY <1>0, <4>2
      <4> HIDE DEF records
      <4> QED  BY <1>0, <2>0, <3>1, <3>2, <4>3 DEF SyncShape, Syncing, Wanted
    <3>3. CASE records # {}
      <4>1. PICK k \in 1..head : /\ records = (sync[d].pos + 1)..k /\ sync[d].pos < k
                                 /\ Cardinality(records) = ResumePage \/ k = head
        <5>1. HubTyped /\ ResumePage \in Nat \ {0} /\ sync[d].pos \in 0..head
          BY <1>0 DEF HubAssumption, TypeOK
        <5> QED  BY <3>3, <5>1, SinceIs
      <4>2. sync'[d].full \/ base[d] <= k
        <5>1. CASE Cardinality(records) = ResumePage  BY <3>1, <5>1
        <5>2. CASE k = head  BY <1>0, <5>2
        <5> QED  BY <4>1, <5>1, <5>2
      <4> HIDE DEF records
      <4> QED  BY <1>0, <2>0, <3>1, <3>3, <4>1, <4>2 DEF SyncShape, Syncing, Wanted
    <3> QED  BY <3>2, <3>3
  <2>4. CASE c = d /\ Replay(d)
    <3>1. PICK k \in 1..head, n \in 1..head : Replayed(d, k, n)  BY <2>4, ReplayIs
    <3>2. /\ sync'[d].from = sync[d].from /\ sync'[d].pos = n /\ sync'[d].page = (n + 1)..k
          /\ sync'[d].full = sync[d].full /\ sync'[d].flush = sync[d].flush
      <4>1. sync'[d] = [pc |-> sync'[d].pc, from |-> sync[d].from, pos |-> n,
                        page |-> (n + 1)..k, full |-> sync[d].full,
                        delivered |-> sync'[d].delivered,
                        truncated |-> sync'[d].truncated, flush |-> sync[d].flush]
        BY <3>1 DEF Replayed
      <4> QED  BY <4>1
    <3>3. /\ sync[d].pc = "replay" /\ stage[d] = "serving" /\ n = sync[d].pos + 1 /\ n <= k
          /\ sync[d].full \/ base[d] <= k
          /\ base' = base
      BY <2>4, <3>1 DEF Replayed, Replay
    <3>4. /\ client'[d].deferred = client[d].deferred
          /\ client'[d].lastSeq \in {client[d].lastSeq, n}
          /\ sent[d] \subseteq sent'[d]
          /\ n \in Wanted(d) => n \in sent'[d]
      <4>1. CASE n \notin Wanted(d) /\ UNCHANGED <<client, link, sent>>
        BY <4>1
      <4>2. CASE /\ client' = [client EXCEPT ![d].lastSeq = n]
                 /\ sent' = [sent EXCEPT ![d] = @ \union {n}]
        BY <1>0, <4>2 DEF ClientTyped, ConnTyped
      <4> QED  BY <3>1, <4>1, <4>2 DEF Replayed
    <3>5. sync'[d].from <= client'[d].lastSeq /\ client'[d].lastSeq <= sync'[d].pos
      <4>1. sync[d].from <= client[d].lastSeq /\ client[d].lastSeq <= sync[d].pos
        BY <1>0, <3>3 DEF SyncShape, Syncing
      <4>2. sync[d].pos \in Nat  BY <1>0
      <4>3. sync[d].from <= n /\ client[d].lastSeq <= n /\ n <= n
        BY <1>0, <3>3, <4>1, <4>2
      <4> QED  BY <3>2, <3>4, <4>1, <4>3
    <3>6. \A i \in Wanted(d) : sync'[d].from < i /\ i <= n => i \in sent'[d]
      <4>1. \A i \in Wanted(d) : i <= n => i <= sync[d].pos \/ i = n
        BY <1>0, <3>3, WantedPositive
      <4>2. \A i \in Wanted(d) : sync[d].from < i /\ i <= sync[d].pos => i \in sent[d]
        BY <1>0, <3>3 DEF SyncShape
      <4> QED  BY <3>2, <3>4, <4>1, <4>2
    <3>7. \/ n < k /\ sync'[d].pc = "replay"
          \/ n = k /\ sync'[d].pc = "read"
          \/ n = k /\ sync'[d].pc = "end" /\ (~sync[d].full \/ sync'[d].truncated)
      BY <3>1 DEF Replayed
    <3>8. sync'[d].pc = "replay" =>
             \E i \in 1..head : /\ sync'[d].page = (sync'[d].pos + 1)..i /\ sync'[d].pos < i
                                /\ sync'[d].full \/ base'[d] <= i
      BY <3>2, <3>3, <3>7
    <3>9. sync'[d].pc \in Syncing /\ sync'[d].flush = {}
      BY <1>0, <3>2, <3>3, <3>7 DEF Syncing, SyncShape
    <3>10. sync'[d].pc = "end" => sync'[d].truncated \/ base'[d] <= sync'[d].pos
      BY <3>2, <3>3, <3>7
    <3>11. \A i \in client'[d].deferred : i \in Wanted(d) /\ sync'[d].from < i
      BY <1>0, <3>2, <3>4 DEF SyncShape
    <3> QED
      BY <2>0, <3>2, <3>3, <3>5, <3>6, <3>8, <3>9, <3>10, <3>11 DEF SyncShape, Syncing, Wanted
  <2>5. CASE c = d /\ EndSync(d)
    <3>1. /\ sync'[d].pc = "flush" /\ sync'[d].flush = Kept(d) /\ sync'[d].from = sync[d].from
          /\ sync'[d].pos = sync[d].pos /\ sync'[d].truncated = sync[d].truncated
          /\ client'[d] = Ended(d) /\ UNCHANGED <<base, sent>> /\ sync[d].pc = "end"
      BY <1>0, <2>5 DEF EndSync, SyncTyped, ClientTyped, history
    <3>2. client'[d].deferred = {} /\ Kept(d) \subseteq client[d].deferred
      BY <3>1, EndedIs DEF Kept
    <3> QED  BY <1>0, <2>0, <3>1, <3>2 DEF SyncShape, Syncing, Wanted
  <2>6. CASE c = d /\ Flush(d)
    <3>1. /\ sync'[d].pc = "flush" /\ sync'[d].flush \subseteq sync[d].flush
          /\ sync'[d].from = sync[d].from
          /\ sync'[d].pos = sync[d].pos /\ sync'[d].truncated = sync[d].truncated
          /\ client' = client /\ base' = base /\ sent[d] \subseteq sent'[d] /\ sync[d].pc = "flush"
      BY <1>0, <2>6 DEF Flush, SyncTyped, ConnTyped
    <3> QED  BY <1>0, <2>0, <3>1 DEF SyncShape, Syncing, Wanted
  <2>7. CASE c = d /\ (Answer(d) \/ ResumeFails(d))
    <3>1. /\ sync'[d] = SyncOff /\ stage'[d] = "serving"
          /\ \/ client'[d] = client[d] /\ sync[d].pc = "flush"
             \/ client'[d] = Ended(d)
      BY <1>0, <2>0, <2>7 DEF Answer, ResumeFails, SyncTyped, ClientTyped, SyncShape
    <3>2. client'[d].deferred = {}  BY <1>0, <3>1, EndedIs DEF SyncShape, Syncing
    <3> QED  BY <3>1, <3>2, NotResuming DEF SyncOff
  <2> QED  BY <1>4, <2>1, <2>2, <2>3, <2>4, <2>5, <2>6, <2>7 DEF Resuming
<1>5. ASSUME NEW c \in Conns, Receive(c) \/ Disconnect(c) PROVE SyncShape(d)'
  BY <1>0, <1>5, ReceiveWrites, SyncShapeKept
<1> QED  BY <1>1, <1>2, <1>3, <1>4, <1>5, Steps

LEMMA ShapeStep ==
    ASSUME TypeOK, TypeOK', Shape, HubAssumption, Next
    PROVE  Shape'
BY DrainShapeStep, LinkShapeStep, SyncShapeStep DEF Shape

-----------------------------------------------------------------------------
(* Coverage: what was given is kept *)

\* What c was given it keeps, as far as c is to have it.
Retained(c) ==
    /\ jumped \subseteq jumped' /\ base[c] <= base'[c]
    /\ \A n \in Wanted(c) : base'[c] < n /\ Has(c, n) => Has(c, n)'

LEMMA StillCovered ==
    ASSUME TypeOK, TypeOK', HubAssumption, NEW c \in Conns, Retained(c),
           NEW m \in Nat, Covered(c, m)
    PROVE  Covered(c, m)'
<1>1. base[c] \in Nat /\ base'[c] \in Nat  BY DEF TypeOK, HubTyped, ConnTyped
<1>2. \A n \in Wanted(c) \ jumped' : base'[c] < n /\ n <= m => Has(c, n)'
  BY <1>1, WantedPositive DEF Retained, Covered
<1> QED  BY <1>2 DEF Covered, Wanted

LEMMA RetainedStep ==
    ASSUME TypeOK, TypeOK', Shape, HubAssumption, Next,
           NEW c \in Conns, c \in Registered, c \in Registered'
    PROVE  Retained(c)
<1>0. /\ ConnTyped /\ ClientTyped /\ SyncTyped /\ DrainTyped /\ DrainShape /\ SyncShape(c)
      /\ base[c] \in Nat /\ NoConn \notin Conns
  BY DEF TypeOK, HubTyped, ConnTyped, Shape, HubAssumption
\* nothing of c but the drain's hand on it changes
<1>1. ASSUME jumped \subseteq jumped', base'[c] = base[c], sent[c] \subseteq sent'[c],
             client[c].deferred \subseteq client'[c].deferred \union sent'[c] \union sync'[c].flush,
             sync[c].flush \subseteq sync'[c].flush \union sent'[c],
             \A n \in Wanted(c) : drain.target = c /\ drain.seq = n =>
                n \in sent'[c] \/ (drain'.target = c /\ drain'.seq = n)
      PROVE  Retained(c)
  BY <1>0, <1>1 DEF Retained, Has
<1>2. CASE \E reaches \in BOOLEAN : Commit(reaches)
  BY <1>1, <1>2, CommitWrites
<1>3. CASE Draining
  <2>0. /\ UNCHANGED <<head, stage, latest, sync, browser, base>> /\ jumped \subseteq jumped'
    BY <1>3, DrainingWrites DEF IdleSet, MoveCursor
  <2>1. CASE Push
    <3>1. /\ sent' = [sent EXCEPT ![drain.target] = @ \union {drain.seq}] /\ client' = client
          /\ drain.target \in Conns
      BY <1>0, <2>1 DEF Push, connVars, DrainShape
    <3>2. sent[c] \subseteq sent'[c] /\ (drain.target = c => drain.seq \in sent'[c])
      BY <1>0, <3>1 DEF ConnTyped
    <3> QED  BY <1>1, <2>0, <3>1, <3>2
  <2>2. CASE ~Push
    <3>1. drain.target = NoConn
      BY <1>0, <1>3, <2>2 DEF DrainShape, Draining, TakeSignal, CheckClients, IdleRead, IdleSet,
         ReadPage, DrainFails, NextRecord, PageDone, Claim
    <3>2. sent' = sent  BY <1>3, <2>2, DrainingWrites
    <3>3. client[c].deferred \subseteq client'[c].deferred
      <4>1. CASE \E d \in Conns : Claim(d)
        <5>1. PICK d \in Conns : Claim(d)  BY <4>1
        <5>2. \/ client' = client
              \/ client' = [client EXCEPT ![d].lastSeq = drain.seq]
              \/ client' = [client EXCEPT ![d].deferred = @ \union {drain.seq}]
          BY <5>1 DEF Claim
        <5>3. CASE client' = [client EXCEPT ![d].lastSeq = drain.seq]
          BY <1>0, <5>3 DEF ClientTyped
        <5>4. CASE client' = [client EXCEPT ![d].deferred = @ \union {drain.seq}]
          BY <1>0, <5>4 DEF ClientTyped
        <5> QED  BY <5>2, <5>3, <5>4
      <4> QED  BY <1>3, <4>1, DrainingWrites
    <3> QED  BY <1>0, <1>1, <2>0, <3>1, <3>2, <3>3
  <2> QED  BY <2>1, <2>2
<1>4. ASSUME NEW d \in Conns, Serving(d) PROVE Retained(c)
  <2>0. UNCHANGED <<head, signals, drain, sync>> /\ jumped \subseteq jumped'
    BY <1>4, ServingWrites DEF Position, MoveCursor
  <2>1. c # d \/ (~Dial(d) /\ ~Unregister(d))
    BY <1>0, <1>4 DEF Dial, Unregister, Registered, ConnTyped
  <2>2. CASE c # d \/ ~Position(d)
    <3>1. base'[c] = base[c] /\ sent'[c] = sent[c] /\ client'[c].deferred = client[c].deferred
      <4>1. CASE Dial(d)
        <5>1. base' = [base EXCEPT ![d] = head] /\ UNCHANGED <<client, sent>>
          BY <4>1 DEF Dial
        <5> QED  BY <1>0, <2>1, <4>1, <5>1 DEF ConnTyped
      <4>2. CASE Unregister(d)
        <5>1. /\ client' = [client EXCEPT ![d] = NewClient] /\ base' = [base EXCEPT ![d] = 0]
              /\ sent' = [sent EXCEPT ![d] = {}]
          BY <4>2 DEF Unregister
        <5> QED  BY <1>0, <2>1, <4>2, <5>1 DEF ConnTyped, ClientTyped
      <4>3. CASE Position(d)
        <5>1. /\ client' = [client EXCEPT ![d].lastSeq = Max({@, latest[d]})] /\ sent' = sent
              /\ base' = [base EXCEPT ![d] = latest[d]]
          BY <4>3 DEF Position
        <5> QED  BY <1>0, <2>2, <4>3, <5>1 DEF ConnTyped, ClientTyped
      <4> QED  BY <1>4, <4>1, <4>2, <4>3, ServingWrites
    <3> QED  BY <1>1, <2>0, <3>1
  <2>3. CASE c = d /\ Position(d)
    <3>1. /\ base' = [base EXCEPT ![c] = latest[c]] /\ sent' = sent
          /\ client' = [client EXCEPT ![c].lastSeq = Max({@, latest[c]})] /\ stage[c] = "read"
      BY <2>3 DEF Position
    <3>2. base'[c] = latest[c] /\ base[c] <= latest[c] /\ client'[c].deferred = client[c].deferred
      BY <1>0, <3>1 DEF ConnTyped, ClientTyped, SyncShape
    <3> QED  BY <1>0, <2>0, <3>1, <3>2 DEF Retained, Has
  <2> QED  BY <2>2, <2>3
<1>5. ASSUME NEW d \in Conns, Resuming(d) PROVE Retained(c)
  <2>0. UNCHANGED <<head, signals, cursor, drain, stage, latest, browser, jumped>>
    BY <1>5, ResumingWrites
  <2>1. CASE Replay(d)
    <3>1. PICK k \in 1..head, n \in 1..head : Replayed(d, k, n)  BY <2>1, ReplayIs
    <3>2. /\ sync' = [sync EXCEPT ![d] = sync'[d]] /\ base' = base
          /\ client' = client \/ client' = [client EXCEPT ![d].lastSeq = n]
          /\ sent' = sent \/ sent' = [sent EXCEPT ![d] = @ \union {n}]
          /\ sync'[d] = [pc |-> sync'[d].pc, from |-> sync[d].from, pos |-> n,
                         page |-> (n + 1)..k, full |-> sync[d].full,
                         delivered |-> sync'[d].delivered,
                         truncated |-> sync'[d].truncated, flush |-> sync[d].flush]
      BY <2>1, <3>1 DEF Replayed, Replay
    <3>3. sync'[c].flush = sync[c].flush
      <4>1. CASE c = d  BY <3>2, <4>1
      <4>2. CASE c # d  BY <1>0, <3>2, <4>2 DEF SyncTyped
      <4> QED  BY <4>1, <4>2
    <3>4. client'[c].deferred = client[c].deferred
      <4>1. CASE client' = [client EXCEPT ![d].lastSeq = n]  BY <1>0, <4>1 DEF ClientTyped
      <4> QED  BY <3>2, <4>1
    <3>5. sent[c] \subseteq sent'[c]
      <4>1. CASE sent' = [sent EXCEPT ![d] = @ \union {n}]  BY <1>0, <4>1 DEF ConnTyped
      <4> QED  BY <3>2, <4>1
    <3> QED  BY <1>1, <2>0, <3>2, <3>3, <3>4, <3>5
  <2>2. CASE ResumeRead(d) \/ Flush(d) \/ Answer(d)
    <3>1. client' = client /\ base' = base
      BY <2>2 DEF ResumeRead, Flush, Answer, history
    <3>2. sent[c] \subseteq sent'[c] /\ sync[c].flush \subseteq sync'[c].flush \union sent'[c]
      <4>1. CASE ResumeRead(d)
        <5>1. /\ \E p, q, r : sync' = [sync EXCEPT ![d].pc = p, ![d].page = q, ![d].full = r]
              /\ sent' = sent
          BY <4>1 DEF ResumeRead, history
        <5>2. PICK p, q, r : sync' = [sync EXCEPT ![d].pc = p, ![d].page = q, ![d].full = r]
          BY <5>1
        <5>3. sync'[c].flush = sync[c].flush  BY <1>0, <5>2 DEF SyncTyped
        <5> QED  BY <5>1, <5>3
      <4>2. CASE Flush(d)
        BY <1>0, <4>2 DEF Flush, SyncTyped, ConnTyped
      <4>3. CASE Answer(d)
        BY <1>0, <4>3 DEF Answer, SyncTyped, SyncOff, history
      <4> QED  BY <2>2, <4>1, <4>2, <4>3
    <3> QED  BY <1>1, <2>0, <3>1, <3>2
  <2>3. CASE BeginResume(d)
    <3>1. /\ sync' = [sync EXCEPT ![d] = [SyncOff EXCEPT !.pc = "read", !.from = link[d].req,
                                                         !.pos = link[d].req]]
          /\ client' = [client EXCEPT ![d] = [lastSeq |-> link[d].req, syncing |-> TRUE,
                                             deferred |-> {}]]
          /\ UNCHANGED <<base, sent>> /\ sync[d].pc = "off"
      BY <2>3 DEF BeginResume, history
    <3>2. CASE c # d  BY <1>0, <1>1, <2>0, <3>1, <3>2 DEF ClientTyped, SyncTyped
    <3>3. CASE c = d
      <4>1. client[c].deferred = {} /\ sync[c].flush = {}
        BY <1>0, <3>1, <3>3 DEF SyncShape, Syncing
      <4> QED  BY <1>1, <2>0, <3>1, <4>1
    <3> QED  BY <3>2, <3>3
  <2>4. CASE EndSync(d)
    <3>1. /\ client' = [client EXCEPT ![d] = Ended(d)] /\ UNCHANGED <<base, sent>>
          /\ sync' = [sync EXCEPT ![d].pc = "flush", ![d].flush = Kept(d)] /\ sync[d].pc = "end"
      BY <2>4 DEF EndSync, history
    <3>2. CASE c # d  BY <1>0, <1>1, <2>0, <3>1, <3>2 DEF ClientTyped, SyncTyped
    <3>3. CASE c = d
      <4>1. sync'[c].flush = Kept(c) /\ sync[c].flush = {}
        BY <1>0, <3>1, <3>3 DEF SyncTyped, SyncShape
      <4>2. ASSUME NEW n \in client[c].deferred PROVE n \in Kept(c) \union sent[c]
        <5>0. n \in Wanted(c) /\ sync[c].from < n /\ client[c].lastSeq <= sync[c].pos
          BY <1>0, <3>1, <3>3, <4>2 DEF SyncShape, Syncing
        <5>1. /\ n \in Wanted(c) /\ sync[c].from < n /\ client[c].lastSeq <= sync[c].pos
              /\ n \in Nat /\ client[c].lastSeq \in Nat /\ sync[c].pos \in Nat
          BY <1>0, <5>0, WantedPositive DEF ClientTyped, SyncTyped, TypeOK, HubTyped
        <5>2. CASE n > client[c].lastSeq  BY <5>2 DEF Kept
        <5>3. CASE n <= client[c].lastSeq
          <6>1. n <= sync[c].pos  BY <5>1, <5>3
          <6> QED  BY <1>0, <3>1, <3>3, <5>1, <6>1 DEF SyncShape
        <5> QED  BY <5>1, <5>2, <5>3
      <4> QED  BY <1>1, <2>0, <3>1, <4>1, <4>2
    <3> QED  BY <3>2, <3>3
  <2>5. CASE ResumeFails(d)
    <3>1. /\ client' = [client EXCEPT ![d] = Ended(d)] /\ sent' = sent
          /\ sync' = [sync EXCEPT ![d] = SyncOff] /\ base' = [base EXCEPT ![d] = head]
      BY <2>5 DEF ResumeFails
    <3>2. CASE c # d  BY <1>0, <1>1, <2>0, <3>1, <3>2 DEF ClientTyped, SyncTyped, ConnTyped
    <3>3. CASE c = d
      <4>1. base'[c] = head /\ base[c] <= head /\ head \in Nat
        BY <1>0, <3>1, <3>3 DEF ConnTyped, TypeOK, HubTyped
      <4>2. \A n : Has(c, n) => n \in 0..head
        BY <1>0 DEF Has, ConnTyped, ClientTyped, SyncTyped, DrainTyped
      <4> QED  BY <2>0, <4>1, <4>2 DEF Retained
    <3> QED  BY <3>2, <3>3
  <2> QED  BY <1>5, <2>1, <2>2, <2>3, <2>4, <2>5 DEF Resuming
<1>6. ASSUME NEW d \in Conns, Receive(d) \/ Disconnect(d) PROVE Retained(c)
  BY <1>1, <1>6, ReceiveWrites
<1> QED  BY <1>2, <1>3, <1>4, <1>5, <1>6, Steps

-----------------------------------------------------------------------------
(* Coverage: every position a step makes known is covered *)

\* Nothing is known of a link beyond what was, and the frame pushed to it.
LEMMA PushesOnLink ==
    ASSUME TypeOK, NEW d \in Conns, NEW frame \in Frame, Pushes(d, frame),
           browser' = browser, NEW c \in Conns
    PROVE  OnLink(c)' \subseteq OnLink(c) \union {n \in {frame.seq} : c = d /\ link[d].up}
<1>0. LinkTyped  BY DEF TypeOK
<1>1. \A i \in 1..Len(link'[c].wire) :
         \/ i \in 1..Len(link[c].wire) /\ link'[c].wire[i] = link[c].wire[i]
         \/ c = d /\ link[d].up /\ link'[c].wire[i] = frame
  BY <1>0, PushesNothingElse
<1>2. (link'[c].req = link[c].req \/ link'[c].req = NoRequest) /\ (link'[c].up => link[c].up)
  BY DEF Pushes, LinkDown
<1> QED  BY <1>1, <1>2 DEF OnLink

LEMMA OnLinkSame ==
    ASSUME NEW c \in Conns, link'[c] = link[c],
           browser'[Owner[c]].pos = browser[Owner[c]].pos \/ ~link[c].up
    PROVE  OnLink(c)' = OnLink(c)
BY DEF OnLink

LEMMA KnownWithin ==
    ASSUME TypeOK, HubAssumption, NEW c \in Conns
    PROVE  Known(c) \subseteq 0..head /\ head \in Nat
<1>1. head \in Nat /\ cursor \in 0..head /\ drain.seq \in 0..head
  BY DEF TypeOK, HubTyped, DrainTyped
<1>2. /\ client[c].lastSeq \in 0..head /\ client[c].deferred \subseteq 1..head
      /\ sync[c].flush \subseteq 1..head
  BY DEF TypeOK, ClientTyped, SyncTyped
<1>3. OnLink(c) \subseteq 0..head
  <2>1. link[c].wire \in Seq(Frame) /\ link[c].req \in {NoRequest} \union 1..head
    BY DEF TypeOK, LinkTyped
  <2>2. \A i \in 1..Len(link[c].wire) : link[c].wire[i] \in Frame  BY <2>1
  <2>3. \A i \in 1..Len(link[c].wire) : link[c].wire[i].seq \in Nat  BY <2>2 DEF Frame
  <2>4. \A i \in 1..Len(link[c].wire) : link[c].wire[i].seq \in 0..head
    BY <1>1, <2>3 DEF TypeOK, LinkTyped
  <2>5. browser[Owner[c]].pos \in 0..head  BY DEF TypeOK, BrowserTyped, HubAssumption
  <2> QED  BY <1>1, <2>1, <2>4, <2>5 DEF OnLink
<1> QED  BY <1>1, <1>2, <1>3 DEF Known

\* The cursor jumps over events that it notes.
LEMMA JumpCovered ==
    ASSUME TypeOK, HubAssumption, NEW c \in Conns, NEW n \in Nat, MoveCursor(n),
           NEW old, old = cursor, Covered(c, old)', NEW m, m = cursor'
    PROVE  Covered(c, m)'
<1>1. cursor \in Nat /\ cursor' = (IF cursor >= n THEN cursor ELSE n)
  BY GreaterOf, cursor \in Nat DEF TypeOK, HubTyped, MoveCursor
<1>2. jumped' = jumped \union (cursor + 1)..n  BY DEF MoveCursor
<1>3. \A i \in Wanted(c) : i <= m => i <= old \/ i \in jumped'
  BY <1>1, <1>2, WantedPositive
<1>4. \A i \in Wanted(c) \ jumped' : base'[c] < i /\ i <= old => Has(c, i)'
  BY DEF Covered, Wanted
<1> QED  BY <1>3, <1>4 DEF Covered, Wanted

LEMMA KnownStep ==
    ASSUME TypeOK, TypeOK', Shape, HubAssumption, Next,
           NEW c \in Conns, c \in Registered, c \in Registered',
           PageCovered(c), \A m \in Known(c) : Covered(c, m)
    PROVE  \A m \in Known(c)' : Covered(c, m)'
<1>0. /\ ConnTyped /\ ClientTyped /\ SyncTyped /\ DrainTyped /\ LinkTyped /\ BrowserTyped
      /\ DrainShape /\ SyncShape(c) /\ LinkShape
      /\ head \in Nat /\ cursor \in 0..head /\ NoConn \notin Conns
      /\ Known(c) \subseteq Nat /\ Retained(c)
  BY KnownWithin, RetainedStep DEF TypeOK, HubTyped, Shape, HubAssumption
<1>1. \A m \in Nat : Covered(c, m) => Covered(c, m)'
  BY <1>0, StillCovered
<1>2. \A m \in Known(c) : Covered(c, m)'
  BY <1>0, <1>1
<1>3. /\ cursor \in Known(c) /\ client[c].lastSeq \in Known(c)
      /\ client[c].deferred \subseteq Known(c) /\ sync[c].flush \subseteq Known(c)
      /\ OnLink(c) \subseteq Known(c) /\ (drain.target = c => drain.seq \in Known(c))
  BY DEF Known
\* a step is fine when all it makes known was known, or is covered now
<1>4. ASSUME \A m \in {cursor', client'[c].lastSeq} \union client'[c].deferred
                       \union sync'[c].flush \union OnLink(c)' :
                m \in Known(c) \/ Covered(c, m)',
             drain'.target = c =>
                \A m : m = drain'.seq => m \in Known(c) \/ Covered(c, m)'
      PROVE  \A m \in Known(c)' : Covered(c, m)'
  BY <1>2, <1>4 DEF Known
<1>5. CASE \E reaches \in BOOLEAN : Commit(reaches)
  <2>1. /\ UNCHANGED <<cursor, drain, client, sync, link, browser>>
    BY <1>5, CommitWrites
  <2>2. OnLink(c)' = OnLink(c)  BY <2>1 DEF OnLink
  <2> QED  BY <1>3, <1>4, <2>1, <2>2
<1>6. CASE Draining
  <2>0. /\ UNCHANGED <<head, stage, latest, sync, browser, base>>
    BY <1>6, DrainingWrites
  <2>1. CASE Push
    <3>1. /\ drain.target \in Conns /\ drain.seq \in Wanted(drain.target)
          /\ link' = Enqueue(link, drain.target, Event(drain.seq))
          /\ drain'.target = NoConn /\ UNCHANGED <<cursor, client>>
      BY <1>0, <2>1 DEF Push, connVars, DrainShape, DrainTyped
    <3>2. Event(drain.seq) \in Frame /\ Event(drain.seq).seq = drain.seq
      BY <3>1, WantedPositive DEF Event, Frame
    <3>3. Pushes(drain.target, Event(drain.seq))  BY <1>0, <3>1, <3>2, EnqueuePushes
    <3>4. OnLink(c)' \subseteq OnLink(c) \union {n \in {drain.seq} : c = drain.target}
      BY <2>0, <3>1, <3>2, <3>3, PushesOnLink
    <3> QED  BY <1>0, <1>3, <1>4, <2>0, <3>1, <3>4
  <2>2. CASE ~Push
    <3>1. drain.target = NoConn /\ UNCHANGED <<link, sent>>
      BY <1>0, <1>6, <2>2, DrainingWrites
         DEF DrainShape, Draining, TakeSignal, CheckClients, IdleRead, IdleSet,
             ReadPage, DrainFails, NextRecord, PageDone, Claim
    <3>2. OnLink(c)' = OnLink(c)  BY <2>0, <3>1 DEF OnLink
    <3>3. CASE IdleSet
      <4>1. /\ MoveCursor(drain.last) /\ drain'.target = NoConn /\ client' = client
        BY <1>6, <3>3, DrainingWrites DEF IdleSet, DrainIdle, connVars
      <4>2. drain.last \in Nat  BY <1>0 DEF DrainTyped
      <4>3. \A m : m = cursor' => Covered(c, m)'
        BY <1>2, <1>3, <4>1, <4>2, JumpCovered
      <4> QED  BY <1>0, <1>3, <1>4, <2>0, <3>2, <4>1, <4>3
    <3>4. CASE PageDone
      <4>1. /\ drain.pc = "deliver" /\ drain.targets = {} /\ drain.page = {}
            /\ cursor' = Max({cursor, drain.last}) /\ drain'.target = NoConn /\ client' = client
        BY <3>4 DEF PageDone, DrainIdle, connVars
      <4>2. Covered(c, drain.last)
        BY <4>1 DEF PageCovered, Covered, Working
      <4>3. drain.last \in Nat /\ cursor \in Nat  BY <1>0 DEF DrainTyped
      <4>4. cursor' \in {cursor, drain.last}  BY <4>1, <4>3, GreaterOf
      <4>5. \A m : m = drain.last => Covered(c, m)'  BY <1>1, <4>2, <4>3
      <4> QED  BY <1>0, <1>3, <1>4, <2>0, <3>2, <4>1, <4>4, <4>5
    <3>5. CASE \E d \in Conns : Claim(d)
      <4>1. PICK d \in Conns : Claim(d)  BY <3>5
      <4>2. /\ cursor' = cursor /\ drain'.seq = drain.seq
            /\ drain'.target = NoConn \/ (drain'.target = d /\ drain.seq \in Wanted(d))
            /\ d \in drain.targets /\ drain.pc = "deliver"
        <5>1. /\ d \in drain.targets /\ drain.pc = "deliver" /\ cursor' = cursor
              /\ \/ drain' = [drain EXCEPT !.targets = @ \ {d}]
                 \/ /\ drain' = [drain EXCEPT !.targets = @ \ {d}, !.target = d, !.pc = "push"]
                    /\ drain.seq \in Wanted(d)
          BY <4>1 DEF Claim
        <5>2. CASE drain' = [drain EXCEPT !.targets = @ \ {d}]
          BY <1>0, <3>1, <5>1, <5>2 DEF DrainTyped
        <5>3. CASE /\ drain' = [drain EXCEPT !.targets = @ \ {d}, !.target = d, !.pc = "push"]
                   /\ drain.seq \in Wanted(d)
          BY <1>0, <5>1, <5>3 DEF DrainTyped
        <5> QED  BY <5>1, <5>2, <5>3
      <4>3. /\ client'[c].lastSeq = client[c].lastSeq \/ (c = d /\ drain'.target = d
                                                          /\ client'[c].lastSeq = drain.seq)
            /\ \/ client'[c].deferred = client[c].deferred
               \/ /\ c = d /\ drain.seq \in Wanted(d) /\ client'[c].deferred = client[c].deferred \union {drain.seq}
        <5>1. \/ client' = client
              \/ /\ client' = [client EXCEPT ![d].lastSeq = drain.seq]
                 /\ drain' = [drain EXCEPT !.targets = @ \ {d}, !.target = d, !.pc = "push"]
              \/ /\ client' = [client EXCEPT ![d].deferred = @ \union {drain.seq}]
                 /\ drain.seq \in Wanted(d)
          BY <4>1 DEF Claim
        <5>2. CASE /\ client' = [client EXCEPT ![d].lastSeq = drain.seq]
                   /\ drain' = [drain EXCEPT !.targets = @ \ {d}, !.target = d, !.pc = "push"]
          BY <1>0, <5>2 DEF ClientTyped, DrainTyped
        <5>3. CASE /\ client' = [client EXCEPT ![d].deferred = @ \union {drain.seq}]
                   /\ drain.seq \in Wanted(d)
          BY <1>0, <5>3 DEF ClientTyped
        <5> QED  BY <5>1, <5>2, <5>3
      \* the record at hand is given now, and what was before it in the page was
      <4>4. ASSUME c = d, drain'.target = d \/ drain.seq \in client'[c].deferred
            PROVE  \A m : m = drain.seq => Covered(c, m)'
        <5>1. Has(c, drain.seq)'
          BY <4>2, <4>4 DEF Has
        <5>2. /\ drain.seq \in Nat /\ drain.last \in Nat /\ drain.seq <= drain.last
              /\ drain.page \subseteq Nat /\ \A n \in drain.page : drain.seq < n
          BY <1>0, <4>2 DEF DrainTyped, DrainShape, Working
        <5>3. \A n \in Wanted(c) \ jumped : base[c] < n /\ n <= drain.seq =>
                 n = drain.seq \/ Has(c, n)
          BY <4>2, <5>2, WantedPositive DEF PageCovered, Working
        <5>4. \A n \in Wanted(c) \ jumped' : base'[c] < n /\ n <= drain.seq =>
                 n = drain.seq \/ Has(c, n)'
          BY <1>0, <2>0, <5>3 DEF Retained
        <5>5. \A n : n = drain.seq => Has(c, n)'
          BY <4>2, <4>4 DEF Has
        <5> QED  BY <5>4, <5>5 DEF Covered, Wanted
      <4> QED  BY <1>0, <1>3, <1>4, <2>0, <3>2, <4>2, <4>3, <4>4
    <3>6. CASE TakeSignal \/ CheckClients \/ IdleRead \/ ReadPage \/ DrainFails \/ NextRecord
      <4>1. drain'.target = NoConn
        <5>1. CASE TakeSignal \/ CheckClients \/ IdleRead
          BY <1>0, <3>1, <5>1 DEF TakeSignal, CheckClients, IdleRead, DrainTyped
        <5>2. CASE DrainFails \/ (ReadPage /\ drain' = DrainIdle)
          BY <5>2 DEF DrainFails, DrainIdle
        <5>3. CASE ReadPage /\ drain' # DrainIdle
          <6>1. \E p, q, r : drain' = [drain EXCEPT !.pc = "deliver", !.page = p, !.last = q,
                                                    !.full = r]
            BY <5>3 DEF ReadPage
          <6> QED  BY <1>0, <3>1, <6>1 DEF DrainTyped
        <5>4. CASE NextRecord
          <6>1. \E p, q, r : drain' = [drain EXCEPT !.seq = p, !.page = q, !.targets = r]
            BY <5>4 DEF NextRecord
          <6> QED  BY <1>0, <3>1, <6>1 DEF DrainTyped
        <5> QED  BY <3>6, <5>1, <5>2, <5>3, <5>4
      <4>2. UNCHANGED <<cursor, client>>
        BY <3>6 DEF TakeSignal, CheckClients, IdleRead, ReadPage, DrainFails, NextRecord,
           connVars
      <4> QED  BY <1>0, <1>3, <1>4, <2>0, <3>2, <4>1, <4>2
    <3> QED  BY <1>6, <2>2, <3>3, <3>4, <3>5, <3>6 DEF Draining
  <2> QED  BY <2>1, <2>2
<1>7. ASSUME NEW d \in Conns, Serving(d) PROVE \A m \in Known(c)' : Covered(c, m)'
  <2>0. UNCHANGED <<head, signals, drain, sync>>  BY <1>7, ServingWrites
  <2>1. CASE Dial(d)
    <3>1. c # d  BY <1>0, <2>1 DEF Dial, Registered
    <3>2. /\ link'[c] = link[c] /\ UNCHANGED <<cursor, client>>
          /\ browser' = [browser EXCEPT ![Owner[d]].settled = FALSE]
      BY <1>0, <2>1, <3>1 DEF Dial, LinkTyped, hubVars
    <3>3. browser'[Owner[c]].pos = browser[Owner[c]].pos
      BY <1>0, <3>2 DEF BrowserTyped, HubAssumption
    <3>4. OnLink(c)' = OnLink(c)  BY <3>2, <3>3, OnLinkSame
    <3> QED  BY <1>3, <1>4, <2>0, <3>2, <3>4
  <2>2. CASE SendReady(d)
    <3>1. /\ link' = Enqueue(link, d, Ready(client[d].lastSeq))
          /\ UNCHANGED <<cursor, client, browser>>
      BY <2>2 DEF SendReady, hubVars
    <3>2. client[d].lastSeq \in Nat  BY <1>0 DEF ClientTyped
    <3>3. Ready(client[d].lastSeq) \in Frame /\ Ready(client[d].lastSeq).seq = client[d].lastSeq
      BY <3>2 DEF Ready, Frame
    <3>4. Pushes(d, Ready(client[d].lastSeq))  BY <1>0, <3>1, <3>3, EnqueuePushes
    <3>5. OnLink(c)' \subseteq OnLink(c) \union {n \in {client[d].lastSeq} : c = d}
      BY <3>1, <3>3, <3>4, PushesOnLink
    <3> QED  BY <1>3, <1>4, <2>0, <3>1, <3>5
  <2>3. CASE Position(d)
    <3>1. /\ MoveCursor(latest[d]) /\ UNCHANGED <<link, browser>>
          /\ client' = [client EXCEPT ![d].lastSeq = Max({client[d].lastSeq, latest[d]})]
          /\ base' = [base EXCEPT ![d] = latest[d]]
      BY <2>3 DEF Position
    <3>2. OnLink(c)' = OnLink(c)  BY <3>1, OnLinkSame
    <3>3. latest[d] \in Nat /\ client[d].lastSeq \in Nat  BY <1>0 DEF ConnTyped, ClientTyped
    <3>4. \A m : m = cursor' => Covered(c, m)'
      BY <1>2, <1>3, <3>1, <3>3, JumpCovered
    <3>5. client'[c].deferred = client[c].deferred  BY <1>0, <3>1 DEF ClientTyped
    <3>6. \A m : m = client'[c].lastSeq => m \in Known(c) \/ Covered(c, m)'
      <4>1. CASE c # d
        <5>1. client'[c].lastSeq = client[c].lastSeq  BY <1>0, <3>1, <4>1 DEF ClientTyped
        <5> QED  BY <1>3, <5>1
      <4>2. CASE c = d
        <5>1. /\ client'[c].lastSeq \in {client[c].lastSeq, latest[c]}
              /\ base'[c] = latest[c]
          <6>1. Max({client[c].lastSeq, latest[c]}) \in {client[c].lastSeq, latest[c]}
            BY <3>3, <4>2, GreaterOf
          <6> QED  BY <1>0, <3>1, <4>2, <6>1 DEF ClientTyped, ConnTyped
        <5>2. \A m : m = latest[c] => Covered(c, m)'
          BY <3>3, <4>2, <5>1, WantedPositive DEF Covered, Wanted
        <5> QED  BY <1>3, <5>1, <5>2
      <4> QED  BY <4>1, <4>2
    <3> QED  BY <1>3, <1>4, <2>0, <3>2, <3>4, <3>5, <3>6
  <2>4. CASE Unregister(d)
    <3>1. c # d
      BY <1>0, <2>4 DEF Unregister, Registered, ConnTyped
    <3>2. Registered # {d}  BY <3>1
    <3>3. /\ cursor' = cursor /\ client' = [client EXCEPT ![d] = NewClient]
          /\ UNCHANGED <<link, browser>>
      BY <2>4, <3>2 DEF Unregister
    <3>4. client'[c] = client[c]  BY <1>0, <3>1, <3>3 DEF ClientTyped
    <3>5. OnLink(c)' = OnLink(c)  BY <3>3, OnLinkSame
    <3> QED  BY <1>3, <1>4, <2>0, <3>3, <3>4, <3>5
  <2>5. CASE ReadLatest(d) \/ ReadLatestFails(d)
    <3>1. UNCHANGED <<cursor, client, link, browser>>
      BY <2>5 DEF ReadLatest, ReadLatestFails, hubVars
    <3>2. OnLink(c)' = OnLink(c)  BY <3>1, OnLinkSame
    <3> QED  BY <1>3, <1>4, <2>0, <3>1, <3>2
  <2> QED  BY <1>7, <2>1, <2>2, <2>3, <2>4, <2>5 DEF Serving
<1>8. ASSUME NEW d \in Conns, Resuming(d) PROVE \A m \in Known(c)' : Covered(c, m)'
  <2>0. UNCHANGED <<head, signals, cursor, drain, stage, latest, browser, jumped>>
    BY <1>8, ResumingWrites
  <2>1. CASE BeginResume(d)
    <3>1. /\ link' = [link EXCEPT ![d].req = NoRequest] /\ link[d].req # NoRequest
          /\ client' = [client EXCEPT ![d] = [lastSeq |-> link[d].req, syncing |-> TRUE,
                                             deferred |-> {}]]
          /\ sync' = [sync EXCEPT ![d] = [SyncOff EXCEPT !.pc = "read", !.from = link[d].req,
                                                         !.pos = link[d].req]]
      BY <2>1 DEF BeginResume
    <3>2. OnLink(c)' \subseteq OnLink(c)
      <4>1. /\ link'[c].wire = link[c].wire /\ link'[c].up = link[c].up
            /\ link'[c].req \in {link[c].req, NoRequest}
        BY <1>0, <3>1 DEF LinkTyped
      <4> QED  BY <2>0, <4>1 DEF OnLink
    <3>3. /\ client'[c].lastSeq = client[c].lastSeq
             \/ (client'[c].lastSeq = link[c].req /\ link[c].req # NoRequest)
          /\ client'[c].deferred \subseteq client[c].deferred
          /\ sync'[c].flush \subseteq sync[c].flush
      <4>1. CASE c = d  BY <1>0, <3>1, <4>1 DEF ClientTyped, SyncTyped, SyncOff
      <4>2. CASE c # d  BY <1>0, <3>1, <4>2 DEF ClientTyped, SyncTyped
      <4> QED  BY <4>1, <4>2
    <3>4. link[c].req # NoRequest => link[c].req \in OnLink(c)  BY DEF OnLink
    <3> QED  BY <1>3, <1>4, <2>0, <3>2, <3>3, <3>4
  <2>2. CASE ResumeRead(d)
    <3>1. /\ \E p, q, r : sync' = [sync EXCEPT ![d].pc = p, ![d].page = q, ![d].full = r]
          /\ UNCHANGED <<client, link>>
      BY <2>2 DEF ResumeRead
    <3>2. sync'[c].flush = sync[c].flush
      <4>1. PICK p, q, r : sync' = [sync EXCEPT ![d].pc = p, ![d].page = q, ![d].full = r]
        BY <3>1
      <4> QED  BY <1>0, <4>1 DEF SyncTyped
    <3>3. OnLink(c)' = OnLink(c)  BY <2>0, <3>1, OnLinkSame
    <3> QED  BY <1>3, <1>4, <2>0, <3>1, <3>2, <3>3
  <2>3. CASE Replay(d)
    <3>1. PICK k \in 1..head, n \in 1..head : Replayed(d, k, n)  BY <2>3, ReplayIs
    <3>2. /\ sync' = [sync EXCEPT ![d] = sync'[d]] /\ sync'[d].flush = sync[d].flush
      <4>1. /\ sync' = [sync EXCEPT ![d] = sync'[d]]
            /\ sync'[d] = [pc |-> sync'[d].pc, from |-> sync[d].from, pos |-> n,
                           page |-> (n + 1)..k, full |-> sync[d].full,
                           delivered |-> sync'[d].delivered,
                           truncated |-> sync'[d].truncated, flush |-> sync[d].flush]
        BY <3>1 DEF Replayed
      <4>2. sync'[d].flush = sync[d].flush  BY <4>1
      <4> QED  BY <4>1, <4>2
    <3>3. sync'[c].flush = sync[c].flush  BY <1>0, <3>2 DEF SyncTyped
    <3>4. CASE UNCHANGED <<client, link, sent>>
      <4>1. OnLink(c)' = OnLink(c)  BY <2>0, <3>4, OnLinkSame
      <4> QED  BY <1>3, <1>4, <2>0, <3>3, <3>4, <4>1
    <3>5. CASE /\ client' = [client EXCEPT ![d].lastSeq = n]
               /\ link' = Enqueue(link, d, Event(n))
               /\ sent' = [sent EXCEPT ![d] = @ \union {n}]
      <4>1. Event(n) \in Frame /\ Event(n).seq = n  BY <1>0 DEF Event, Frame
      <4>2. Pushes(d, Event(n))  BY <1>0, <3>5, <4>1, EnqueuePushes
      <4>3. OnLink(c)' \subseteq OnLink(c) \union {i \in {n} : c = d}
        BY <2>0, <4>1, <4>2, PushesOnLink
      <4>4. /\ client'[c].deferred = client[c].deferred
            /\ client'[c].lastSeq = IF c = d THEN n ELSE client[c].lastSeq
        BY <1>0, <3>5 DEF ClientTyped
      \* all of the replay so far was sent, and all before it was given
      <4>5. ASSUME c = d PROVE Covered(c, n)'
        <5>1. /\ sync[c].pc = "replay" /\ n = sync[c].pos + 1
          BY <3>1, <4>5 DEF Replayed
        <5>2. /\ sync[c].from <= client[c].lastSeq
              /\ \A i \in Wanted(c) : sync[c].from < i /\ i <= sync[c].pos => i \in sent[c]
          BY <1>0, <5>1 DEF SyncShape, Syncing
        <5>3. /\ sync[c].from \in Nat /\ sync[c].pos \in Nat /\ client[c].lastSeq \in Nat
              /\ n \in Nat
          BY <1>0 DEF SyncTyped, ClientTyped
        <5>4. n \in sent'[c] /\ sent[c] \subseteq sent'[c]
          BY <1>0, <3>5, <4>5 DEF ConnTyped
        <5>5. \A i \in Wanted(c) \ jumped' :
                 base'[c] < i /\ i <= client[c].lastSeq => Has(c, i)'
          BY <1>2, <1>3 DEF Covered, Wanted
        <5>6. \A i \in Wanted(c) : i <= n =>
                 \/ i <= client[c].lastSeq
                 \/ i = n \/ (sync[c].from < i /\ i <= sync[c].pos)
          BY <5>1, <5>2, <5>3, WantedPositive
        <5>7. \A i \in sent'[c] : Has(c, i)'  BY DEF Has
        <5> QED  BY <5>2, <5>4, <5>5, <5>6, <5>7 DEF Covered, Wanted
      <4> QED  BY <1>3, <1>4, <2>0, <3>3, <4>3, <4>4, <4>5
    <3> QED  BY <3>1, <3>4, <3>5 DEF Replayed
  <2>4. CASE EndSync(d)
    <3>1. /\ client' = [client EXCEPT ![d] = Ended(d)] /\ link' = link
          /\ sync' = [sync EXCEPT ![d].pc = "flush", ![d].flush = Kept(d)]
      BY <2>4 DEF EndSync
    <3>2. OnLink(c)' = OnLink(c)  BY <2>0, <3>1, OnLinkSame
    <3>3. /\ client'[c].lastSeq \in client[c].deferred \union {client[c].lastSeq}
          /\ client'[c].deferred \subseteq client[c].deferred
          /\ sync'[c].flush \subseteq sync[c].flush \union client[c].deferred
      <4>1. CASE c = d
        <5>1. client'[c] = Ended(c) /\ sync'[c].flush = Kept(c)
          BY <1>0, <3>1, <4>1 DEF ClientTyped, SyncTyped
        <5> QED  BY <5>1, EndedIs DEF Kept
      <4>2. CASE c # d  BY <1>0, <3>1, <4>2 DEF ClientTyped, SyncTyped
      <4> QED  BY <4>1, <4>2
    <3> QED  BY <1>3, <1>4, <2>0, <3>2, <3>3
  <2>5. CASE Flush(d)
    <3> DEFINE n == Min(sync[d].flush)
    <3>1. /\ link' = Enqueue(link, d, Event(n)) /\ client' = client
          /\ sync' = [sync EXCEPT ![d].flush = @ \ {n}] /\ sync[d].flush # {}
      BY <2>5 DEF Flush
    <3>2. n \in sync[d].flush /\ n \in Nat
      BY <1>0, <3>1, LeastOf, sync[d].flush \subseteq Nat DEF SyncTyped
    <3> HIDE DEF n
    <3>3. Event(n) \in Frame /\ Event(n).seq = n  BY <3>2 DEF Event, Frame
    <3>4. Pushes(d, Event(n))  BY <1>0, <3>1, <3>3, EnqueuePushes
    <3>5. OnLink(c)' \subseteq OnLink(c) \union {i \in {n} : c = d}
      BY <2>0, <3>3, <3>4, PushesOnLink
    <3>6. sync'[c].flush \subseteq sync[c].flush  BY <1>0, <3>1 DEF SyncTyped
    <3> QED  BY <1>3, <1>4, <2>0, <3>1, <3>2, <3>5, <3>6
  <2>6. CASE Answer(d)
    <3> DEFINE f == Resumed(sync[d].from, client[d].lastSeq, sync[d].truncated)
    <3>1. /\ link' = Enqueue(link, d, f) /\ client' = client
          /\ sync' = [sync EXCEPT ![d] = SyncOff]
      BY <2>6 DEF Answer
    <3>2. sync[d].from \in Nat /\ client[d].lastSeq \in Nat /\ sync[d].truncated \in BOOLEAN
      BY <1>0 DEF SyncTyped, ClientTyped
    <3>3. f \in Frame /\ f.seq = client[d].lastSeq  BY <3>2 DEF Resumed, Frame
    <3> HIDE DEF f
    <3>4. Pushes(d, f)  BY <1>0, <3>1, <3>3, EnqueuePushes
    <3>5. OnLink(c)' \subseteq OnLink(c) \union {i \in {client[d].lastSeq} : c = d}
      BY <2>0, <3>3, <3>4, PushesOnLink
    <3>6. sync'[c].flush \subseteq sync[c].flush  BY <1>0, <3>1 DEF SyncTyped, SyncOff
    <3> QED  BY <1>3, <1>4, <2>0, <3>1, <3>5, <3>6
  <2>7. CASE ResumeFails(d)
    <3>1. /\ link' = Enqueue(link, d, Error) /\ base' = [base EXCEPT ![d] = head]
          /\ client' = [client EXCEPT ![d] = Ended(d)] /\ sync' = [sync EXCEPT ![d] = SyncOff]
      BY <2>7 DEF ResumeFails
    <3>2. Error \in Frame /\ Error.seq = 0  BY DEF Error, Frame
    <3>3. Pushes(d, Error)  BY <1>0, <3>1, <3>2, EnqueuePushes
    <3>4. OnLink(c)' \subseteq OnLink(c) \union {0}  BY <2>0, <3>2, <3>3, PushesOnLink
    <3>5. Covered(c, 0)'
      <4>1. base'[c] \in Nat  BY DEF TypeOK, HubTyped, ConnTyped
      <4> QED  BY <4>1, WantedPositive DEF Covered, Wanted
    <3>6. /\ client'[c].lastSeq \in client[c].deferred \union {client[c].lastSeq}
          /\ client'[c].deferred \subseteq client[c].deferred
          /\ sync'[c].flush \subseteq sync[c].flush
      <4>1. CASE c = d
        <5>1. client'[c] = Ended(c) /\ sync'[c].flush = {}
          BY <1>0, <3>1, <4>1 DEF ClientTyped, SyncTyped, SyncOff
        <5> QED  BY <5>1, EndedIs DEF Kept
      <4>2. CASE c # d  BY <1>0, <3>1, <4>2 DEF ClientTyped, SyncTyped
      <4> QED  BY <4>1, <4>2
    <3> QED  BY <1>3, <1>4, <2>0, <3>4, <3>5, <3>6
  <2> QED  BY <1>8, <2>1, <2>2, <2>3, <2>4, <2>5, <2>6, <2>7 DEF Resuming
<1>9. ASSUME NEW d \in Conns, Receive(d) PROVE \A m \in Known(c)' : Covered(c, m)'
  <2>0. UNCHANGED <<head, signals, cursor, drain, stage, latest, client, sync, base,
                    sent, jumped, faults>>
    BY <1>9, ReceiveWrites
  <2>1. OnLink(c)' \subseteq OnLink(c)
    <3>1. CASE c = d
      <4>1. /\ link[c].up /\ 1 \in 1..Len(link[c].wire)
            /\ browser'[Owner[c]].pos \in {browser[Owner[c]].pos, link[c].wire[1].seq}
            /\ link'[c].req \in {link[c].req, browser[Owner[c]].pos}
            /\ \A i \in 1..Len(link'[c].wire) :
                  i + 1 \in 1..Len(link[c].wire) /\ link'[c].wire[i] = link[c].wire[i + 1]
        BY <1>9, <3>1, ReceiveIs
      <4>2. browser[Owner[c]].pos \in OnLink(c) /\ link[c].wire[1].seq \in OnLink(c)
        BY <4>1 DEF OnLink
      <4>3. \A i \in 1..Len(link'[c].wire) : link'[c].wire[i].seq \in OnLink(c)
        BY <4>1 DEF OnLink
      <4>4. link'[c].req # NoRequest => link'[c].req \in OnLink(c)
        BY <4>1, <4>2 DEF OnLink
      <4>5. ASSUME NEW m \in OnLink(c)' PROVE m \in OnLink(c)
        <5>1. \/ \E i \in 1..Len(link'[c].wire) : m = link'[c].wire[i].seq
              \/ m = link'[c].req /\ m # NoRequest
              \/ m = browser'[Owner[c]].pos
          BY DEF OnLink
        <5> QED  BY <4>1, <4>2, <4>3, <4>4, <5>1
      <4> QED  BY <4>5
    <3>2. CASE c # d
      <4>1. /\ link'[c] = link[c] /\ link[d].up
            /\ \A b \in Browsers : b # Owner[d] => browser'[b] = browser[b]
        BY <1>9, <3>2, ReceiveIs
      <4>2. Owner[c] # Owner[d] \/ ~link[c].up
        BY <1>0, <3>2, <4>1 DEF LinkShape
      <4>3. Owner[c] \in Browsers  BY DEF HubAssumption
      <4> QED  BY <4>1, <4>2, <4>3, OnLinkSame
    <3> QED  BY <3>1, <3>2
  <2> QED  BY <1>3, <1>4, <2>0, <2>1
<1>10. ASSUME NEW d \in Conns, Disconnect(d) PROVE \A m \in Known(c)' : Covered(c, m)'
  <2>0. /\ UNCHANGED <<cursor, drain, client, sync, browser>>
        /\ link' = [link EXCEPT ![d] = LinkDown]
    BY <1>10, ReceiveWrites DEF Disconnect
  <2>1. OnLink(c)' \subseteq OnLink(c)
    <3>1. link'[c] = link[c] \/ (Len(link'[c].wire) = 0 /\ ~link'[c].up /\ link'[c].req = NoRequest)
      BY <1>0, <2>0 DEF LinkTyped, LinkDown
    <3> QED  BY <2>0, <3>1 DEF OnLink
  <2> QED  BY <1>3, <1>4, <2>0, <2>1
<1> QED  BY <1>5, <1>6, <1>7, <1>8, <1>9, <1>10, Steps

LEMMA PageCoveredStep ==
    ASSUME TypeOK, TypeOK', Shape, HubAssumption, Next,
           NEW c \in Conns, c \in Registered, c \in Registered',
           PageCovered(c), \A m \in Known(c) : Covered(c, m)
    PROVE  PageCovered(c)'
<1>0. /\ ConnTyped /\ ClientTyped /\ DrainTyped /\ DrainShape
      /\ head \in Nat /\ cursor \in 0..head /\ NoConn \notin Conns /\ Retained(c)
      /\ drain.page \subseteq Nat /\ drain.seq \in Nat /\ drain.last \in Nat
  BY RetainedStep DEF TypeOK, HubTyped, DrainTyped, Shape, HubAssumption
\* with the same page at work, or one record less to be given, nothing is lost
<1>1. ASSUME drain'.pc \in Working => drain.pc \in Working /\ drain'.last = drain.last,
             \A n \in Wanted(c) : n \in drain.page => n \in drain'.page \/ (n = drain'.seq /\ c \in drain'.targets),
             \A n \in Wanted(c) \ jumped : n = drain.seq /\ c \in drain.targets /\ base[c] < n =>
                (n = drain'.seq /\ c \in drain'.targets) \/ Has(c, n) \/ Has(c, n)'
      PROVE  PageCovered(c)'
  <2>1. SUFFICES ASSUME drain'.pc \in Working, NEW n \in Wanted(c) \ jumped',
                        base'[c] < n, n <= drain'.last
                 PROVE  n \in drain'.page \/ (n = drain'.seq /\ c \in drain'.targets) \/ Has(c, n)'
    BY DEF PageCovered, Wanted
  <2>2. n \in Nat /\ base[c] \in Nat /\ base'[c] \in Nat /\ base[c] <= base'[c] /\ n \notin jumped
    BY <1>0, WantedPositive DEF Retained, TypeOK, HubTyped, ConnTyped
  <2>3. base[c] < n /\ n <= drain.last  BY <1>1, <2>1, <2>2
  <2>4. n \in drain.page \/ (n = drain.seq /\ c \in drain.targets) \/ Has(c, n)
    BY <1>1, <2>1, <2>2, <2>3 DEF PageCovered
  <2>5. Has(c, n) => Has(c, n)'  BY <1>0, <2>1 DEF Retained
  <2> QED  BY <1>1, <2>2, <2>3, <2>4, <2>5
<1>2. CASE drain' = drain
  BY <1>1, <1>2
<1>3. CASE Draining
  <2>0. UNCHANGED <<head, stage, latest, sync, browser, base>>  BY <1>3, DrainingWrites
  <2>1. CASE TakeSignal \/ CheckClients \/ IdleRead \/ IdleSet \/ DrainFails \/ PageDone
    <3>1. drain'.pc \notin Working
      <4>1. CASE TakeSignal \/ CheckClients \/ IdleRead
        BY <1>0, <4>1 DEF TakeSignal, CheckClients, IdleRead, DrainTyped, Working
      <4>2. CASE IdleSet \/ DrainFails \/ PageDone
        BY <4>2 DEF IdleSet, DrainFails, PageDone, DrainIdle, Working
      <4> QED  BY <2>1, <4>1, <4>2
    <3> QED  BY <3>1 DEF PageCovered
  <2>2. CASE ReadPage
    <3>1. CASE Since(cursor, DrainPage) = {}
      BY <2>2, <3>1 DEF ReadPage, DrainIdle, PageCovered, Working
    <3>2. CASE Since(cursor, DrainPage) # {}
      <4>1. PICK k \in 1..head : /\ Since(cursor, DrainPage) = (cursor + 1)..k
                                 /\ Max(Since(cursor, DrainPage)) = k
        BY <3>2, SinceIs DEF HubAssumption, TypeOK, HubTyped
      <4>2. drain'.page = (cursor + 1)..k /\ drain'.last = k
        BY <1>0, <2>2, <3>2, <4>1 DEF ReadPage, DrainTyped
      <4>3. Covered(c, cursor)  BY DEF Known
      <4>4. \A n \in Wanted(c) \ jumped : base[c] < n /\ n <= cursor => Has(c, n)
        BY <4>3 DEF Covered
      <4>5. \A n \in Wanted(c) \ jumped' :
               base'[c] < n /\ n <= k => n \in (cursor + 1)..k \/ Has(c, n)'
        BY <1>0, <2>0, <4>1, <4>4, WantedPositive DEF Retained
      <4> QED  BY <4>2, <4>5 DEF PageCovered, Wanted
    <3> QED  BY <3>1, <3>2
  <2>3. CASE NextRecord
    <3>1. /\ drain' = [drain EXCEPT !.seq = Min(drain.page), !.page = @ \ {Min(drain.page)},
                                    !.targets = Registered]
          /\ drain.pc = "deliver" /\ drain.targets = {}
      BY <2>3 DEF NextRecord
    <3>2. /\ drain'.last = drain.last /\ drain'.seq = Min(drain.page)
          /\ drain'.page = drain.page \ {Min(drain.page)} /\ drain'.targets = Registered
      BY <1>0, <3>1 DEF DrainTyped
    <3> QED  BY <1>1, <3>1, <3>2 DEF Working
  <2>4. CASE Push
    <3>1. /\ drain'.last = drain.last /\ drain'.seq = drain.seq /\ drain'.page = drain.page
          /\ drain'.targets = drain.targets /\ drain.pc = "push"
      BY <1>0, <2>4 DEF Push, DrainTyped
    <3> QED  BY <1>1, <3>1 DEF Working
  <2>5. CASE \E d \in Conns : Claim(d)
    <3>1. PICK d \in Conns : Claim(d)  BY <2>5
    <3>2. /\ drain'.last = drain.last /\ drain'.seq = drain.seq /\ drain'.page = drain.page
          /\ drain'.targets = drain.targets \ {d} /\ drain.pc = "deliver"
      <4>1. drain' \in {[drain EXCEPT !.targets = @ \ {d}],
                        [drain EXCEPT !.targets = @ \ {d}, !.target = d, !.pc = "push"]}
            /\ drain.pc = "deliver"
        BY <3>1 DEF Claim
      <4>2. CASE drain' = [drain EXCEPT !.targets = @ \ {d}]
        BY <1>0, <4>1, <4>2 DEF DrainTyped
      <4>3. CASE drain' = [drain EXCEPT !.targets = @ \ {d}, !.target = d, !.pc = "push"]
        BY <1>0, <4>1, <4>3 DEF DrainTyped
      <4> QED  BY <4>1, <4>2, <4>3
    \* c claims the record, has it deferred, or is past it and has it
    <3>3. ASSUME NEW n \in Wanted(c) \ jumped, n = drain.seq, c = d, base[c] < n
          PROVE  Has(c, n) \/ Has(c, n)'
      <4>1. CASE n > client[c].lastSeq /\ ~client[c].syncing
        <5>1. drain' = [drain EXCEPT !.targets = @ \ {d}, !.target = d, !.pc = "push"]
          BY <3>1, <3>3, <4>1 DEF Claim
        <5>2. drain'.target = c /\ drain'.seq = n  BY <1>0, <3>3, <5>1 DEF DrainTyped
        <5> QED  BY <5>2 DEF Has
      <4>2. CASE n > client[c].lastSeq /\ client[c].syncing
        <5>1. client' = [client EXCEPT ![c].deferred = @ \union {n}]
          BY <3>1, <3>3, <4>2 DEF Claim
        <5>2. n \in client'[c].deferred  BY <1>0, <5>1 DEF ClientTyped
        <5> QED  BY <5>2 DEF Has
      <4>3. CASE ~(n > client[c].lastSeq)
        <5>1. client[c].lastSeq \in Nat /\ n \in Nat  BY <1>0, <3>3 DEF ClientTyped
        <5>2. Covered(c, client[c].lastSeq)  BY DEF Known
        <5> QED  BY <3>3, <4>3, <5>1, <5>2 DEF Covered
      <4> QED  BY <4>1, <4>2, <4>3
    <3> QED  BY <1>1, <3>2, <3>3 DEF Working
  <2> QED  BY <1>3, <2>1, <2>2, <2>3, <2>4, <2>5 DEF Draining
<1>4. CASE \E reaches \in BOOLEAN : Commit(reaches)
  BY <1>2, <1>4, CommitWrites
<1>5. ASSUME NEW d \in Conns, Serving(d) \/ Resuming(d) \/ Receive(d) \/ Disconnect(d)
      PROVE PageCovered(c)'
  BY <1>2, <1>5, ServingWrites, ResumingWrites, ReceiveWrites
<1> QED  BY <1>3, <1>4, <1>5, Steps

LEMMA CoverageStep ==
    ASSUME TypeOK, TypeOK', Shape, Coverage, HubAssumption, Next
    PROVE  Coverage'
<1>1. ASSUME NEW c \in Conns, c \in Registered', c \in Registered
      PROVE  PageCovered(c)' /\ \A m \in Known(c)' : Covered(c, m)'
  BY <1>1, PageCoveredStep, KnownStep DEF Coverage
\* a connection that registers is to have nothing of what there is
<1>2. ASSUME NEW c \in Conns, c \in Registered', c \notin Registered
      PROVE  PageCovered(c)' /\ \A m \in Known(c)' : Covered(c, m)'
  <2>1. Dial(c)
    <3>1. stage'[c] # stage[c]  BY <1>2 DEF Registered
    <3>2. CASE \E d \in Conns : Serving(d)
      <4>1. PICK d \in Conns : Serving(d)  BY <3>2
      <4>2. d = c
        BY <3>1, <4>1 DEF Serving, Dial, ReadLatest, ReadLatestFails, Position, SendReady,
           Unregister, TypeOK, ConnTyped
      <4> QED
        BY <1>2, <4>1, <4>2 DEF Serving, Dial, ReadLatest, ReadLatestFails, Position, SendReady,
           Unregister, TypeOK, ConnTyped, Registered
    <3> QED  BY <3>1, <3>2, Steps, CommitWrites, DrainingWrites, ResumingWrites, ReceiveWrites
  <2>2. /\ base'[c] = head' /\ head' = head /\ head \in Nat
        /\ UNCHANGED <<cursor, client, sync, drain>>
        /\ link' = [link EXCEPT ![c] = [up |-> TRUE, wire |-> <<>>, req |-> AskedOnOpen(Owner[c])]]
        /\ browser' = [browser EXCEPT ![Owner[c]].settled = FALSE]
    BY <2>1 DEF Dial, hubVars, TypeOK, HubTyped, ConnTyped
  <2>3. Known(c)' \subseteq 0..head
    <3>1. cursor \in 0..head /\ drain.seq \in 0..head
      BY DEF TypeOK, HubTyped, DrainTyped
    <3>2. /\ client[c].lastSeq \in 0..head /\ client[c].deferred \subseteq 0..head
          /\ sync[c].flush \subseteq 0..head
      BY DEF TypeOK, ClientTyped, SyncTyped
    <3>3. Len(link'[c].wire) = 0 /\ link'[c].req = AskedOnOpen(Owner[c])
      BY <2>2 DEF TypeOK, LinkTyped
    <3>4. Owner[c] \in Browsers /\ browser[Owner[c]].pos \in 0..head
      BY DEF TypeOK, BrowserTyped, HubAssumption
    <3>5. AskedOnOpen(Owner[c]) # NoRequest => AskedOnOpen(Owner[c]) \in 0..head
      BY <3>4 DEF AskedOnOpen
    <3>6. browser'[Owner[c]].pos \in 0..head
      BY <2>2, <3>4 DEF TypeOK, BrowserTyped
    <3>7. OnLink(c)' \subseteq 0..head  BY <3>3, <3>5, <3>6 DEF OnLink
    <3> QED  BY <2>2, <3>1, <3>2, <3>7 DEF Known
  <2>4. \A m \in 0..head : Covered(c, m)'
    BY <2>2, WantedPositive DEF Covered, Wanted
  <2>5. drain.last \in 0..head  BY DEF TypeOK, DrainTyped
  <2>6. PageCovered(c)'
    BY <2>2, <2>5, WantedPositive DEF PageCovered, Wanted
  <2> QED  BY <2>3, <2>4, <2>6
<1>3. \A c : c \in Registered' => c \in Conns  BY DEF Registered
<1> QED  BY <1>1, <1>2, <1>3 DEF Coverage

-----------------------------------------------------------------------------
(* Truth *)

\* Where a frame on its way comes from.
LEMMA FramesStep ==
    ASSUME TypeOK, Shape, HubAssumption, Next, NEW c \in Conns, NEW i \in 1..Len(link'[c].wire)
    PROVE  \/ \E j \in 1..Len(link[c].wire) : link'[c].wire[i] = link[c].wire[j]
           \/ link'[c].wire[i].kind # "resumed"
           \/ /\ Answer(c)
              /\ link'[c].wire[i] = Resumed(sync[c].from, client[c].lastSeq, sync[c].truncated)
<1>0. LinkTyped /\ head \in Nat  BY DEF TypeOK, HubTyped
<1>1. CASE link' = link  BY <1>1
<1>2. ASSUME NEW d \in Conns, NEW f \in Frame, link' = Enqueue(link, d, f)
      PROVE  \/ \E j \in 1..Len(link[c].wire) : link'[c].wire[i] = link[c].wire[j]
             \/ c = d /\ link'[c].wire[i] = f
  <2>1. Pushes(d, f)  BY <1>0, <1>2, EnqueuePushes
  <2>2. \/ i \in 1..Len(link[c].wire) /\ link'[c].wire[i] = link[c].wire[i]
        \/ c = d /\ link[d].up /\ link'[c].wire[i] = f
    BY <1>0, <1>2, <2>1, PushesNothingElse
  <2> QED  BY <2>2
<1>3. CASE \E reaches \in BOOLEAN : Commit(reaches)  BY <1>1, <1>3, CommitWrites
<1>4. CASE Draining
  <2>1. CASE Push
    <3>1. drain.target \in Conns /\ drain.seq \in Wanted(drain.target)
      BY <2>1 DEF Push, Shape, DrainShape
    <3>2. Event(drain.seq) \in Frame /\ Event(drain.seq).kind # "resumed"
      BY <3>1, WantedPositive DEF Event, Frame
    <3> QED  BY <1>2, <2>1, <3>1, <3>2 DEF Push
  <2> QED  BY <1>1, <1>4, <2>1, DrainingWrites
<1>5. ASSUME NEW d \in Conns, Serving(d)
      PROVE  \/ \E j \in 1..Len(link[c].wire) : link'[c].wire[i] = link[c].wire[j]
             \/ link'[c].wire[i].kind # "resumed"
  <2>1. CASE Dial(d)
    <3>1. link' = [link EXCEPT ![d] = [up |-> TRUE, wire |-> <<>>, req |-> AskedOnOpen(Owner[d])]]
      BY <2>1 DEF Dial
    <3>2. CASE c = d
      <4>1. Len(link'[c].wire) = 0  BY <1>0, <3>1, <3>2 DEF LinkTyped
      <4> QED  BY <4>1
    <3>3. CASE c # d
      BY <1>0, <3>1, <3>3 DEF LinkTyped
    <3> QED  BY <3>2, <3>3
  <2>2. CASE SendReady(d)
    <3>1. client[d].lastSeq \in Nat  BY <1>0 DEF TypeOK, ClientTyped
    <3>2. Ready(client[d].lastSeq) \in Frame /\ Ready(client[d].lastSeq).kind # "resumed"
      BY <3>1 DEF Ready, Frame
    <3> QED  BY <1>2, <2>2, <3>2 DEF SendReady
  <2> QED  BY <1>1, <1>5, <2>1, <2>2, ServingWrites
<1>6. ASSUME NEW d \in Conns, Resuming(d)
      PROVE  \/ \E j \in 1..Len(link[c].wire) : link'[c].wire[i] = link[c].wire[j]
             \/ link'[c].wire[i].kind # "resumed"
             \/ /\ Answer(c)
                /\ link'[c].wire[i] = Resumed(sync[c].from, client[c].lastSeq, sync[c].truncated)
  <2>1. CASE BeginResume(d)
    <3>1. link'[c].wire = link[c].wire  BY <1>0, <2>1 DEF BeginResume, LinkTyped
    <3> QED  BY <3>1
  <2>2. CASE Replay(d)
    <3>1. PICK k \in 1..head, n \in 1..head : Replayed(d, k, n)  BY <2>2, ReplayIs
    <3>2. link' = Enqueue(link, d, Event(n)) \/ link' = link  BY <3>1 DEF Replayed
    <3>3. Event(n) \in Frame /\ Event(n).kind # "resumed"  BY <1>0 DEF Event, Frame
    <3> QED  BY <1>1, <1>2, <3>2, <3>3
  <2>3. CASE Flush(d)
    <3>0. sync[d].flush \subseteq Nat /\ sync[d].flush # {}
      <4>1. sync[d].flush \subseteq 1..head  BY DEF TypeOK, SyncTyped
      <4> QED  BY <1>0, <2>3, <4>1 DEF Flush
    <3>1. Min(sync[d].flush) \in Nat  BY <3>0, LeastOf
    <3>2. Event(Min(sync[d].flush)) \in Frame /\ Event(Min(sync[d].flush)).kind # "resumed"
      BY <3>1 DEF Event, Frame
    <3> QED  BY <1>2, <2>3, <3>2 DEF Flush
  <2>4. CASE Answer(d)
    <3> DEFINE f == Resumed(sync[d].from, client[d].lastSeq, sync[d].truncated)
    <3>1. sync[d].from \in Nat /\ client[d].lastSeq \in Nat /\ sync[d].truncated \in BOOLEAN
      BY <1>0 DEF TypeOK, SyncTyped, ClientTyped
    <3>2. f \in Frame /\ link' = Enqueue(link, d, f)  BY <2>4, <3>1 DEF Answer, Resumed, Frame
    <3> HIDE DEF f
    <3>3. \/ \E j \in 1..Len(link[c].wire) : link'[c].wire[i] = link[c].wire[j]
          \/ c = d /\ link'[c].wire[i] = f
      BY <1>2, <3>2
    <3> QED  BY <2>4, <3>3 DEF f
  <2>5. CASE ResumeFails(d)
    <3>1. Error \in Frame /\ Error.kind # "resumed"  BY DEF Error, Frame
    <3> QED  BY <1>2, <2>5, <3>1 DEF ResumeFails
  <2>6. CASE ResumeRead(d) \/ EndSync(d)
    BY <1>1, <1>6, <2>6, ResumingWrites
  <2> QED  BY <1>6, <2>1, <2>2, <2>3, <2>4, <2>5, <2>6 DEF Resuming
<1>7. ASSUME NEW d \in Conns, Receive(d)
      PROVE  \E j \in 1..Len(link[c].wire) : link'[c].wire[i] = link[c].wire[j]
  <2>1. /\ \A e \in Conns : e # d => link'[e] = link[e]
        /\ \A j \in 1..Len(link'[d].wire) :
              j + 1 \in 1..Len(link[d].wire) /\ link'[d].wire[j] = link[d].wire[j + 1]
    BY <1>7, ReceiveIs
  <2>2. CASE c = d  BY <2>1, <2>2
  <2>3. CASE c # d  BY <2>1, <2>3
  <2> QED  BY <2>2, <2>3
<1>8. ASSUME NEW d \in Conns, Disconnect(d)
      PROVE  \E j \in 1..Len(link[c].wire) : link'[c].wire[i] = link[c].wire[j]
  <2>1. link' = [link EXCEPT ![d] = LinkDown]  BY <1>8 DEF Disconnect
  <2>2. CASE c = d
    <3>1. Len(link'[c].wire) = 0  BY <1>0, <2>1, <2>2 DEF LinkTyped, LinkDown
    <3> QED  BY <3>1
  <2>3. CASE c # d  BY <1>0, <2>1, <2>3 DEF LinkTyped
  <2> QED  BY <2>2, <2>3
<1> QED  BY <1>3, <1>4, <1>5, <1>6, <1>7, <1>8, Steps

\* On a connection that is up, what was pushed stays pushed, and what the drain has
\* in hand it pushes.
LEMMA PushedKept ==
    ASSUME TypeOK, Shape, HubAssumption, Next, NEW c \in Conns, link[c].up
    PROVE  /\ sent[c] \subseteq sent'[c] /\ jumped \subseteq jumped'
           /\ drain.target = c =>
                 drain.seq \in sent'[c] \/ (drain'.target = c /\ drain'.seq = drain.seq)
<1>0. ConnTyped /\ SyncTyped /\ DrainTyped /\ DrainShape /\ NoConn \notin Conns
  BY DEF TypeOK, Shape, HubAssumption
<1>1. CASE \E reaches \in BOOLEAN : Commit(reaches)  BY <1>1, CommitWrites
<1>2. CASE Draining
  <2>0. jumped \subseteq jumped'  BY <1>2, DrainingWrites DEF IdleSet, MoveCursor
  <2>1. CASE Push
    <3>1. /\ sent' = [sent EXCEPT ![drain.target] = @ \union {drain.seq}]
          /\ drain.target \in Conns
      BY <1>0, <2>1 DEF Push, DrainShape
    <3> QED  BY <1>0, <2>0, <3>1 DEF ConnTyped
  <2>2. CASE ~Push
    <3>1. drain.target = NoConn
      BY <1>0, <1>2, <2>2 DEF DrainShape, Draining, TakeSignal, CheckClients, IdleRead, IdleSet,
         ReadPage, DrainFails, NextRecord, PageDone, Claim
    <3> QED  BY <1>0, <1>2, <2>0, <2>2, <3>1, DrainingWrites
  <2> QED  BY <2>1, <2>2
<1>3. ASSUME NEW d \in Conns, Serving(d)
      PROVE  sent[c] \subseteq sent'[c] /\ jumped \subseteq jumped' /\ drain' = drain
  <2>1. jumped \subseteq jumped' /\ drain' = drain
    BY <1>3, ServingWrites DEF Position, MoveCursor
  <2>2. sent' = sent \/ (Unregister(d) /\ sent' = [sent EXCEPT ![d] = {}])
    BY <1>3, ServingWrites DEF Unregister
  <2>3. Unregister(d) => c # d  BY DEF Unregister
  <2> QED  BY <1>0, <2>1, <2>2, <2>3 DEF ConnTyped
<1>4. ASSUME NEW d \in Conns, Resuming(d)
      PROVE  sent[c] \subseteq sent'[c] /\ jumped \subseteq jumped' /\ drain' = drain
  <2>1. jumped' = jumped /\ drain' = drain  BY <1>4, ResumingWrites
  <2>2. sent' = sent \/ \E n : sent' = [sent EXCEPT ![d] = @ \union {n}]
    BY <1>4, ResumingWrites DEF Replay, Flush
  <2> QED  BY <1>0, <2>1, <2>2 DEF ConnTyped
<1>5. ASSUME NEW d \in Conns, Receive(d) \/ Disconnect(d)
      PROVE  sent[c] \subseteq sent'[c] /\ jumped \subseteq jumped' /\ drain' = drain
  BY <1>5, ReceiveWrites
<1> QED  BY <1>1, <1>2, <1>3, <1>4, <1>5, Steps

LEMMA TruthStep ==
    ASSUME TypeOK, TypeOK', Shape, Coverage, Truth, HubAssumption, Next
    PROVE  Truth'
<1>1. SUFFICES ASSUME NEW c \in Conns, NEW i \in 1..Len(link'[c].wire)
               PROVE  Truthful(c, link[c].wire[i])'
  BY DEF Truth
<1>0. head \in Nat /\ LinkTyped /\ LinkShape /\ SyncShape(c) /\ ConnTyped
  BY DEF TypeOK, HubTyped, Shape
<1>2. CASE link'[c].wire[i].kind # "resumed"  BY <1>2 DEF Truthful
<1>3. CASE \E j \in 1..Len(link[c].wire) : link'[c].wire[i] = link[c].wire[j]
  <2>1. PICK j \in 1..Len(link[c].wire) : link'[c].wire[i] = link[c].wire[j]  BY <1>3
  <2>2. link[c].up
    <3>1. Len(LinkDown.wire) = 0  BY DEF LinkDown
    <3> QED  BY <1>0, <2>1, <3>1 DEF LinkShape
  <2>3. Truthful(c, link[c].wire[j])  BY <2>1 DEF Truth
  <2>4. /\ sent[c] \subseteq sent'[c] /\ jumped \subseteq jumped'
        /\ drain.target = c =>
              drain.seq \in sent'[c] \/ (drain'.target = c /\ drain'.seq = drain.seq)
    BY <2>2, PushedKept
  <2> QED  BY <2>1, <2>3, <2>4 DEF Truthful, Wanted
<1>4. CASE /\ Answer(c)
           /\ link'[c].wire[i] = Resumed(sync[c].from, client[c].lastSeq, sync[c].truncated)
  <2>1. /\ sync[c].pc = "flush" /\ sync[c].flush = {}
        /\ UNCHANGED <<drain, sent, jumped>>
    BY <1>4 DEF Answer, hubVars, history
  <2>2. client[c].deferred = {} /\ stage[c] = "serving"
    BY <1>0, <2>1 DEF SyncShape, Syncing
  <2>3. Covered(c, client[c].lastSeq)
    BY <2>2 DEF Coverage, Known, Registered
  <2>4. /\ sync[c].truncated \/ base[c] <= sync[c].pos
        /\ \A n \in Wanted(c) : sync[c].from < n /\ n <= sync[c].pos => n \in sent[c]
    BY <1>0, <2>1 DEF SyncShape
  <2>5. base[c] \in Nat /\ sync[c].pos \in Nat  BY <1>0 DEF ConnTyped, TypeOK, SyncTyped
  <2>6. ~sync[c].truncated =>
           \A n \in Wanted(c) \ jumped :
              sync[c].from < n /\ n <= client[c].lastSeq =>
                 n \in sent[c] \/ (drain.target = c /\ drain.seq = n)
    <3>1. SUFFICES ASSUME ~sync[c].truncated, NEW n \in Wanted(c) \ jumped,
                          sync[c].from < n, n <= client[c].lastSeq, ~(n <= sync[c].pos)
                   PROVE  n \in sent[c] \/ (drain.target = c /\ drain.seq = n)
      BY <2>4
    <3>2. base[c] < n  BY <2>4, <2>5, <3>1, WantedPositive
    <3> QED  BY <2>1, <2>2, <2>3, <3>1, <3>2 DEF Covered, Has
  <2>7. /\ link'[c].wire[i].from = sync[c].from /\ link'[c].wire[i].seq = client[c].lastSeq
        /\ link'[c].wire[i].truncated = sync[c].truncated
    BY <1>4 DEF Resumed
  <2> QED  BY <2>1, <2>6, <2>7 DEF Truthful, Wanted
<1> QED  BY <1>2, <1>3, <1>4, FramesStep

-----------------------------------------------------------------------------
(* Theorems *)

LEMMA HubInit == HubAssumption /\ Init => HubInv
<1> SUFFICES ASSUME HubAssumption, Init PROVE HubInv  OBVIOUS
<1>1. Registered = {} /\ \A c \in Conns : Len(link[c].wire) = 0
  BY DEF Init, Registered, LinkDown
<1>2. Coverage /\ Truth  BY <1>1 DEF Coverage, Truth
<1> QED  BY <1>2, InitTyped, InitShape DEF HubInv

LEMMA HubStep == HubAssumption /\ HubInv /\ [Next]_vars => HubInv'
<1> SUFFICES ASSUME HubAssumption, HubInv, [Next]_vars PROVE HubInv'  OBVIOUS
<1>1. CASE Next
  BY <1>1, TypesStep, ShapeStep, CoverageStep, TruthStep DEF HubInv
<1>2. CASE UNCHANGED vars
  <2>1. TypeOK'  BY <1>2, TypesStep DEF HubInv
  <2>2. Shape'
    BY <1>2 DEF HubInv, vars, Shape, DrainShape, LinkShape, SyncShape, Wanted, Registered
  <2>3. Coverage'
    <3>1. Registered' = Registered  BY <1>2 DEF vars, Registered
    <3>2. \A c \in Conns : Known(c)' = Known(c)  BY <1>2 DEF vars, Known, OnLink
    <3>3. \A c \in Conns : PageCovered(c) => PageCovered(c)'
      BY <1>2 DEF vars, PageCovered, Has, Wanted
    <3>4. \A c \in Conns : \A m : Covered(c, m) => Covered(c, m)'
      BY <1>2 DEF vars, Covered, Has, Wanted
    <3> QED  BY <3>1, <3>2, <3>3, <3>4 DEF HubInv, Coverage, Registered
  <2>4. Truth'  BY <1>2 DEF HubInv, vars, Truth, Truthful, Wanted
  <2> QED  BY <2>1, <2>2, <2>3, <2>4 DEF HubInv
<1> QED  BY <1>1, <1>2

\* The invariant of drain, connections, resumes and browsers holds throughout.
THEOREM HubInvariant == Spec => []HubInv
<1>1. Init => HubInv  BY HubInit, HubAssumption
<1>2. HubInv /\ [Next]_vars => HubInv'  BY HubStep, HubAssumption
<1> QED  BY <1>1, <1>2, PTL DEF Spec

\* Positions, pages, queues and flags are what the code can hold; in particular no
\* connection's queue outgrows its bound (client.go enqueue), and live events are
\* deferred exactly while a replay runs (client.go beginSync, endSync).
THEOREM HubTypeOK == Spec => []TypeOK
<1>1. HubInv => TypeOK  BY DEF HubInv
<1> QED  BY <1>1, HubInvariant, PTL

\* No event the drain has passed is missing on a connection that serves: whichever
\* way pages, deferring, replays, failures and reconnects interleave, only a cursor
\* jump passes over one (hub.go drain, deliver; client.go send; protocol.go resume).
THEOREM DrainedIsGiven == Spec => []DrainedMeansGiven
<1>1. HubInv => DrainedMeansGiven
  <2>1. SUFFICES ASSUME HubInv, NEW c \in Current, NEW n \in Promised(c) \ jumped
                 PROVE  n \in Given(c)
    BY DEF DrainedMeansGiven
  <2>2. c \in Conns /\ c \in Registered  BY DEF Current, Registered
  <2>3. n \in Wanted(c) \ jumped /\ base[c] < n /\ n <= cursor  BY DEF Promised
  <2>4. Covered(c, cursor)  BY <2>1, <2>2 DEF HubInv, Coverage, Known
  <2>5. Has(c, n)  BY <2>3, <2>4 DEF Covered
  \* what the drain has in hand is beyond the cursor, unless it was jumped over
  <2>6. ~(drain.target = c /\ drain.seq = n)
    <3>1. NoConn # c  BY <2>2, HubAssumption
    <3>2. n > 0  BY <2>2, <2>3, WantedPositive, HubAssumption
    <3> QED  BY <2>1, <2>3, <3>1, <3>2 DEF HubInv, Shape, DrainShape, Working
  <2> QED  BY <2>5, <2>6 DEF Has, Given
<1> QED  BY <1>1, HubInvariant, PTL

\* A resumed frame without the truncated flag covers nothing that was not pushed
\* before it or is in the drain's hands (protocol.go resume, client.go endSync).
THEOREM ResumedTellsTruth == Spec => []ResumedMeansComplete
<1>1. HubInv => ResumedMeansComplete
  <2>1. SUFFICES ASSUME HubInv, NEW c \in Conns, NEW f \in Range(link[c].wire)
                 PROVE  Truthful(c, f)
    BY DEF ResumedMeansComplete, Truthful
  <2>2. link[c].wire \in Seq(Frame)  BY <2>1 DEF HubInv, TypeOK, LinkTyped
  <2>3. PICK i \in 1..Len(link[c].wire) : f = link[c].wire[i]
    BY <2>2 DEF Range
  <2> QED  BY <2>1, <2>3 DEF HubInv, Truth
<1> QED  BY <1>1, HubInvariant, PTL

=============================================================================
