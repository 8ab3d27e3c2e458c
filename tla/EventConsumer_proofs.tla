------------------------ MODULE EventConsumer_proofs ------------------------
(***************************************************************************)
(* Proofs about EventConsumer, for any number of processes and workspaces  *)
(* and any page size, poison, archive and number of faults.  Types need no *)
(* assumption.  What a checkpoint means needs that imports are quiet and   *)
(* fail early, if at all: EventConsumer's runs show what happens when they *)
(* do not.                                                                 *)
(***************************************************************************)
EXTENDS EventConsumer, FiniteSetTheorems, WellFoundedInduction, TLAPS

Active(p) == pc[p] # "idle"

\* Events of w that some transaction of this installation committed.
LiveRows(w) == rows[w] \ imported[w]

-----------------------------------------------------------------------------
(* The inductive invariant: what holds whatever imports do *)

\* A drain has a workspace, pages left to fetch when it fetches, and a page when
\* it handles; the page lists committed rows after its position; and what it
\* checkpoints it has handled.
DrainOK ==
    \A p \in Procs :
        /\ Active(p) <=> ws[p] \in WS
        /\ pc[p] = "fetch" => pages[p] > 0
        /\ pc[p] \in {"handle", "checkpoint"} => page[p] # {}
        /\ page[p] # {} => Active(p)
        /\ \A n \in page[p] : n \in rows[ws[p]] /\ after[p] < n
        /\ pc[p] = "checkpoint" => Current(p) \in handled[ws[p]]

\* A drain whose session lives holds its workspace's advisory lock.
LockHeld == \A p \in Procs : Active(p) /\ alive[p] => lock[ws[p]] = p

BaseInv == TypeOK /\ DrainOK /\ LockHeld

-----------------------------------------------------------------------------
(* The inductive invariant: what quiet imports add *)

\* Counters and checkpoints: no row is beyond the counter, and no checkpoint.
BelowCounter ==
    \A w \in WS : cursor[w] <= counter[w] /\ \A n \in rows[w] : n <= counter[w]

\* Until its first live event a workspace holds nothing but archive rows, and its
\* counter, once there, is past all of them.
BeforeEvents ==
    \A w \in WS : importing[w] \/ rows[w] = {} =>
        /\ rows[w] \subseteq imported[w]
        /\ counter[w] # 0 => \A m \in Archive : m <= counter[w]

\* A completed import has put its checkpoint past the archive.
BaselineDone ==
    \A w \in WS : ~importing[w] => \A n \in imported[w] : n <= cursor[w]

\* Nobody drains while an import runs; a drain starts past the archive and, as long
\* as it owns the lock, at the checkpoint; everything live up to its position has
\* been handled; and its page leaves nothing out.
InPosition(p) ==
    /\ ~importing[ws[p]]
    /\ \A n \in imported[ws[p]] : n <= after[p]
    /\ after[p] <= counter[ws[p]]
    /\ alive[p] => after[p] = cursor[ws[p]]
    /\ \A m \in LiveRows(ws[p]) : m <= after[p] => m \in handled[ws[p]]
    /\ \A n \in page[p] : \A m \in rows[ws[p]] : after[p] < m /\ m < n => m \in page[p]

PositionOK == \A p \in Procs : Active(p) => InPosition(p)

QuietInv ==
    /\ BelowCounter
    /\ BeforeEvents
    /\ BaselineDone
    /\ PositionOK
    /\ CheckpointCoversHandled
    /\ ImportedNeverHandled

\* The assumption about imports under which checkpoints mean what they should.
QuietImports == QuietImport /\ ~LateFailure

-----------------------------------------------------------------------------
(* Pages and positions *)

\* A non-empty set of naturals has a least element.
LEMMA HasLeast ==
    ASSUME NEW S, S \subseteq Nat, S # {}
    PROVE  \E n \in S : \A m \in S : n <= m
<1> DEFINE R == OpToRel(<, Nat)
<1>1. PICK n \in S : \A m \in S : ~(<<m, n>> \in R)
  BY NatLessThanWellFounded, WFMin
<1>2. \A m \in S : ~(m < n)  BY <1>1 DEF OpToRel
<1> QED  BY <1>2

\* A drain takes the rows of its page in order.
LEMMA CurrentIsLeast ==
    ASSUME NEW p \in Procs, page[p] \subseteq Nat, page[p] # {}
    PROVE  Current(p) \in page[p] /\ \A m \in page[p] : Current(p) <= m
<1>1. \E n \in page[p] : \A m \in page[p] : n <= m  BY HasLeast
<1> QED  BY <1>1 DEF Current

\* A page holds committed rows after the position, and none of the rows between
\* the position and a row of the page is missing.
LEMMA PageIsPrefix ==
    ASSUME NEW w \in WS, NEW n \in Nat, rows[w] \subseteq Nat
    PROVE  /\ \A k \in Since(w, n) : k \in rows[w] /\ n < k
           /\ \A k \in Since(w, n) : \A m \in rows[w] : n < m /\ m < k => m \in Since(w, n)
<1> DEFINE later == {m \in rows[w] : m > n}
           Upto(k) == {m \in later : m <= k}
<1>1. Since(w, n) = {k \in later : Cardinality(Upto(k)) <= PageLimit}  BY DEF Since
<1>2. ASSUME NEW k \in Since(w, n), NEW m \in rows[w], n < m, m < k
      PROVE  m \in Since(w, n)
  <2>1. k \in later /\ k \in Nat /\ m \in later /\ m \in Nat /\ Cardinality(Upto(k)) <= PageLimit
    BY <1>1, <1>2
  <2>2. Upto(k) \subseteq 0..k  BY <2>1
  <2>3. IsFiniteSet(Upto(k))
    <3>1. \A j \in Nat : IsFiniteSet(0..j)  BY FS_Interval
    <3> QED  BY <2>1, <2>2, <3>1, FS_Subset
  <2>4. Upto(m) \subseteq Upto(k)  BY <2>1, <1>2
  <2>5. /\ Cardinality(Upto(m)) \in Nat /\ Cardinality(Upto(k)) \in Nat
        /\ Cardinality(Upto(m)) <= Cardinality(Upto(k))
    BY <2>3, <2>4, FS_Subset, FS_CardinalityType
  <2>6. Cardinality(Upto(m)) <= PageLimit  BY <2>1, <2>5, ConsumerAssumption
  <2> QED  BY <1>1, <2>1, <2>6
<1> QED  BY <1>1, <1>2

\* The last sequence of an archive.
LEMMA ArchiveHasLast ==
    ASSUME Archive # {}
    PROVE  LET last == CHOOSE n \in Archive : \A m \in Archive : m <= n
           IN  last \in Archive /\ last \in Nat \ {0} /\ \A m \in Archive : m <= last
BY ConsumerAssumption

-----------------------------------------------------------------------------
(* The order of checkpoints *)

\* There are finitely many workspaces, as many as their list is long.
LEMMA WorkspacesFinite == IsFiniteSet(WS) /\ Cardinality(WS) = Len(Workspaces)
<1>1. Workspaces \in [1..Len(Workspaces) -> WS] /\ Len(Workspaces) \in Nat
  BY ConsumerAssumption
<1>2. Workspaces \in Bijection(1..Len(Workspaces), WS)
  BY <1>1, ConsumerAssumption DEF WS, Range, IsInjective, Bijection, Injection, Surjection
<1>3. IsFiniteSet(1..Len(Workspaces)) /\ Cardinality(1..Len(Workspaces)) = Len(Workspaces)
  <2>1. \A n \in Nat : IsFiniteSet(1..n) /\ Cardinality(1..n) = n  BY FS_Interval
  <2> QED  BY <1>1, <2>1
<1> QED  BY <1>2, <1>3, FS_Bijection DEF ExistsBijection

\* At first checkpoints come in the order of workspace ids.
LEMMA FirstOrder == Workspaces \in SetToSeqs(WS)
BY WorkspacesFinite, ConsumerAssumption DEF SetToSeqs, IsInjective

\* A sequence is a function on its positions.
LEMMA SequenceIsFunction ==
    ASSUME NEW S, NEW s \in Seq(S)
    PROVE  s \in [1..Len(s) -> S]
OBVIOUS

\* Touching a checkpoint moves its workspace to the end and keeps every other.
LEMMA TouchedIsOrder ==
    ASSUME NEW w \in WS, order \in SetToSeqs(WS)
    PROVE  Touched(w) \in SetToSeqs(WS)
<1> DEFINE N == Cardinality(WS)
           i == Position(w)
<1>1. N \in Nat /\ order \in [1..N -> WS] /\ \A j, k \in 1..N : j # k => order[j] # order[k]
  BY WorkspacesFinite, FS_CardinalityType DEF SetToSeqs
<1>2. order \in Injection(1..N, WS)  BY <1>1 DEF Injection, IsInjective
<1>3. order \in Surjection(1..N, WS)
  <2>1. IsFiniteSet(1..N) /\ Cardinality(1..N) = N  BY <1>1, FS_Interval
  <2> QED  BY <1>2, <2>1, WorkspacesFinite, FS_Injection
<1>4. i \in 1..N /\ order[i] = w  BY <1>1, <1>3 DEF Surjection, Position
<1> DEFINE o == [k \in 1..N |-> IF k < i THEN order[k] ELSE IF k < N THEN order[k + 1] ELSE w]
<1>5. Touched(w) = o
  <2>1. order \in Seq(WS) /\ Len(order) = N  BY <1>1
  <2>2. Touched(w) = Append(SubSeq(order, 1, i - 1) \o SubSeq(order, i + 1, N), w)
    BY <2>1 DEF Touched, RemoveAt
  <2> HIDE DEF N, i
  <2> DEFINE a == SubSeq(order, 1, i - 1)
             b == SubSeq(order, i + 1, N)
  <2>3. a \in Seq(WS) /\ Len(a) = i - 1 /\ \A k \in 1..(i - 1) : a[k] = order[k]
    BY <1>1, <1>4, <2>1
  <2>4. b \in Seq(WS) /\ Len(b) = N - i /\ \A k \in 1..(N - i) : b[k] = order[k + i]
    BY <1>1, <1>4, <2>1
  <2> HIDE DEF a, b
  <2> DEFINE c == a \o b
  <2>5. /\ c \in Seq(WS) /\ Len(c) = N - 1
        /\ \A k \in 1..(N - 1) : c[k] = IF k < i THEN order[k] ELSE order[k + 1]
    <3>1. c \in Seq(WS) /\ Len(c) = N - 1  BY <1>1, <1>4, <2>3, <2>4
    <3>2. ASSUME NEW k \in 1..(N - 1), k < i PROVE c[k] = order[k]
      BY <3>2, <1>1, <1>4, <2>3, <2>4
    <3>3. ASSUME NEW k \in 1..(N - 1), ~(k < i) PROVE c[k] = order[k + 1]
      <4>1. c[k] = b[k - (i - 1)]  BY <3>3, <1>1, <1>4, <2>3, <2>4
      <4>2. k - (i - 1) \in 1..(N - i)  BY <3>3, <1>1, <1>4
      <4> QED  BY <4>1, <4>2, <2>4, <3>3, <1>1, <1>4
    <3> QED  BY <3>1, <3>2, <3>3
  <2>6. Touched(w) = Append(c, w)  BY <2>2 DEF a, b
  <2> HIDE DEF c
  <2>7. Touched(w) \in [1..N -> WS]
    <3>1. Touched(w) \in Seq(WS) /\ Len(Touched(w)) = N  BY <1>1, <2>5, <2>6
    <3> QED  BY <3>1, SequenceIsFunction
  <2>8. \A k \in 1..N : Touched(w)[k] = o[k]  BY <1>1, <1>4, <2>5, <2>6
  <2> QED  BY <2>7, <2>8
<1> HIDE DEF N, i
<1>6. o \in [1..N -> WS]  BY <1>1, <1>4
<1>7. \A j, k \in 1..N : j # k => o[j] # o[k]  BY <1>1, <1>4
<1> QED  BY <1>5, <1>6, <1>7 DEF SetToSeqs, N

\* What a reconcile lists are workspaces.
LEMMA ListsWorkspaces ==
    ASSUME NEW behind \in SetToSeqs({w \in WS : Backlog(w)}),
           NEW k, k = IF Len(behind) < ReconcileLimit THEN Len(behind) ELSE ReconcileLimit
    PROVE  SubSeq(behind, 1, k) \in Seq(WS)
<1> DEFINE T == {w \in WS : Backlog(w)}
<1>1. Cardinality(T) \in Nat  BY WorkspacesFinite, FS_Subset, FS_CardinalityType
<1>2. behind \in [1..Cardinality(T) -> WS]  BY DEF SetToSeqs
<1> HIDE DEF T
<1>3. behind \in Seq(WS) /\ Len(behind) \in Nat  BY <1>1, <1>2
<1>4. k \in Nat /\ k <= Len(behind)  BY <1>3, ConsumerAssumption
<1> QED  BY <1>3, <1>4

-----------------------------------------------------------------------------
(* What every step keeps, whatever imports do *)

USE DEF Active

\* The initial states.
LEMMA BaseInit == Init => BaseInv
<1> SUFFICES ASSUME Init PROVE BaseInv  OBVIOUS
<1>1. TypeOK
  BY FirstOrder, ConsumerAssumption DEF Init, TypeOK
<1>2. DrainOK /\ LockHeld
  BY ConsumerAssumption DEF Init, DrainOK, LockHeld
<1> QED  BY <1>1, <1>2 DEF BaseInv

\* A step that leaves drains and locks alone and loses no row and no handled
\* event keeps what drains rely on.
LEMMA DrainsUndisturbed ==
    ASSUME BaseInv, UNCHANGED <<drainVars, lock>>,
           \A w \in WS : rows[w] \subseteq rows'[w] /\ handled[w] \subseteq handled'[w]
    PROVE  DrainOK' /\ LockHeld'
<1>1. \A p \in Procs : Current(p)' = Current(p)  BY DEF Current, drainVars
<1>2. DrainOK'  BY <1>1 DEF BaseInv, DrainOK, drainVars
<1>3. LockHeld'  BY DEF BaseInv, LockHeld, drainVars
<1> QED  BY <1>2, <1>3

\* Commits, imports and reconciles.
LEMMA OutsideDrainsBase ==
    ASSUME BaseInv,
           \/ \E w \in WS, S \in SUBSET Procs : CommitEvent(w, S)
           \/ \E p \in Procs : Reconcile(p)
           \/ \E w \in WS : \/ ImportClaim(w) \/ ImportCounter(w) \/ ImportFinish(w)
                            \/ ImportFails(w) \/ \E n \in Archive : ImportRow(w, n)
    PROVE  BaseInv'
<1> USE DEF BaseInv, logVars, ckptVars, drainVars
<1>1. ASSUME NEW w \in WS, NEW S \in SUBSET Procs, CommitEvent(w, S) PROVE BaseInv'
  <2>1. TypeOK'  BY <1>1 DEF CommitEvent, TypeOK
  <2>2. \A v \in WS : rows[v] \subseteq rows'[v] /\ handled' = handled
    BY <1>1 DEF CommitEvent, TypeOK
  <2> QED  BY <1>1, <2>1, <2>2, DrainsUndisturbed DEF CommitEvent
<1>2. ASSUME NEW p \in Procs, Reconcile(p) PROVE BaseInv'
  <2>1. PICK behind \in SetToSeqs({w \in WS : Backlog(w)}) :
           todo' = [todo EXCEPT ![p] =
                       SubSeq(behind, 1, IF Len(behind) < ReconcileLimit
                                         THEN Len(behind) ELSE ReconcileLimit)]
    BY <1>2 DEF Reconcile
  <2>2. todo' \in [Procs -> Seq(WS)]  BY <2>1, ListsWorkspaces DEF TypeOK
  <2>3. TypeOK'  BY <1>2, <2>2 DEF Reconcile, TypeOK
  <2> QED  BY <1>2, <2>3, DrainsUndisturbed DEF Reconcile
<1>3. ASSUME NEW w \in WS, ImportClaim(w) \/ ImportFails(w) PROVE BaseInv'
  <2>1. CASE ImportClaim(w)
    <3>1. imports' \in 0..MaxImports
      BY <2>1, ConsumerAssumption DEF ImportClaim, TypeOK
    <3>2. TypeOK'  BY <2>1, <3>1 DEF ImportClaim, TypeOK
    <3> QED  BY <2>1, <3>2, DrainsUndisturbed DEF ImportClaim
  <2>2. CASE ImportFails(w)
    <3>1. TypeOK'  BY <2>2 DEF ImportFails, TypeOK
    <3> QED  BY <2>2, <3>1, DrainsUndisturbed DEF ImportFails
  <2> QED  BY <1>3, <2>1, <2>2
<1>4. ASSUME NEW w \in WS, ImportCounter(w) PROVE BaseInv'
  <2>1. counter' \in [WS -> Nat]  BY <1>4, ArchiveHasLast DEF ImportCounter, TypeOK
  <2>2. TypeOK'  BY <1>4, <2>1 DEF ImportCounter, TypeOK
  <2> QED  BY <1>4, <2>2, DrainsUndisturbed DEF ImportCounter
<1>5. ASSUME NEW w \in WS, NEW n \in Archive, ImportRow(w, n) PROVE BaseInv'
  <2>1. TypeOK'  BY <1>5, ConsumerAssumption DEF ImportRow, TypeOK
  <2>2. \A v \in WS : rows[v] \subseteq rows'[v] /\ handled' = handled
    BY <1>5 DEF ImportRow, TypeOK
  <2> QED  BY <1>5, <2>1, <2>2, DrainsUndisturbed DEF ImportRow
<1>6. ASSUME NEW w \in WS, ImportFinish(w) PROVE BaseInv'
  <2>1. order' \in SetToSeqs(WS)  BY <1>6, TouchedIsOrder DEF ImportFinish, TypeOK
  <2>2. TypeOK'  BY <1>6, <2>1 DEF ImportFinish, TypeOK
  <2> QED  BY <1>6, <2>2, DrainsUndisturbed DEF ImportFinish
<1> QED  BY <1>1, <1>2, <1>3, <1>4, <1>5, <1>6

\* The start of a drain, from a reconcile's list or a signal.
LEMMA BeginBase ==
    ASSUME BaseInv, NEW p \in Procs, NEW w \in WS, pc[p] = "idle", Begin(p, w),
           UNCHANGED <<logVars, cursor, handled>>
    PROVE  /\ order' \in SetToSeqs(WS) /\ hasRow' \in SUBSET WS
           /\ lock' \in [WS -> Procs \union {NoProc}]
           /\ pc' \in [Procs -> {"idle", "fetch", "handle", "checkpoint", "release"}]
           /\ ws' \in [Procs -> WS \union {NoWorkspace}]
           /\ after' \in [Procs -> Nat] /\ pages' \in [Procs -> 0..Pages]
           /\ UNCHANGED <<page, full, alive>>
           /\ DrainOK' /\ LockHeld'
<1> USE DEF BaseInv, logVars, drainVars
<1>1. CASE UNCHANGED <<order, hasRow, lock, drainVars>>
  BY <1>1, DrainsUndisturbed DEF TypeOK
<1>2. CASE lock[w] = NoProc /\ ~UNCHANGED <<order, hasRow, lock, drainVars>>
  <2>1. /\ lock' = [lock EXCEPT ![w] = p] /\ hasRow' = hasRow \union {w}
        /\ order' = IF w \in hasRow THEN order ELSE Touched(w)
        /\ pc' = [pc EXCEPT ![p] = "fetch"] /\ ws' = [ws EXCEPT ![p] = w]
        /\ after' = [after EXCEPT ![p] = cursor[w]] /\ pages' = [pages EXCEPT ![p] = Pages]
        /\ UNCHANGED <<page, full, alive>>
    BY <1>2 DEF Begin
  <2>2. order' \in SetToSeqs(WS)  BY <2>1, TouchedIsOrder DEF TypeOK
  <2>3. \A q \in Procs : Current(q)' = Current(q)  BY <2>1 DEF Current
  <2>4. page[p] = {}  BY DEF DrainOK, TypeOK
  <2>5. DrainOK'  BY <2>1, <2>3, <2>4, ConsumerAssumption DEF DrainOK, TypeOK
  <2>6. LockHeld'  BY <1>2, <2>1, ConsumerAssumption DEF LockHeld, DrainOK, TypeOK
  <2>7. /\ hasRow' \in SUBSET WS
        /\ lock' \in [WS -> Procs \union {NoProc}]
        /\ pc' \in [Procs -> {"idle", "fetch", "handle", "checkpoint", "release"}]
        /\ ws' \in [Procs -> WS \union {NoWorkspace}]
        /\ after' \in [Procs -> Nat] /\ pages' \in [Procs -> 0..Pages]
    BY <2>1, ConsumerAssumption DEF TypeOK
  <2> QED  BY <2>1, <2>2, <2>5, <2>6, <2>7
<1> QED  BY <1>1, <1>2 DEF Begin

LEMMA TakeBase ==
    ASSUME BaseInv, NEW p \in Procs, TakeTodo(p) \/ \E w \in WS : TakeSignal(p, w)
    PROVE  BaseInv'
<1>1. CASE TakeTodo(p)
  <2>1. Head(todo[p]) \in WS /\ todo' \in [Procs -> Seq(WS)]
    BY <1>1 DEF TakeTodo, BaseInv, TypeOK
  <2> QED  BY <1>1, <2>1, BeginBase DEF TakeTodo, BaseInv, TypeOK, logVars
<1>2. ASSUME NEW w \in WS, TakeSignal(p, w) PROVE BaseInv'
  <2>1. signals' \in [Procs -> SUBSET WS]  BY <1>2 DEF TakeSignal, BaseInv, TypeOK
  <2> QED  BY <1>2, <2>1, BeginBase DEF TakeSignal, BaseInv, TypeOK, logVars
<1> QED  BY <1>1, <1>2

\* A fetched page is a page of the drain's workspace.
LEMMA FetchBase ==
    ASSUME BaseInv, NEW p \in Procs, Fetch(p)
    PROVE  BaseInv'
<1> USE DEF BaseInv, logVars, ckptVars
<1> DEFINE records == Since(ws[p], after[p])
<1>1. ws[p] \in WS /\ after[p] \in Nat /\ pages[p] > 0  BY DEF Fetch, DrainOK, TypeOK
<1>2. \A n \in records : n \in rows[ws[p]] /\ after[p] < n
  BY <1>1, PageIsPrefix DEF TypeOK
<1>3. records \subseteq Nat  BY <1>1, <1>2 DEF TypeOK
<1> HIDE DEF records
<1>4. /\ page' = [page EXCEPT ![p] = records]
      /\ full' = [full EXCEPT ![p] = Cardinality(records) = PageLimit]
      /\ pages' = [pages EXCEPT ![p] = @ - 1]
      /\ pc' = [pc EXCEPT ![p] = IF records = {} THEN "release" ELSE "handle"]
      /\ pc[p] = "fetch"
      /\ UNCHANGED <<logVars, ckptVars, lock, ws, after, alive, todo, signals, faults>>
  BY DEF Fetch, records
<1>5. TypeOK'
  <2>1. pages' \in [Procs -> 0..Pages]  BY <1>1, <1>4, ConsumerAssumption DEF TypeOK
  <2>2. page' \in [Procs -> SUBSET Nat] /\ full' \in [Procs -> BOOLEAN]
    BY <1>3, <1>4 DEF TypeOK
  <2> QED  BY <1>4, <2>1, <2>2 DEF TypeOK
<1>6. DrainOK'
  <2>1. \A q \in Procs \ {p} : Current(q)' = Current(q)  BY <1>4 DEF Current, TypeOK
  <2> QED  BY <1>1, <1>2, <1>4, <2>1 DEF DrainOK, TypeOK
<1>7. LockHeld'  BY <1>4 DEF LockHeld, TypeOK
<1> QED  BY <1>5, <1>6, <1>7

\* A handler that succeeds or fails.
LEMMA HandleBase ==
    ASSUME BaseInv, NEW p \in Procs, HandleOk(p) \/ HandleFails(p)
    PROVE  BaseInv'
<1> USE DEF BaseInv, logVars, ckptVars
<1>1. Current(p) \in page[p] /\ ws[p] \in WS /\ Current(p) \in rows[ws[p]]
  BY CurrentIsLeast DEF HandleOk, HandleFails, DrainOK, TypeOK
<1>2. \A q \in Procs : Current(q)' = Current(q)  BY DEF HandleOk, HandleFails, Current
<1>3. CASE HandleOk(p)
  <2>1. TypeOK'  BY <1>1, <1>3 DEF HandleOk, TypeOK
  <2>2. DrainOK'  BY <1>1, <1>2, <1>3 DEF HandleOk, DrainOK, TypeOK
  <2> QED  BY <1>3, <2>1, <2>2 DEF HandleOk, LockHeld, TypeOK
<1>4. CASE HandleFails(p)
  <2>1. TypeOK'  BY <1>4 DEF HandleFails, TypeOK
  <2>2. DrainOK'  BY <1>2, <1>4 DEF HandleFails, DrainOK, TypeOK
  <2> QED  BY <1>4, <2>1, <2>2 DEF HandleFails, LockHeld, TypeOK
<1> QED  BY <1>3, <1>4

\* A saved, or lost, checkpoint.
LEMMA CheckpointBase ==
    ASSUME BaseInv, NEW p \in Procs, Checkpoint(p)
    PROVE  BaseInv'
<1> USE DEF BaseInv, logVars, Checkpoint
<1>1. Current(p) \in page[p] /\ Current(p) \in Nat /\ ws[p] \in WS /\ page[p] \subseteq Nat
  BY CurrentIsLeast DEF DrainOK, TypeOK
<1>2. CASE SessionWrites(p)
  <2> DEFINE rest == page[p] \ {Current(p)}
  <2>1. /\ cursor' = [cursor EXCEPT ![ws[p]] = Current(p)]
        /\ order' = Touched(ws[p])
        /\ after' = [after EXCEPT ![p] = Current(p)]
        /\ page' = [page EXCEPT ![p] = rest]
        /\ pc' = [pc EXCEPT ![p] = IF rest # {} THEN "handle"
                                   ELSE IF full[p] /\ pages[p] > 0 THEN "fetch" ELSE "release"]
    BY <1>2
  <2>2. order' \in SetToSeqs(WS)  BY <1>1, <2>1, TouchedIsOrder DEF TypeOK
  <2>3. /\ cursor' \in [WS -> Nat] /\ after' \in [Procs -> Nat]
        /\ page' \in [Procs -> SUBSET Nat]
        /\ pc' \in [Procs -> {"idle", "fetch", "handle", "checkpoint", "release"}]
    BY <1>1, <2>1 DEF TypeOK
  <2>4. TypeOK'  BY <2>2, <2>3 DEF TypeOK
  <2>5. \A q \in Procs \ {p} : Current(q)' = Current(q)  BY <2>1 DEF Current, TypeOK
  <2>6. \A n \in rest : Current(p) < n  BY <1>1, CurrentIsLeast
  <2>7. DrainOK'
    <3>1. \A q \in Procs \ {p} : page'[q] = page[q] /\ pc'[q] = pc[q] /\ after'[q] = after[q]
      BY <2>1 DEF TypeOK
    <3>2. page'[p] = rest /\ after'[p] = Current(p) /\ pc'[p] \notin {"idle", "checkpoint"}
          /\ (pc'[p] = "handle" => rest # {}) /\ (pc'[p] = "fetch" => pages[p] > 0)
      BY <2>1 DEF TypeOK
    <3> QED  BY <1>1, <2>5, <2>6, <3>1, <3>2 DEF DrainOK
  <2>8. LockHeld'  BY <2>1 DEF LockHeld, TypeOK
  <2> QED  BY <2>4, <2>7, <2>8
<1>3. CASE ~SessionWrites(p)
  <2>1. pc' = [pc EXCEPT ![p] = "release"] /\ UNCHANGED <<cursor, order, after, page>>
    BY <1>3
  <2>2. TypeOK'  BY <2>1 DEF TypeOK
  <2>3. \A q \in Procs : Current(q)' = Current(q)  BY <2>1 DEF Current
  <2>4. DrainOK' /\ LockHeld'  BY <2>1, <2>3 DEF DrainOK, LockHeld, TypeOK
  <2> QED  BY <2>2, <2>4
<1> QED  BY <1>2, <1>3

\* A drain that ends, a lost session, a crash: whoever held no lock keeps none, and
\* whoever held one keeps it.
LEMMA EndBase ==
    ASSUME BaseInv, NEW p \in Procs, Release(p) \/ SessionLost(p) \/ Crash(p)
    PROVE  BaseInv'
<1> USE DEF BaseInv, logVars, ckptVars
<1>1. CASE SessionLost(p)
  <2>1. TypeOK'
    <3>1. faults' \in 0..MaxFaults  BY <1>1, ConsumerAssumption DEF SessionLost, TypeOK
    <3>2. lock' \in [WS -> Procs \union {NoProc}] /\ alive' \in [Procs -> BOOLEAN]
      BY <1>1 DEF SessionLost, TypeOK
    <3> QED  BY <1>1, <3>1, <3>2 DEF SessionLost, TypeOK
  <2>2. \A q \in Procs : Current(q)' = Current(q)  BY <1>1 DEF SessionLost, Current
  <2>3. DrainOK'  BY <1>1, <2>2 DEF SessionLost, DrainOK
  <2>4. LockHeld'  BY <1>1 DEF SessionLost, LockHeld, DrainOK, TypeOK
  <2> QED  BY <2>1, <2>3, <2>4
<1>2. CASE Release(p) \/ Crash(p)
  <2>1. /\ lock' = [w \in WS |-> IF lock[w] = p THEN NoProc ELSE lock[w]]
        /\ pc' = [pc EXCEPT ![p] = "idle"] /\ ws' = [ws EXCEPT ![p] = NoWorkspace]
        /\ after' = [after EXCEPT ![p] = 0] /\ page' = [page EXCEPT ![p] = {}]
        /\ full' = [full EXCEPT ![p] = FALSE] /\ pages' = [pages EXCEPT ![p] = 0]
        /\ alive' = [alive EXCEPT ![p] = TRUE] /\ UNCHANGED <<logVars, ckptVars>>
    BY <1>2 DEF Release, Crash, Reset
  <2>2. /\ lock' \in [WS -> Procs \union {NoProc}]
        /\ pc' \in [Procs -> {"idle", "fetch", "handle", "checkpoint", "release"}]
        /\ ws' \in [Procs -> WS \union {NoWorkspace}] /\ after' \in [Procs -> Nat]
        /\ page' \in [Procs -> SUBSET Nat] /\ full' \in [Procs -> BOOLEAN]
        /\ pages' \in [Procs -> 0..Pages] /\ alive' \in [Procs -> BOOLEAN]
    BY <2>1, ConsumerAssumption DEF TypeOK
  <2>3. todo' \in [Procs -> Seq(WS)] /\ signals' \in [Procs -> SUBSET WS] /\ faults' \in 0..MaxFaults
    <3>1. CASE Release(p)  BY <3>1 DEF Release, TypeOK
    <3>2. CASE Crash(p)
      <4>1. faults' \in 0..MaxFaults  BY <3>2, ConsumerAssumption DEF Crash, TypeOK
      <4> QED  BY <3>2, <4>1 DEF Crash, TypeOK
    <3> QED  BY <1>2, <3>1, <3>2
  <2>4. TypeOK'  BY <2>1, <2>2, <2>3 DEF TypeOK
  <2>5. \A q \in Procs \ {p} : Current(q)' = Current(q)  BY <2>1 DEF Current, TypeOK
  <2>6. DrainOK'  BY <2>1, <2>5, ConsumerAssumption DEF DrainOK, TypeOK
  <2>7. LockHeld'  BY <2>1 DEF LockHeld, DrainOK, TypeOK
  <2> QED  BY <2>4, <2>6, <2>7
<1> QED  BY <1>1, <1>2

\* Every step keeps types, drains and locks in order.
LEMMA BaseStep == BaseInv /\ [Next]_vars => BaseInv'
<1> SUFFICES ASSUME BaseInv, [Next]_vars PROVE BaseInv'  OBVIOUS
<1>1. CASE UNCHANGED vars
  <2>1. TypeOK'  BY <1>1 DEF vars, BaseInv, TypeOK
  <2> QED  BY <1>1, <2>1, DrainsUndisturbed DEF vars, drainVars, BaseInv
<1>2. CASE Next
  BY <1>2, OutsideDrainsBase, TakeBase, FetchBase, HandleBase, CheckpointBase, EndBase DEF Next
<1> QED  BY <1>1, <1>2

\* Types, drains and locks are in order in every reachable state.
LEMMA BaseInvariant == Spec => []BaseInv
<1> QED  BY BaseInit, BaseStep, PTL DEF Spec

\* Rows, checkpoints and drains keep their types through crashes, lost sessions and
\* imports of any kind.
THEOREM ConsumerTypeOK == Spec => []TypeOK
<1>1. BaseInv => TypeOK  BY DEF BaseInv
<1> QED  BY <1>1, BaseInvariant, PTL

-----------------------------------------------------------------------------
(* What every step keeps when imports are quiet *)

LEMMA QuietInit == Init => QuietInv
BY DEF Init, QuietInv, BelowCounter, BeforeEvents, BaselineDone, PositionOK,
   CheckpointCoversHandled, ImportedNeverHandled

\* A step that changes nothing but signals, lists, locks and the order of checkpoints.
LEMMA QuietUndisturbed ==
    ASSUME QuietInv,
           UNCHANGED <<rows, counter, imported, importing, cursor, handled,
                       pc, ws, after, page, alive>>
    PROVE  QuietInv'
BY DEF QuietInv, BelowCounter, BeforeEvents, BaselineDone, PositionOK, InPosition, LiveRows,
   CheckpointCoversHandled, ImportedNeverHandled

\* A live commit adds a row that every position, page and checkpoint is behind.
LEMMA CommitQuiet ==
    ASSUME BaseInv, QuietInv, QuietImports, NEW w \in WS, NEW S \in SUBSET Procs, CommitEvent(w, S)
    PROVE  QuietInv'
<1> DEFINE N == counter[w] + 1
<1>1. /\ rows' = [rows EXCEPT ![w] = @ \union {N}] /\ counter' = [counter EXCEPT ![w] = N]
      /\ ~importing[w] /\ N \notin rows[w]
      /\ UNCHANGED <<imported, importing, cursor, handled, pc, ws, after, page, alive>>
  BY DEF CommitEvent, QuietImports, ckptVars, drainVars
<1>2. /\ rows \in [WS -> SUBSET Nat] /\ counter \in [WS -> Nat] /\ cursor \in [WS -> Nat]
      /\ \A v \in WS : imported[v] \subseteq rows[v] /\ handled[v] \subseteq rows[v]
      /\ \A p \in Procs : after[p] \in Nat /\ page[p] \subseteq Nat
      /\ \A p \in Procs : Active(p) => ws[p] \in WS
  BY DEF BaseInv, TypeOK, DrainOK
<1>3. /\ \A n \in rows[w] : n < N
      /\ cursor[w] < N
      /\ N \notin imported[w] /\ N \notin handled[w]
  BY <1>1, <1>2 DEF QuietInv, BelowCounter
<1>4. BelowCounter'  BY <1>1, <1>2 DEF QuietInv, BelowCounter
<1>5. BeforeEvents' /\ BaselineDone'
  BY <1>1, <1>2 DEF QuietInv, BeforeEvents, BaselineDone
<1>6. PositionOK'
  <2> SUFFICES ASSUME NEW p \in Procs, Active(p)
               PROVE  InPosition(p)'
    BY <1>1 DEF PositionOK
  <2>1. ws[p] \in WS /\ InPosition(p)  BY <1>2 DEF QuietInv, PositionOK
  <2>2. \A n \in page[p] : n \in rows[ws[p]]  BY DEF BaseInv, DrainOK
  <2> QED  BY <1>1, <1>2, <1>3, <2>1, <2>2 DEF InPosition, LiveRows
<1>7. CheckpointCoversHandled' /\ ImportedNeverHandled'
  BY <1>1, <1>2, <1>3 DEF QuietInv, CheckpointCoversHandled, ImportedNeverHandled
<1> QED  BY <1>4, <1>5, <1>6, <1>7 DEF QuietInv

\* A drain starts at the checkpoint of a workspace that is not being imported.
LEMMA BeginQuiet ==
    ASSUME BaseInv, QuietInv, NEW p \in Procs, NEW w \in WS, pc[p] = "idle", Begin(p, w),
           UNCHANGED <<logVars, cursor, handled>>
    PROVE  QuietInv'
<1> USE DEF logVars, drainVars
<1>1. CASE UNCHANGED <<order, hasRow, lock, drainVars>>  BY <1>1, QuietUndisturbed
<1>2. CASE ~importing[w] /\ ~UNCHANGED <<order, hasRow, lock, drainVars>>
  <2>1. /\ pc' = [pc EXCEPT ![p] = "fetch"] /\ ws' = [ws EXCEPT ![p] = w]
        /\ after' = [after EXCEPT ![p] = cursor[w]] /\ UNCHANGED <<page, alive>>
    BY <1>2 DEF Begin
  <2>2. page[p] = {}  BY DEF BaseInv, DrainOK, TypeOK
  <2>3. ASSUME NEW q \in Procs \ {p}
        PROVE  /\ pc'[q] = pc[q] /\ ws'[q] = ws[q] /\ after'[q] = after[q]
               /\ page'[q] = page[q] /\ alive'[q] = alive[q]
    BY <2>1 DEF BaseInv, TypeOK
  <2>4. ws'[p] = w /\ after'[p] = cursor[w] /\ page'[p] = {}
    BY <2>1, <2>2 DEF BaseInv, TypeOK
  <2>5. InPosition(p)'
    BY <1>2, <2>4 DEF InPosition, LiveRows, QuietInv, BelowCounter, BaselineDone,
       CheckpointCoversHandled
  <2>6. \A q \in Procs \ {p} : Active(q)' => InPosition(q)'
    BY <2>3 DEF QuietInv, PositionOK, InPosition, LiveRows
  <2>7. PositionOK'  BY <2>5, <2>6 DEF PositionOK
  <2> QED  BY <2>7 DEF QuietInv, BelowCounter, BeforeEvents, BaselineDone,
           CheckpointCoversHandled, ImportedNeverHandled
<1> QED  BY <1>1, <1>2 DEF Begin

LEMMA TakeQuiet ==
    ASSUME BaseInv, QuietInv, NEW p \in Procs, TakeTodo(p) \/ \E w \in WS : TakeSignal(p, w)
    PROVE  QuietInv'
<1>1. CASE TakeTodo(p)
  <2>1. Head(todo[p]) \in WS  BY <1>1 DEF TakeTodo, BaseInv, TypeOK
  <2> QED  BY <1>1, <2>1, BeginQuiet DEF TakeTodo
<1>2. ASSUME NEW w \in WS, TakeSignal(p, w) PROVE QuietInv'
  BY <1>2, BeginQuiet DEF TakeSignal
<1> QED  BY <1>1, <1>2

\* A page leaves out nothing between the position and its rows.
LEMMA FetchQuiet ==
    ASSUME BaseInv, QuietInv, NEW p \in Procs, Fetch(p)
    PROVE  QuietInv'
<1> USE DEF logVars, ckptVars
<1> DEFINE records == Since(ws[p], after[p])
<1>1. ws[p] \in WS /\ after[p] \in Nat /\ rows[ws[p]] \subseteq Nat
  BY DEF Fetch, BaseInv, DrainOK, TypeOK
<1>2. \A k \in records : \A m \in rows[ws[p]] : after[p] < m /\ m < k => m \in records
  BY <1>1, PageIsPrefix
<1> HIDE DEF records
<1>3. /\ page' = [page EXCEPT ![p] = records] /\ pc[p] = "fetch"
      /\ pc' = [pc EXCEPT ![p] = IF records = {} THEN "release" ELSE "handle"]
      /\ UNCHANGED <<rows, counter, imported, importing, cursor, handled, ws, after, alive>>
  BY DEF Fetch, records
<1>4. ASSUME NEW q \in Procs, Active(q)' PROVE InPosition(q)'
  <2>1. Active(q)  BY <1>3, <1>4 DEF BaseInv, TypeOK
  <2>2. page'[q] = IF q = p THEN records ELSE page[q]  BY <1>3 DEF BaseInv, TypeOK
  <2> QED  BY <1>2, <1>3, <2>1, <2>2 DEF QuietInv, PositionOK, InPosition, LiveRows
<1>5. PositionOK'  BY <1>4 DEF PositionOK
<1> QED  BY <1>3, <1>5 DEF QuietInv, BelowCounter, BeforeEvents, BaselineDone,
         CheckpointCoversHandled, ImportedNeverHandled

\* The first row of a page is the first one after the position that was not handled,
\* and it is no import's.
LEMMA CurrentIsNext ==
    ASSUME BaseInv, QuietInv, NEW p \in Procs, pc[p] \in {"handle", "checkpoint"}
    PROVE  /\ ws[p] \in WS /\ Current(p) \in page[p]
           /\ Current(p) \in rows[ws[p]] /\ Current(p) \in Nat
           /\ after[p] < Current(p)
           /\ Current(p) \notin imported[ws[p]]
           /\ \A m \in LiveRows(ws[p]) : m < Current(p) => m \in handled[ws[p]]
<1>1. /\ ws[p] \in WS /\ page[p] \subseteq Nat /\ page[p] # {} /\ after[p] \in Nat
      /\ rows[ws[p]] \subseteq Nat /\ InPosition(p)
      /\ \A n \in page[p] : n \in rows[ws[p]] /\ after[p] < n
  BY DEF BaseInv, DrainOK, TypeOK, QuietInv, PositionOK
<1>2. Current(p) \in page[p] /\ \A m \in page[p] : Current(p) <= m
  BY <1>1, CurrentIsLeast
<1>3. ASSUME NEW m \in LiveRows(ws[p]), m < Current(p) PROVE m \in handled[ws[p]]
  <2>1. CASE m <= after[p]  BY <1>1, <2>1 DEF InPosition
  <2>2. CASE after[p] < m
    <3>1. m \in page[p]  BY <1>1, <1>2, <1>3, <2>2 DEF InPosition, LiveRows
    <3> QED  BY <1>1, <1>2, <1>3, <3>1
  <2> QED  BY <1>1, <2>1, <2>2 DEF LiveRows
<1>4. Current(p) \notin imported[ws[p]]  BY <1>1, <1>2 DEF InPosition
<1> QED  BY <1>1, <1>2, <1>3, <1>4

\* A handler that succeeds handled the next event, one that fails handled nothing.
LEMMA HandleQuiet ==
    ASSUME BaseInv, QuietInv, NEW p \in Procs, HandleOk(p) \/ HandleFails(p)
    PROVE  QuietInv'
<1> DEFINE w == ws[p]
           n == Current(p)
<1>1. /\ UNCHANGED <<rows, counter, imported, importing, cursor, ws, after, page, alive>>
      /\ pc[p] = "handle"
      /\ \/ UNCHANGED handled
         \/ handled' = [handled EXCEPT ![w] = @ \union {n}]
  BY DEF HandleOk, HandleFails, logVars, ckptVars
<1>2. \A q \in Procs : Active(q)' => Active(q)
  BY DEF HandleOk, HandleFails, BaseInv, TypeOK
<1>3. /\ w \in WS /\ n \in rows[w] /\ n \notin imported[w] /\ n \in Nat
      /\ \A m \in LiveRows(w) : m < n => m \in handled[w]
  BY <1>1, CurrentIsNext
<1>4. /\ \A v \in WS : rows[v] \subseteq Nat
      /\ handled \in [WS -> SUBSET Nat]
      /\ \A q \in Procs : Active(q) => ws[q] \in WS
  BY DEF BaseInv, TypeOK, DrainOK
<1> HIDE DEF n
<1>5. \A v \in WS : handled[v] \subseteq handled'[v]
                    /\ (handled'[v] \ handled[v] # {} => v = w /\ handled'[v] = handled[v] \union {n})
  BY <1>1, <1>3, <1>4
<1>6. PositionOK'
  BY <1>1, <1>2, <1>4, <1>5 DEF QuietInv, PositionOK, InPosition, LiveRows
<1>7. CheckpointCoversHandled'
  BY <1>1, <1>3, <1>4, <1>5 DEF QuietInv, CheckpointCoversHandled, LiveRows
<1>8. ImportedNeverHandled'
  BY <1>1, <1>3, <1>5 DEF QuietInv, ImportedNeverHandled
<1> QED  BY <1>1, <1>6, <1>7, <1>8 DEF QuietInv, BelowCounter, BeforeEvents, BaselineDone

\* Two drains with live sessions are in different workspaces: the advisory lock.
LEMMA LockExcludes ==
    ASSUME BaseInv, NEW p \in Procs, NEW q \in Procs, p # q,
           Active(p), alive[p], Active(q), alive[q]
    PROVE  ws[p] # ws[q]
BY DEF BaseInv, LockHeld

\* A saved checkpoint moves the position and the checkpoint of its workspace past
\* one handled event; sessions that are gone change nothing.
LEMMA CheckpointQuiet ==
    ASSUME BaseInv, QuietInv, NEW p \in Procs, Checkpoint(p)
    PROVE  QuietInv'
<1> DEFINE w == ws[p]
           n == Current(p)
<1>1. /\ UNCHANGED <<rows, counter, imported, importing, handled, ws, alive>>
      /\ pc[p] = "checkpoint"
  BY DEF Checkpoint, logVars
<1>2. \A q \in Procs : Active(q)' => Active(q)
  BY DEF Checkpoint, BaseInv, TypeOK
<1>3. /\ w \in WS /\ n \in rows[w] /\ n \notin imported[w] /\ n \in Nat /\ after[p] < n
      /\ n \in handled[w]
      /\ \A m \in LiveRows(w) : m < n => m \in handled[w]
  BY <1>1, CurrentIsNext DEF BaseInv, DrainOK
<1>4. /\ rows \in [WS -> SUBSET Nat] /\ cursor \in [WS -> Nat] /\ counter \in [WS -> Nat]
      /\ \A q \in Procs : after[q] \in Nat /\ page[q] \subseteq Nat
      /\ \A q \in Procs : Active(q) => ws[q] \in WS
  BY DEF BaseInv, TypeOK, DrainOK
<1>5. CASE SessionWrites(p)
  <2>1. /\ cursor' = [cursor EXCEPT ![w] = n] /\ after' = [after EXCEPT ![p] = n]
        /\ page' = [page EXCEPT ![p] = page[p] \ {n}]
    BY <1>5 DEF Checkpoint
  <2> HIDE DEF n
  <2>2. alive[p] /\ after[p] = cursor[w] /\ InPosition(p)
    BY <1>1, <1>5 DEF SessionWrites, QuietInv, PositionOK, InPosition
  <2>3. /\ after'[p] = n /\ page'[p] = page[p] \ {n} /\ cursor'[w] = n
        /\ \A q \in Procs \ {p} : after'[q] = after[q] /\ page'[q] = page[q]
        /\ \A v \in WS \ {w} : cursor'[v] = cursor[v]
    BY <2>1, <1>3 DEF BaseInv, TypeOK
  <2>4. n <= counter[w]  BY <1>3 DEF QuietInv, BelowCounter
  <2>5. InPosition(p)'
    <3>1. \A m \in LiveRows(w) : m <= n => m \in handled[w]  BY <1>3, <1>4 DEF LiveRows
    <3>2. \A k \in imported[w] : k <= n
      <4>1. \A k \in imported[w] : k \in Nat /\ k <= after[p]
        BY <1>3, <1>4, <2>2 DEF InPosition, BaseInv, TypeOK
      <4> QED  BY <4>1, <1>3, <1>4
    <3>3. \A k \in page[p] \ {n} : \A m \in rows[w] : n < m /\ m < k => m \in page[p] \ {n}
      <4>1. \A k \in page[p] : \A m \in rows[w] : after[p] < m /\ m < k => m \in page[p]
        BY <2>2 DEF InPosition
      <4> QED  BY <4>1, <1>3, <1>4
    <3> QED  BY <1>1, <2>2, <2>3, <2>4, <3>1, <3>2, <3>3 DEF InPosition, LiveRows
  <2>6. ASSUME NEW q \in Procs \ {p}, Active(q)' PROVE InPosition(q)'
    <3>1. Active(q) /\ ws[q] \in WS /\ InPosition(q)
      BY <1>2, <1>4, <2>6 DEF QuietInv, PositionOK
    <3>2. alive[q] => ws[q] # w  BY <1>1, <2>2, <3>1, LockExcludes
    <3> QED  BY <1>1, <2>3, <3>1, <3>2 DEF InPosition, LiveRows
  <2>7. PositionOK'  BY <2>5, <2>6 DEF PositionOK
  <2>8. BelowCounter'  BY <1>1, <2>3, <2>4 DEF QuietInv, BelowCounter
  <2>9. BaselineDone'
    <3>1. ~importing[w] /\ \A k \in imported[w] : k \in Nat /\ k <= after[p]
      BY <1>3, <1>4, <2>2 DEF InPosition, BaseInv, TypeOK
    <3>2. \A k \in imported[w] : k <= n  BY <1>3, <1>4, <3>1
    <3> QED  BY <1>1, <2>3, <3>2 DEF QuietInv, BaselineDone
  <2>10. CheckpointCoversHandled'
    <3>1. \A m \in LiveRows(w) : m <= n => m \in handled[w]  BY <1>3, <1>4 DEF LiveRows
    <3> QED  BY <1>1, <2>3, <3>1 DEF QuietInv, CheckpointCoversHandled, LiveRows
  <2> QED  BY <1>1, <2>7, <2>8, <2>9, <2>10 DEF QuietInv, BeforeEvents, ImportedNeverHandled
<1>6. CASE ~SessionWrites(p)
  <2>1. UNCHANGED <<cursor, after, page>>  BY <1>6 DEF Checkpoint
  <2>2. PositionOK'  BY <1>1, <1>2, <2>1 DEF QuietInv, PositionOK, InPosition, LiveRows
  <2> QED  BY <1>1, <2>1, <2>2 DEF QuietInv, BelowCounter, BeforeEvents, BaselineDone,
           CheckpointCoversHandled, ImportedNeverHandled
<1> QED  BY <1>5, <1>6

\* A drain that ends, a lost session, a crash.
LEMMA EndQuiet ==
    ASSUME BaseInv, QuietInv, NEW p \in Procs, Release(p) \/ SessionLost(p) \/ Crash(p)
    PROVE  QuietInv'
<1>1. /\ UNCHANGED <<rows, counter, imported, importing, cursor, handled>>
      /\ \A q \in Procs \ {p} :
            /\ pc'[q] = pc[q] /\ ws'[q] = ws[q] /\ after'[q] = after[q]
            /\ page'[q] = page[q] /\ alive'[q] = alive[q]
      /\ \/ pc'[p] = "idle"
         \/ ~alive'[p] /\ UNCHANGED <<pc, ws, after, page>>
  BY DEF Release, SessionLost, Crash, Reset, logVars, ckptVars, BaseInv, TypeOK
<1>2. PositionOK'  BY <1>1 DEF QuietInv, PositionOK, InPosition, LiveRows
<1> QED  BY <1>1, <1>2 DEF QuietInv, BelowCounter, BeforeEvents, BaselineDone,
         CheckpointCoversHandled, ImportedNeverHandled

-----------------------------------------------------------------------------
(* Imports *)

\* While an import of w runs, nobody drains w.
LEMMA NobodyDrains ==
    ASSUME BaseInv, QuietInv, NEW w \in WS, importing[w], NEW p \in Procs, Active(p)
    PROVE  ws[p] \in WS \ {w}
BY DEF BaseInv, DrainOK, QuietInv, PositionOK, InPosition

\* An import that is claimed or fails has not written a row.
LEMMA ClaimQuiet ==
    ASSUME BaseInv, QuietInv, QuietImports, NEW w \in WS, ImportClaim(w) \/ ImportFails(w)
    PROVE  QuietInv'
<1> USE DEF ckptVars, drainVars
<1>1. /\ UNCHANGED <<rows, counter, imported, cursor, handled, pc, ws, after, page, alive>>
      /\ \A v \in WS \ {w} : importing'[v] = importing[v]
      /\ imported[w] = {}
      /\ importing'[w] => rows[w] = {} /\ \A p \in Procs : ws[p] # w
      /\ importing[w] \/ rows[w] = {}
  BY DEF ImportClaim, ImportFails, QuietImports, BaseInv, TypeOK
<1>2. BeforeEvents'  BY <1>1 DEF QuietInv, BeforeEvents
<1>3. BaselineDone'  BY <1>1 DEF QuietInv, BaselineDone
<1>4. PositionOK'
  BY <1>1 DEF QuietInv, PositionOK, InPosition, LiveRows, BaseInv, DrainOK
<1> QED  BY <1>1, <1>2, <1>3, <1>4 DEF QuietInv, BelowCounter, CheckpointCoversHandled,
         ImportedNeverHandled

\* The archive's counter is past its rows.
LEMMA CounterQuiet ==
    ASSUME BaseInv, QuietInv, NEW w \in WS, ImportCounter(w)
    PROVE  QuietInv'
<1> USE DEF ckptVars, drainVars
<1> DEFINE last == CHOOSE n \in Archive : \A m \in Archive : m <= n
<1>1. /\ counter' = [counter EXCEPT ![w] = last] /\ counter[w] = 0 /\ importing[w]
      /\ Archive # {}
      /\ UNCHANGED <<rows, imported, importing, cursor, handled, pc, ws, after, page, alive>>
  BY DEF ImportCounter
<1>2. last \in Nat /\ \A m \in Archive : m <= last  BY <1>1, ArchiveHasLast
<1> HIDE DEF last
<1>3. counter'[w] = last /\ \A v \in WS \ {w} : counter'[v] = counter[v]
  BY <1>1 DEF BaseInv, TypeOK
<1>4. BelowCounter'
  <2>1. rows[w] \subseteq Nat /\ cursor[w] \in Nat  BY DEF BaseInv, TypeOK
  <2>2. cursor[w] <= last /\ \A n \in rows[w] : n <= last
    BY <1>1, <1>2, <2>1 DEF QuietInv, BelowCounter
  <2> QED  BY <1>1, <1>3, <2>2 DEF QuietInv, BelowCounter
<1>5. BeforeEvents'  BY <1>1, <1>2, <1>3 DEF QuietInv, BeforeEvents
<1>6. PositionOK'
  BY <1>1, <1>3, NobodyDrains DEF QuietInv, PositionOK, InPosition, LiveRows
<1> QED  BY <1>1, <1>4, <1>5, <1>6 DEF QuietInv, BaselineDone, CheckpointCoversHandled,
         ImportedNeverHandled

\* An imported row is no live row, and nobody has it in a page.
LEMMA RowQuiet ==
    ASSUME BaseInv, QuietInv, NEW w \in WS, NEW n \in Archive, ImportRow(w, n)
    PROVE  QuietInv'
<1> USE DEF ckptVars, drainVars
<1>1. /\ importing[w] /\ counter[w] # 0 /\ n \notin rows[w]
      /\ rows'[w] = rows[w] \union {n} /\ imported'[w] = imported[w] \union {n}
      /\ \A v \in WS \ {w} : rows'[v] = rows[v] /\ imported'[v] = imported[v]
      /\ UNCHANGED <<counter, importing, cursor, handled, pc, ws, after, page, alive>>
  BY DEF ImportRow, BaseInv, TypeOK
<1>2. n \notin handled[w]  BY <1>1 DEF BaseInv, TypeOK
<1>3. n <= counter[w]  BY <1>1 DEF QuietInv, BeforeEvents
<1>4. BelowCounter'  BY <1>1, <1>3 DEF QuietInv, BelowCounter
<1>5. BeforeEvents' /\ BaselineDone'  BY <1>1 DEF QuietInv, BeforeEvents, BaselineDone
<1>6. PositionOK'
  BY <1>1, NobodyDrains DEF QuietInv, PositionOK, InPosition, LiveRows
<1>7. CheckpointCoversHandled' /\ ImportedNeverHandled'
  BY <1>1, <1>2 DEF QuietInv, CheckpointCoversHandled, ImportedNeverHandled
<1> QED  BY <1>4, <1>5, <1>6, <1>7 DEF QuietInv

\* The baseline puts the checkpoint past the archive, and there is nothing live
\* that it could skip.
LEMMA FinishQuiet ==
    ASSUME BaseInv, QuietInv, NEW w \in WS, ImportFinish(w)
    PROVE  QuietInv'
<1> USE DEF drainVars
<1>1. /\ importing[w] /\ ~importing'[w] /\ cursor'[w] = counter[w]
      /\ \A v \in WS \ {w} : cursor'[v] = cursor[v] /\ importing'[v] = importing[v]
      /\ UNCHANGED <<rows, counter, imported, handled, pc, ws, after, page, alive>>
  BY DEF ImportFinish, BaseInv, TypeOK, QuietInv, BelowCounter
<1>2. rows[w] \subseteq imported[w] /\ imported[w] \subseteq rows[w]
  BY <1>1 DEF QuietInv, BeforeEvents, BaseInv, TypeOK
<1>3. BelowCounter'
  <2>1. counter[w] \in Nat  BY DEF BaseInv, TypeOK
  <2> QED  BY <1>1, <2>1 DEF QuietInv, BelowCounter
<1>4. BeforeEvents'  BY <1>1 DEF QuietInv, BeforeEvents
<1>5. BaselineDone'  BY <1>1, <1>2 DEF QuietInv, BaselineDone, BelowCounter
<1>6. PositionOK'
  BY <1>1, NobodyDrains DEF QuietInv, PositionOK, InPosition, LiveRows
<1>7. CheckpointCoversHandled' /\ ImportedNeverHandled'
  BY <1>1, <1>2 DEF QuietInv, CheckpointCoversHandled, ImportedNeverHandled
<1> QED  BY <1>3, <1>4, <1>5, <1>6, <1>7 DEF QuietInv

-----------------------------------------------------------------------------
\* Every step keeps the inductive invariant when imports are quiet.
LEMMA QuietStep == QuietImports /\ BaseInv /\ QuietInv /\ [Next]_vars => QuietInv'
<1> SUFFICES ASSUME QuietImports, BaseInv, QuietInv, [Next]_vars PROVE QuietInv'  OBVIOUS
<1>1. CASE UNCHANGED vars  BY <1>1, QuietUndisturbed DEF vars
<1>2. ASSUME NEW p \in Procs, Reconcile(p) PROVE QuietInv'
  BY <1>2, QuietUndisturbed DEF Reconcile, logVars, ckptVars, drainVars
<1>3. CASE Next
  BY <1>2, <1>3, CommitQuiet, TakeQuiet, FetchQuiet, HandleQuiet, CheckpointQuiet, EndQuiet,
     ClaimQuiet, CounterQuiet, RowQuiet, FinishQuiet DEF Next
<1> QED  BY <1>1, <1>3

\* The inductive invariant holds in every reachable state.
THEOREM ConsumerInvariant == ASSUME QuietImports PROVE Spec => [](BaseInv /\ QuietInv)
<1>1. Init => BaseInv /\ QuietInv  BY BaseInit, QuietInit
<1>2. BaseInv /\ QuietInv /\ [Next]_vars => (BaseInv /\ QuietInv)'
  BY BaseStep, QuietStep
<1> QED  BY <1>1, <1>2, PTL DEF Spec

\* No checkpoint covers an event that was not handled, and events are handled in
\* order: drainConsumer's lock, its page and its checkpoint on the locked session
\* are enough for any number of processes, crashes and lost sessions.
THEOREM CheckpointsAreCovered == ASSUME QuietImports PROVE Spec => []CheckpointCoversHandled
<1>1. QuietInv => CheckpointCoversHandled  BY DEF QuietInv
<1> QED  BY <1>1, ConsumerInvariant, PTL

\* RunImport's baseline keeps imported history away from the consumers.
THEOREM HistoryIsNotReplayed == ASSUME QuietImports PROVE Spec => []ImportedNeverHandled
<1>1. QuietInv => ImportedNeverHandled  BY DEF QuietInv
<1> QED  BY <1>1, ConsumerInvariant, PTL

\* An imported counter row is past every imported event: Append's next sequence is free.
THEOREM AppendsFindRoom == ASSUME QuietImports PROVE Spec => []AppendNeverCollides
<1>1. BaseInv /\ QuietInv => AppendNeverCollides
  <2> SUFFICES ASSUME BaseInv, QuietInv, NEW w \in WS PROVE counter[w] + 1 \notin rows[w]
    BY DEF AppendNeverCollides
  <2> QED  BY DEF QuietInv, BelowCounter, BaseInv, TypeOK
<1> QED  BY <1>1, ConsumerInvariant, PTL

\* A checkpoint never moves back: a process whose session is gone cannot save one,
\* and one that holds the lock saves what comes after the checkpoint it read.
THEOREM CheckpointsMoveOn == ASSUME QuietImports PROVE Spec => CheckpointMonotone
<1> DEFINE Forward == \A w \in WS : cursor'[w] >= cursor[w]
<1>1. BaseInv /\ QuietInv /\ [Next]_vars => [Forward]_vars
  <2> SUFFICES ASSUME BaseInv, QuietInv, Next PROVE Forward  OBVIOUS
  <2>1. cursor \in [WS -> Nat]  BY DEF BaseInv, TypeOK
  <2>2. CASE UNCHANGED cursor  BY <2>1, <2>2
  <2>3. ASSUME NEW p \in Procs, Checkpoint(p), SessionWrites(p) PROVE Forward
    <3>1. /\ Current(p) \in Nat /\ after[p] < Current(p) /\ after[p] = cursor[ws[p]]
          /\ cursor' = [cursor EXCEPT ![ws[p]] = Current(p)]
      BY <2>3, CurrentIsNext DEF Checkpoint, SessionWrites, QuietInv, PositionOK, InPosition
    <3> QED  BY <2>1, <3>1
  <2>4. ASSUME NEW w \in WS, ImportFinish(w) PROVE Forward
    BY <2>1, <2>4 DEF ImportFinish, BaseInv, TypeOK
  <2>5. \/ UNCHANGED cursor
        \/ \E p \in Procs : Checkpoint(p) /\ SessionWrites(p)
        \/ \E w \in WS : ImportFinish(w)
    BY DEF Next, CommitEvent, Reconcile, TakeTodo, TakeSignal, Fetch, HandleOk, HandleFails,
       Checkpoint, Release, SessionLost, Crash, ImportClaim, ImportCounter, ImportRow,
       ImportFails, ckptVars
  <2> QED  BY <2>2, <2>3, <2>4, <2>5
<1> QED  BY <1>1, ConsumerInvariant, PTL DEF Spec, CheckpointMonotone
=============================================================================
