-------------------------- MODULE EventLog_proofs --------------------------
(***************************************************************************)
(* Proofs about EventLog, for every set of workspaces, transactions and    *)
(* readers and every bound.  The inductive invariant says why the counter  *)
(* row works: whoever holds its lock continues the numbering exactly where *)
(* the committed log ends, and nobody else can be numbering at that time.  *)
(***************************************************************************)
EXTENDS EventLog, FiniteSetTheorems, WellFoundedInduction, TLAPS

\* The n-th committed event of a workspace has sequence n.
LogNumbered ==
    \A w \in Workspaces : \A i \in 1..Len(log[w]) : log[w][i].seq = i

\* The committed counter row continues the committed log.
CounterContinues ==
    \A w \in Workspaces :
        (IF counter[w] = 0 THEN 1 ELSE counter[w]) = Len(log[w]) + 1

\* At most one transaction has an uncommitted update of a counter row.
RowLockExclusive ==
    \A t, u \in Txs : work[t] \in Workspaces /\ work[t] = work[u] => t = u

\* The lock holder's uncommitted rows continue the committed log.
PendingContinues ==
    \A t \in Txs :
        /\ work[t] = NoWorkspace => pending[t] = <<>>
        /\ work[t] \in Workspaces =>
              /\ txNext[t] = Len(log[work[t]]) + Len(pending[t]) + 1
              /\ \A i \in 1..Len(pending[t]) :
                     pending[t][i].seq = Len(log[work[t]]) + i

\* No cursor is beyond the committed log.
CursorCommitted ==
    \A r \in Readers, w \in Workspaces : cursor[r][w] <= Len(log[w])

\* The inductive invariant.
LogInv ==
    /\ TypeOK
    /\ LogNumbered
    /\ CounterContinues
    /\ RowLockExclusive
    /\ PendingContinues
    /\ CursorCommitted
    /\ NoEventBehindCursor

-----------------------------------------------------------------------------
\* Appending b to a sequence a of records keeps positions of a and shifts b.
LEMMA ConcatFacts ==
    ASSUME NEW S, NEW a \in Seq(S), NEW b \in Seq(S)
    PROVE  /\ a \o b \in Seq(S)
           /\ Len(a \o b) = Len(a) + Len(b)
           /\ \A i \in 1..Len(a) : (a \o b)[i] = a[i]
           /\ \A i \in 1..Len(b) : (a \o b)[Len(a) + i] = b[i]
           /\ \A i \in Len(a) + 1 .. Len(a) + Len(b) : (a \o b)[i] = b[i - Len(a)]
OBVIOUS

\* A non-empty set of naturals below a bound has a greatest element.
LEMMA BoundedSetHasMax ==
    ASSUME NEW N \in Nat, NEW S, S \subseteq 1..N, S # {}
    PROVE  \E n \in S : \A m \in S : m <= n
<1> DEFINE T == {k \in Nat : N - k \in S}
           R == OpToRel(<, Nat)
<1>1. T # {} /\ T \subseteq Nat
  <2>1. PICK n \in S : TRUE
    OBVIOUS
  <2>2. N - n \in Nat /\ N - (N - n) = n
    BY <2>1
  <2> QED BY <2>2
<1>2. IsWellFoundedOn(R, Nat)
  BY NatLessThanWellFounded
<1>3. PICK k \in T : \A y \in T : ~(<<y, k>> \in R)
  BY <1>1, <1>2, WFMin
<1>4. \A y \in T : ~(y < k)
  BY <1>1, <1>3 DEF OpToRel
<1>5. ASSUME NEW m \in S PROVE m <= N - k
  <2>1. N - m \in T
    BY <1>5
  <2> QED BY <1>4, <2>1, <1>1
<1> QED BY <1>5

\* With positions as sequences, the committed sequences are 1..Len(log).
LEMMA SequencesAreInterval ==
    ASSUME NEW w \in Workspaces, TypeOK, LogNumbered
    PROVE  Sequences(w) = 1..Len(log[w])
<1>1. ASSUME NEW n \in Sequences(w) PROVE n \in 1..Len(log[w])
  BY <1>1 DEF Sequences, LogNumbered, TypeOK
<1>2. ASSUME NEW n \in 1..Len(log[w]) PROVE n \in Sequences(w)
  <2>1. log[w][n].seq = n
    BY DEF LogNumbered
  <2> QED BY <2>1 DEF Sequences
<1> QED BY <1>1, <1>2

\* LatestSequence is then the length of the log.
LEMMA LatestIsLength ==
    ASSUME NEW w \in Workspaces, TypeOK, LogNumbered
    PROVE  LatestSequence(w) = Len(log[w])
<1>1. Sequences(w) = 1..Len(log[w])
  BY SequencesAreInterval
<1>2. Len(log[w]) \in Nat
  BY DEF TypeOK
<1> QED BY <1>1, <1>2 DEF LatestSequence

\* Rows of a page, and the last of them, are committed; every committed row
\* after the cursor and up to the last row of the page is in the page.
LEMMA PageIsContiguous ==
    ASSUME NEW w \in Workspaces, NEW after \in Nat, TypeOK, LogNumbered,
           NEW page, page = Since(w, after), page # {},
           NEW l, l = CHOOSE n \in page : \A m \in page : m <= n
    PROVE  /\ l \in 1..Len(log[w])
           /\ page \subseteq 1..Len(log[w])
           /\ \A n \in 1..Len(log[w]) : after < n /\ n <= l => n \in page
<1> DEFINE later == Later(w, after)
<1>1. Sequences(w) = 1..Len(log[w])
  BY SequencesAreInterval
<1>2. Len(log[w]) \in Nat
  BY DEF TypeOK
<1>3. page = {n \in later : Cardinality({m \in later : m <= n}) <= PageLimit}
  BY DEF Since
<1>4. page \subseteq later /\ later \subseteq 1..Len(log[w])
  BY <1>1, <1>3 DEF Later
<1>5. l \in page
  <2>1. \E n \in page : \A m \in page : m <= n
    BY <1>2, <1>4, BoundedSetHasMax
  <2> QED BY <2>1
<1>6. ASSUME NEW n \in 1..Len(log[w]), after < n, n <= l PROVE n \in page
  <2>1. n \in later
    BY <1>1, <1>6 DEF Later
  <2> DEFINE Upto(k) == {m \in later : m <= k}
  <2>2. l \in later /\ Cardinality(Upto(l)) <= PageLimit
    BY <1>3, <1>5
  <2>3. later \subseteq 1..Len(log[w])
    BY <1>4
  <2> HIDE DEF later
  <2>4. Upto(n) \subseteq Upto(l)
    <3> SUFFICES ASSUME NEW m \in later, m <= n PROVE m <= l
      OBVIOUS
    <3>1. \A k \in later : k \in Nat
      BY <1>2, <2>3
    <3>2. l \in later
      BY <2>2
    <3>3. m \in Nat /\ n \in Nat /\ l \in Nat
      BY <2>1, <3>1, <3>2
    <3> QED BY <1>6, <3>3
  <2>5. IsFiniteSet(Upto(l))
    <3>1. IsFiniteSet(1..Len(log[w]))
      BY <1>2, FS_Interval
    <3>2. Upto(l) \subseteq 1..Len(log[w])
      BY <2>3
    <3> QED BY <3>1, <3>2, FS_Subset
  <2>6. /\ IsFiniteSet(Upto(n))
        /\ Cardinality(Upto(n)) <= Cardinality(Upto(l))
    BY <2>4, <2>5, FS_Subset
  <2>7. Cardinality(Upto(n)) \in Nat /\ Cardinality(Upto(l)) \in Nat
    BY <2>5, <2>6, FS_CardinalityType
  <2>8. Cardinality(Upto(n)) <= PageLimit
    <3> HIDE DEF Upto
    <3> QED BY <2>2, <2>6, <2>7, LogAssumption
  <2> QED BY <1>3, <2>1, <2>8
<1> QED BY <1>4, <1>5, <1>6

-----------------------------------------------------------------------------
\* The initial states satisfy the inductive invariant.
LEMMA LogInit == Init => LogInv
  BY LogAssumption DEF Init, LogInv, TypeOK, LogNumbered, CounterContinues,
     RowLockExclusive, PendingContinues, CursorCommitted, NoEventBehindCursor,
     Sequences

\* Appending an event to an open transaction preserves the invariant: the row
\* lock makes the transaction the only one that continues the counter.
LEMMA AppendInv ==
    ASSUME LogInv, NEW t \in Txs, NEW w \in Workspaces, NEW type \in Types,
           AppendEvent(t, w, type)
    PROVE  LogInv'
<1> DEFINE sequence == NextSequence(t, w)
           row == [seq |-> sequence, type |-> type]
<1> USE LogAssumption
<1>0. /\ pending[t] \in Seq(Record) /\ log[w] \in Seq(Record)
      /\ counter[w] \in Nat /\ txNext[t] \in Nat
  BY DEF LogInv, TypeOK
<1>1. PICK L \in Nat, P \in Nat : Len(log[w]) = L /\ Len(pending[t]) = P
  BY <1>0
<1>2. sequence = Len(log[w]) + Len(pending[t]) + 1
  <2>1. CASE work[t] = w
    <3>1. txNext[t] = Len(log[w]) + Len(pending[t]) + 1
      BY <2>1 DEF LogInv, PendingContinues
    <3>2. sequence = IF txNext[t] = 0 THEN 1 ELSE txNext[t]
      BY <2>1 DEF NextSequence
    <3> QED BY <1>1, <3>1, <3>2
  <2>2. CASE work[t] = NoWorkspace
    <3>1. (IF counter[w] = 0 THEN 1 ELSE counter[w]) = Len(log[w]) + 1
      BY DEF LogInv, CounterContinues
    <3>2. sequence = IF counter[w] = 0 THEN 1 ELSE counter[w]
      BY <2>2 DEF NextSequence
    <3>3. pending[t] = <<>>
      BY <2>2 DEF LogInv, PendingContinues
    <3> QED BY <1>1, <3>1, <3>2, <3>3
  <2> QED BY <2>1, <2>2 DEF AppendEvent
<1>3. row \in Record /\ sequence \in Nat
  BY <1>1, <1>2 DEF Record
<1> HIDE DEF sequence
<1>4. /\ work' = [work EXCEPT ![t] = w]
      /\ txNext' = [txNext EXCEPT ![t] = sequence + 1]
      /\ pending' = [pending EXCEPT ![t] = Append(@, row)]
      /\ UNCHANGED <<counter, log, notified, cursor, seen>>
      /\ \A u \in Txs \ {t} : work[u] # w
      /\ work[t] \in {NoWorkspace, w}
  BY DEF AppendEvent, readerVars, Lockable, sequence
<1>5. TypeOK'
  <2>1. Append(pending[t], row) \in Seq(Record)
    BY <1>0, <1>3
  <2> QED BY <1>3, <1>4, <2>1 DEF LogInv, TypeOK
<1>6. LogNumbered' /\ CounterContinues' /\ CursorCommitted' /\ NoEventBehindCursor'
  BY <1>4 DEF LogInv, LogNumbered, CounterContinues, CursorCommitted,
     NoEventBehindCursor, Sequences
<1>7. RowLockExclusive'
  BY <1>4 DEF LogInv, TypeOK, RowLockExclusive
<1>8. PendingContinues'
  <2> SUFFICES ASSUME NEW u \in Txs
               PROVE  /\ work'[u] = NoWorkspace => pending'[u] = <<>>
                      /\ work'[u] \in Workspaces =>
                           /\ txNext'[u] = Len(log[work'[u]]) + Len(pending'[u]) + 1
                           /\ \A i \in 1..Len(pending'[u]) :
                                pending'[u][i].seq = Len(log[work'[u]]) + i
    <3>1. log' = log
      BY <1>4
    <3> QED BY <3>1 DEF PendingContinues
  <2>1. CASE u # t
    BY <1>4, <2>1 DEF LogInv, TypeOK, PendingContinues
  <2>2. CASE u = t
    <3>1. /\ work'[t] = w /\ txNext'[t] = sequence + 1
          /\ pending'[t] = Append(pending[t], row)
      BY <1>4 DEF LogInv, TypeOK
    <3>2. Len(pending'[t]) = Len(pending[t]) + 1
      BY <1>0, <1>3, <3>1
    <3>3. ASSUME NEW i \in 1..Len(pending'[t])
          PROVE  pending'[t][i].seq = Len(log[w]) + i
      <4>1. CASE i = Len(pending[t]) + 1
        <5>1. pending'[t][i] = row
          BY <1>0, <1>3, <3>1, <4>1
        <5>2. i = sequence - Len(log[w])
          BY <1>1, <1>2, <4>1
        <5> QED BY <1>1, <1>3, <5>1, <5>2
      <4>2. CASE i \in 1..Len(pending[t])
        <5>1. pending'[t][i] = pending[t][i]
          BY <1>0, <1>3, <3>1, <4>2
        <5>2. work[t] = w
          <6>1. pending[t] # <<>>
            BY <4>2
          <6> QED BY <1>4, <6>1 DEF LogInv, PendingContinues
        <5> QED BY <5>1, <5>2, <4>2 DEF LogInv, PendingContinues
      <4> QED BY <1>1, <3>2, <4>1, <4>2
    <3>4. txNext'[t] = Len(log[w]) + Len(pending'[t]) + 1
      <4>1. Len(pending'[t]) = P + 1
        BY <1>1, <3>2
      <4>2. txNext'[t] = sequence + 1
        BY <3>1
      <4> QED BY <1>1, <1>2, <4>1, <4>2
    <3>5. work'[t] # NoWorkspace
      <4>1. w # NoWorkspace
        BY LogAssumption
      <4> QED BY <3>1, <4>1
    <3> QED BY <2>2, <3>1, <3>3, <3>4, <3>5
  <2> QED BY <2>1, <2>2
<1> QED BY <1>5, <1>6, <1>7, <1>8 DEF LogInv

\* A commit preserves the invariant: what it publishes continues the log, so it
\* lands after every cursor.
LEMMA CommitInv ==
    ASSUME LogInv, NEW t \in Txs, NEW w \in Workspaces, Commit(t, w)
    PROVE  LogInv'
<1> USE LogAssumption
<1>0. /\ pending[t] \in Seq(Record) /\ log[w] \in Seq(Record)
      /\ txNext[t] \in Nat
  BY DEF LogInv, TypeOK
<1>1. PICK L \in Nat, P \in Nat : Len(log[w]) = L /\ Len(pending[t]) = P
  BY <1>0
<1>2. /\ work[t] = w
      /\ counter' = [counter EXCEPT ![w] = txNext[t]]
      /\ log' = [log EXCEPT ![w] = @ \o pending[t]]
      /\ notified' = [notified EXCEPT ![w] = txNext[t] - 1]
      /\ work' = [work EXCEPT ![t] = NoWorkspace]
      /\ txNext' = [txNext EXCEPT ![t] = 0]
      /\ pending' = [pending EXCEPT ![t] = <<>>]
      /\ UNCHANGED <<cursor, seen>>
  BY DEF Commit, EndTx, readerVars
<1>2a. txNext[t] = Len(log[w]) + Len(pending[t]) + 1
  BY <1>2 DEF LogInv, PendingContinues
<1>3. \A i \in 1..Len(pending[t]) : pending[t][i].seq = Len(log[w]) + i
  BY <1>2 DEF LogInv, PendingContinues
<1>4. /\ log'[w] \in Seq(Record)
      /\ Len(log'[w]) = Len(log[w]) + Len(pending[t])
      /\ \A i \in 1..Len(log[w]) : log'[w][i] = log[w][i]
      /\ \A i \in 1..Len(pending[t]) : log'[w][Len(log[w]) + i] = pending[t][i]
      /\ \A v \in Workspaces \ {w} : log'[v] = log[v]
  BY <1>0, <1>2, ConcatFacts DEF LogInv, TypeOK
<1>4a. Len(log'[w]) = Len(log[w]) + Len(pending[t])
  BY <1>4
<1>5. TypeOK'
  <2>1. log' \in [Workspaces -> Seq(Record)]
    BY <1>2, <1>4 DEF LogInv, TypeOK
  <2>2. txNext[t] - 1 \in Nat
    BY <1>1, <1>2a
  <2>3. /\ counter' \in [Workspaces -> Nat]
        /\ notified' \in [Workspaces -> Nat]
        /\ txNext' \in [Txs -> Nat]
    BY <1>0, <1>2, <2>2 DEF LogInv, TypeOK
  <2>4. /\ pending' \in [Txs -> Seq(Record)]
        /\ work' \in [Txs -> Workspaces \union {NoWorkspace}]
    BY <1>2 DEF LogInv, TypeOK
  <2> QED BY <1>2, <2>1, <2>3, <2>4 DEF LogInv, TypeOK
<1>6. LogNumbered'
  <2> SUFFICES ASSUME NEW v \in Workspaces, NEW i \in 1..Len(log'[v])
               PROVE  log'[v][i].seq = i
    BY DEF LogNumbered
  <2>1. CASE v # w
    BY <1>4, <2>1 DEF LogInv, LogNumbered
  <2>2. CASE v = w /\ i <= Len(log[w])
    BY <1>1, <1>4, <2>2 DEF LogInv, LogNumbered
  <2>3. CASE v = w /\ i > Len(log[w])
    <3>1. i - Len(log[w]) \in 1..Len(pending[t])
      BY <1>1, <1>4a, <2>3
    <3>2. log'[w][Len(log[w]) + (i - Len(log[w]))] = pending[t][i - Len(log[w])]
      BY <1>4, <3>1
    <3>3. Len(log[w]) + (i - Len(log[w])) = i
      BY <1>1, <1>4a, <2>3
    <3> QED BY <1>3, <2>3, <3>1, <3>2, <3>3
  <2> QED BY <1>1, <1>4, <2>1, <2>2, <2>3
<1>7. CounterContinues'
  <2> SUFFICES ASSUME NEW v \in Workspaces
               PROVE  (IF counter'[v] = 0 THEN 1 ELSE counter'[v]) = Len(log'[v]) + 1
    BY DEF CounterContinues
  <2>1. CASE v = w
    <3>1. counter'[w] = txNext[t]
      BY <1>2 DEF LogInv, TypeOK
    <3> QED BY <1>1, <1>2a, <1>4a, <2>1, <3>1
  <2>2. CASE v # w
    <3>1. counter'[v] = counter[v] /\ log'[v] = log[v]
      BY <1>2, <2>2 DEF LogInv, TypeOK
    <3> QED BY <3>1 DEF LogInv, CounterContinues
  <2> QED BY <2>1, <2>2
<1>8. RowLockExclusive'
  BY <1>2 DEF LogInv, TypeOK, RowLockExclusive
<1>9. PendingContinues'
  <2> SUFFICES ASSUME NEW u \in Txs
               PROVE  /\ work'[u] = NoWorkspace => pending'[u] = <<>>
                      /\ work'[u] \in Workspaces =>
                           /\ txNext'[u] = Len(log'[work'[u]]) + Len(pending'[u]) + 1
                           /\ \A i \in 1..Len(pending'[u]) :
                                pending'[u][i].seq = Len(log'[work'[u]]) + i
    BY DEF PendingContinues
  <2>1. CASE u = t
    BY <1>2, <2>1 DEF LogInv, TypeOK
  <2>2. CASE u # t
    <3>1. /\ work'[u] = work[u] /\ txNext'[u] = txNext[u] /\ pending'[u] = pending[u]
      BY <1>2, <2>2 DEF LogInv, TypeOK
    <3>2. work[u] # w
      BY <1>2, <2>2 DEF LogInv, RowLockExclusive
    <3>3. work[u] \in Workspaces => log'[work[u]] = log[work[u]]
      BY <1>4, <3>2
    <3>4. CASE work[u] \in Workspaces
      <4>1. /\ txNext[u] = Len(log[work[u]]) + Len(pending[u]) + 1
            /\ \A i \in 1..Len(pending[u]) : pending[u][i].seq = Len(log[work[u]]) + i
        BY <3>4 DEF LogInv, PendingContinues
      <4> QED BY <3>1, <3>3, <3>4, <4>1
    <3>5. CASE work[u] = NoWorkspace
      BY <3>1, <3>5 DEF LogInv, PendingContinues
    <3> QED BY <3>4, <3>5 DEF LogInv, TypeOK
  <2> QED BY <2>1, <2>2
<1>10. CursorCommitted'
  <2> SUFFICES ASSUME NEW r \in Readers, NEW v \in Workspaces
               PROVE  cursor[r][v] <= Len(log'[v])
    BY <1>2 DEF CursorCommitted
  <2>1. cursor[r][v] \in Nat /\ cursor[r][v] <= Len(log[v])
    BY DEF LogInv, TypeOK, CursorCommitted
  <2>2. CASE v = w
    BY <1>1, <1>4a, <2>1, <2>2
  <2>3. CASE v # w
    BY <1>4, <2>1, <2>3
  <2> QED BY <2>2, <2>3
<1>11. NoEventBehindCursor'
  <2> SUFFICES ASSUME NEW r \in Readers, NEW v \in Workspaces,
                      NEW n \in Sequences(v)', n <= cursor[r][v]
               PROVE  n \in seen[r][v]
    BY <1>2 DEF NoEventBehindCursor
  <2>1. Sequences(v) = 1..Len(log[v])
    BY SequencesAreInterval DEF LogInv
  <2>2. Sequences(v)' = 1..Len(log'[v])
    <3>1. ASSUME NEW m \in Sequences(v)' PROVE m \in 1..Len(log'[v])
      BY <1>6, <3>1 DEF Sequences, LogNumbered
    <3>2. ASSUME NEW m \in 1..Len(log'[v]) PROVE m \in Sequences(v)'
      BY <1>6, <3>2 DEF Sequences, LogNumbered
    <3> QED BY <3>1, <3>2
  <2>3. cursor[r][v] \in Nat /\ cursor[r][v] <= Len(log[v]) /\ Len(log[v]) \in Nat
    BY DEF LogInv, TypeOK, CursorCommitted
  <2>4. n \in Sequences(v)
    BY <2>1, <2>2, <2>3
  <2> QED BY <2>4 DEF LogInv, NoEventBehindCursor
<1> QED BY <1>5, <1>6, <1>7, <1>8, <1>9, <1>10, <1>11 DEF LogInv

\* A rollback preserves the invariant: the counter goes back with the rows.
LEMMA RollbackInv ==
    ASSUME LogInv, NEW t \in Txs, Rollback(t)
    PROVE  LogInv'
<1>1. /\ work' = [work EXCEPT ![t] = NoWorkspace]
      /\ txNext' = [txNext EXCEPT ![t] = 0]
      /\ pending' = [pending EXCEPT ![t] = <<>>]
      /\ UNCHANGED <<counter, log, notified, cursor, seen>>
  BY DEF Rollback, EndTx, readerVars
<1>2. TypeOK'
  BY <1>1 DEF LogInv, TypeOK
<1>3. LogNumbered' /\ CounterContinues' /\ CursorCommitted' /\ NoEventBehindCursor'
  BY <1>1 DEF LogInv, LogNumbered, CounterContinues, CursorCommitted,
     NoEventBehindCursor, Sequences
<1>4. RowLockExclusive'
  BY <1>1, LogAssumption DEF LogInv, TypeOK, RowLockExclusive
<1>5. PendingContinues'
  <2>1. log' = log
    BY <1>1
  <2> SUFFICES ASSUME NEW u \in Txs
               PROVE  /\ work'[u] = NoWorkspace => pending'[u] = <<>>
                      /\ work'[u] \in Workspaces =>
                           /\ txNext'[u] = Len(log[work'[u]]) + Len(pending'[u]) + 1
                           /\ \A i \in 1..Len(pending'[u]) :
                                pending'[u][i].seq = Len(log[work'[u]]) + i
    BY <2>1 DEF PendingContinues
  <2>2. CASE u = t
    BY <1>1, <2>2, LogAssumption DEF LogInv, TypeOK
  <2>3. CASE u # t
    <3>1. work'[u] = work[u] /\ txNext'[u] = txNext[u] /\ pending'[u] = pending[u]
      BY <1>1, <2>3 DEF LogInv, TypeOK
    <3> QED BY <3>1 DEF LogInv, PendingContinues
  <2> QED BY <2>2, <2>3
<1> QED BY <1>2, <1>3, <1>4, <1>5 DEF LogInv

\* Facts shared by the two reader actions: only the cursors and seen change.
LEMMA ReaderInv ==
    ASSUME LogInv, NEW r \in Readers, NEW w \in Workspaces,
           NEW l \in Nat, NEW S \in SUBSET Nat,
           l <= Len(log[w]),
           \A n \in 1..Len(log[w]) : n <= l => n \in S,
           cursor' = [cursor EXCEPT ![r][w] = l],
           seen' = [seen EXCEPT ![r][w] = S],
           UNCHANGED <<counter, work, txNext, pending, log, notified>>
    PROVE  LogInv'
<1>1. TypeOK'
  BY DEF LogInv, TypeOK
<1>2. LogNumbered' /\ CounterContinues' /\ RowLockExclusive' /\ PendingContinues'
  BY DEF LogInv, LogNumbered, CounterContinues, RowLockExclusive, PendingContinues
<1>3. \A q \in Readers, v \in Workspaces :
          /\ cursor'[q][v] = IF q = r /\ v = w THEN l ELSE cursor[q][v]
          /\ seen'[q][v] = IF q = r /\ v = w THEN S ELSE seen[q][v]
  BY DEF LogInv, TypeOK
<1>4. CursorCommitted'
  BY <1>3 DEF LogInv, CursorCommitted
<1>5. NoEventBehindCursor'
  <2> SUFFICES ASSUME NEW q \in Readers, NEW v \in Workspaces,
                      NEW n \in Sequences(v), n <= cursor'[q][v]
               PROVE  n \in seen'[q][v]
    BY DEF NoEventBehindCursor, Sequences
  <2>1. CASE q = r /\ v = w
    <3>1. n \in 1..Len(log[w])
      BY <2>1, SequencesAreInterval DEF LogInv
    <3> QED BY <1>3, <2>1, <3>1
  <2>2. CASE ~(q = r /\ v = w)
    BY <1>3, <2>2 DEF LogInv, NoEventBehindCursor
  <2> QED BY <2>1, <2>2
<1> QED BY <1>1, <1>2, <1>4, <1>5 DEF LogInv

\* Reading a page preserves the invariant: the page is contiguous from the
\* cursor, so nothing is passed over.
LEMMA ReadPageInv ==
    ASSUME LogInv, NEW r \in Readers, NEW w \in Workspaces, ReadPage(r, w)
    PROVE  LogInv'
<1> DEFINE page == Since(w, cursor[r][w])
           l == CHOOSE n \in page : \A m \in page : m <= n
           S == seen[r][w] \union page
<1>1. /\ page # {}
      /\ cursor' = [cursor EXCEPT ![r][w] = l]
      /\ seen' = [seen EXCEPT ![r][w] = S]
      /\ UNCHANGED <<counter, work, txNext, pending, log, notified>>
  BY DEF ReadPage
<1>2. cursor[r][w] \in Nat /\ seen[r][w] \in SUBSET Nat /\ Len(log[w]) \in Nat
  BY DEF LogInv, TypeOK
<1>3. /\ l \in 1..Len(log[w])
      /\ page \subseteq 1..Len(log[w])
      /\ \A n \in 1..Len(log[w]) : cursor[r][w] < n /\ n <= l => n \in page
  <2>1. TypeOK /\ LogNumbered
    BY DEF LogInv
  <2> HIDE DEF page
  <2>2. page = Since(w, cursor[r][w])
    BY DEF page
  <2> QED BY <1>1, <1>2, <2>1, <2>2, PageIsContiguous
<1>4. ASSUME NEW n \in 1..Len(log[w]), n <= l PROVE n \in S
  <2>1. CASE n <= cursor[r][w]
    <3>1. n \in Sequences(w)
      BY SequencesAreInterval DEF LogInv
    <3> QED BY <2>1, <3>1 DEF LogInv, NoEventBehindCursor
  <2>2. CASE ~(n <= cursor[r][w])
    <3> HIDE DEF page, l
    <3> QED BY <1>2, <1>3, <1>4, <2>2
  <2> QED BY <2>1, <2>2
<1>5. l \in Nat /\ S \in SUBSET Nat /\ l <= Len(log[w])
  <2> HIDE DEF page, l
  <2>1. l \in Nat /\ l <= Len(log[w])
    BY <1>2, <1>3
  <2>2. page \subseteq Nat
    BY <1>2, <1>3
  <2> QED BY <1>2, <2>1, <2>2
<1> HIDE DEF page, l, S
<1> QED BY <1>1, <1>4, <1>5, ReaderInv

\* Attaching at the newest row preserves the invariant.
LEMMA AttachInv ==
    ASSUME LogInv, NEW r \in Readers, NEW w \in Workspaces, Attach(r, w)
    PROVE  LogInv'
<1>1. TypeOK /\ LogNumbered
  BY DEF LogInv
<1>2. LatestSequence(w) = Len(log[w]) /\ Sequences(w) = 1..Len(log[w])
  BY <1>1, LatestIsLength, SequencesAreInterval
<1>3. Len(log[w]) \in Nat
  BY <1>1 DEF TypeOK
<1>4. /\ cursor' = [cursor EXCEPT ![r][w] = Len(log[w])]
      /\ seen' = [seen EXCEPT ![r][w] = 1..Len(log[w])]
      /\ UNCHANGED <<counter, work, txNext, pending, log, notified>>
  BY <1>2 DEF Attach
<1>5. /\ 1..Len(log[w]) \in SUBSET Nat
      /\ Len(log[w]) <= Len(log[w])
      /\ \A n \in 1..Len(log[w]) : n <= Len(log[w]) => n \in 1..Len(log[w])
  BY <1>3
<1> QED BY <1>3, <1>4, <1>5, ReaderInv

\* Every step of EventLog preserves the inductive invariant.
LEMMA LogStep == LogInv /\ [Next]_vars => LogInv'
<1> SUFFICES ASSUME LogInv, [Next]_vars PROVE LogInv'
  OBVIOUS
<1>1. CASE UNCHANGED vars
  BY <1>1 DEF vars, LogInv, TypeOK, LogNumbered, CounterContinues, RowLockExclusive,
     PendingContinues, CursorCommitted, NoEventBehindCursor, Sequences
<1>2. CASE Next
  BY <1>2, AppendInv, CommitInv, RollbackInv, ReadPageInv, AttachInv DEF Next
<1> QED BY <1>1, <1>2

\* The inductive invariant holds in every behaviour.
THEOREM LogInvariant == Spec => []LogInv
  BY LogInit, LogStep, PTL DEF Spec

\* Type correctness of the event log, whatever the bounds.
THEOREM LogTypeOK == Spec => []TypeOK
<1>1. LogInv => TypeOK
  BY DEF LogInv
<1> QED BY <1>1, LogInvariant, PTL

\* No event ever commits behind the cursor of a reader that moved past it: what
\* holding the counter row's lock until commit is for (events.go:255-262).
THEOREM ReadersMissNothing == Spec => []NoEventBehindCursor
<1>1. LogInv => NoEventBehindCursor
  BY DEF LogInv
<1> QED BY <1>1, LogInvariant, PTL

-----------------------------------------------------------------------------
\* What a commit does to the committed log: it keeps what was there and
\* continues the numbering.
LEMMA CommitPublishes ==
    ASSUME LogInv, LogInv', NEW t \in Txs, NEW w \in Workspaces, Commit(t, w)
    PROVE  CL!Publish(w) /\ notified'[w] = Len(log'[w])
<1>1. /\ log' = [log EXCEPT ![w] = @ \o pending[t]]
      /\ notified' = [notified EXCEPT ![w] = txNext[t] - 1]
      /\ work[t] = w
  BY DEF Commit
<1>2. /\ log[w] \in Seq(Record) /\ pending[t] \in Seq(Record)
      /\ log'[w] = log[w] \o pending[t]
      /\ notified'[w] = txNext[t] - 1
  BY <1>1 DEF LogInv, TypeOK
<1>3. /\ log'[w] \in Seq(Record)
      /\ Len(log'[w]) = Len(log[w]) + Len(pending[t])
      /\ \A i \in 1..Len(log[w]) : log'[w][i] = log[w][i]
  <2>1. log[w] \in Seq(Record) /\ pending[t] \in Seq(Record)
    BY <1>2
  <2> QED BY <1>1, <2>1, ConcatFacts DEF LogInv, TypeOK
<1>4. PICK L \in Nat, P \in Nat : Len(log[w]) = L /\ Len(pending[t]) = P
  BY <1>2
<1>5. Len(log[w]) <= Len(log'[w]) /\ Len(log[w]) \in Nat /\ Len(log'[w]) \in Nat
  <2>1. Len(log'[w]) = L + P
    BY <1>3, <1>4
  <2> QED BY <1>4, <2>1
<1>6. \A n \in 1..Len(log'[w]) : log'[w][n].seq = n
  BY DEF LogInv, LogNumbered
<1>7. \A n \in 1..Len(log'[w]) :
         IF n <= Len(log[w]) THEN log'[w][n] = log[w][n] ELSE log'[w][n].seq = n
  <2> SUFFICES ASSUME NEW n \in 1..Len(log'[w])
               PROVE IF n <= Len(log[w]) THEN log'[w][n] = log[w][n] ELSE log'[w][n].seq = n
    OBVIOUS
  <2>1. CASE n <= Len(log[w])
    <3>1. n \in 1..Len(log[w])
      BY <1>5, <2>1
    <3> QED BY <1>3, <2>1, <3>1
  <2>2. CASE ~(n <= Len(log[w]))
    BY <1>6, <2>2
  <2> QED BY <2>1, <2>2
<1>8. log' = [log EXCEPT ![w] = log'[w]]
  <2>1. log' = [log EXCEPT ![w] = log[w] \o pending[t]]
    BY <1>1
  <2> QED BY <1>2, <2>1, Zenon
<1>9. notified'[w] = Len(log'[w])
  <2>1. txNext[t] = Len(log[w]) + Len(pending[t]) + 1
    BY <1>1 DEF LogInv, PendingContinues
  <2>2. txNext[t] - 1 = L + P
    BY <1>4, <2>1
  <2>3. Len(log'[w]) = L + P
    BY <1>3, <1>4
  <2> QED BY <1>2, <2>2, <2>3
<1>10. log'[w] \in Seq(CL!Record)
  <2>1. Record = CL!Record
    BY DEF Record, CL!Record
  <2> QED BY <1>3, <2>1
<1> QED BY <1>5, <1>7, <1>8, <1>9, <1>10 DEF CL!Publish

\* The event log implements CommittedLog: however transactions interleave, roll
\* back or crash, readers see one sequence per workspace that grows only at its
\* end, without gaps, in commit order.
THEOREM LogImplementsCommittedLog == Spec => ImplementsCommittedLog
<1>1. Init => CL!Init
  BY DEF Init, CL!Init
<1>2. LogInv /\ LogInv' /\ [Next]_vars => [CL!Next]_log
  <2> SUFFICES ASSUME LogInv, LogInv', [Next]_vars, log' # log PROVE CL!Next
    OBVIOUS
  <2>1. \E t \in Txs, w \in Workspaces : Commit(t, w)
    BY DEF Next, vars, AppendEvent, Rollback, ReadPage, Attach
  <2> QED BY <2>1, CommitPublishes DEF CL!Next
<1> QED BY <1>1, <1>2, LogInvariant, PTL DEF Spec, ImplementsCommittedLog, CL!Spec

\* The strengthening of SignalsMatchLog.
SignalsContinue == \A w \in Workspaces : notified[w] = Len(log[w])

\* Signals follow commits: the last signal delivered for a workspace carries the
\* newest readable sequence; an append that rolls back wakes nobody.
THEOREM SignalsFollowCommits == Spec => []SignalsMatchLog
<1>1. Init => SignalsContinue
  BY DEF Init, SignalsContinue
<1>2. LogInv /\ LogInv' /\ SignalsContinue /\ [Next]_vars => SignalsContinue'
  <2> SUFFICES ASSUME LogInv, LogInv', SignalsContinue, [Next]_vars
               PROVE  SignalsContinue'
    OBVIOUS
  <2>1. ASSUME NEW t \in Txs, NEW w \in Workspaces, Commit(t, w)
        PROVE  SignalsContinue'
    <3>1. notified'[w] = Len(log'[w])
      BY <2>1, CommitPublishes
    <3>2. \A v \in Workspaces \ {w} : notified'[v] = notified[v] /\ log'[v] = log[v]
      BY <2>1 DEF Commit, LogInv, TypeOK
    <3> QED BY <3>1, <3>2 DEF SignalsContinue
  <2>2. CASE UNCHANGED <<notified, log>>
    BY <2>2 DEF SignalsContinue
  <2> QED BY <2>1, <2>2 DEF Next, vars, AppendEvent, Rollback, ReadPage, Attach
<1>3. LogInv /\ SignalsContinue => SignalsMatchLog
  BY LatestIsLength DEF LogInv, SignalsContinue, SignalsMatchLog
<1> QED BY <1>1, <1>2, <1>3, LogInvariant, PTL DEF Spec
=============================================================================
