--------------------------- MODULE Idempotency_proofs ---------------------------
(***************************************************************************)
(* Every claim that answers "in flight" has an attempt behind it, for any  *)
(* sessions, requests, keys and bounds, and whatever the conversations do  *)
(* underneath: no step of Conversation is expanded here.                   *)
(***************************************************************************)
EXTENDS Idempotency, TLAPS

LedgerRow == [req : Requests, done : BOOLEAN]

LedgerTypeOK ==
  /\ ledger \in [Keys -> LedgerRow \cup {None}]
  /\ serving \in [Sessions -> Requests \cup {None}]
  /\ phase \in [Sessions -> Phases]
  /\ guarded \in [Sessions -> BOOLEAN]

\* A session that is not idle works on a request, and one that holds a claim has
\* passed the reading of the ledger and has not answered yet.
ClaimsInUse ==
  \A s \in Sessions :
    /\ phase[s] # "idle" => serving[s] \in Requests
    /\ guarded[s] => phase[s] \in {"handling", "completing", "releasing"}

ClaimInv == LedgerTypeOK /\ ClaimsInUse /\ InFlightHasOwner

LEMMA KeyOfRequest == \A r \in Requests : r.key \in Keys
BY DEF Keys

\* Initially there is no claim.
LEMMA ClaimInit == Init => ClaimInv
<1> SUFFICES ASSUME Init PROVE ClaimInv
  OBVIOUS
<1>1. LedgerTypeOK
  BY DEF Init, LedgerTypeOK, Phases
<1>2. ClaimsInUse
  BY DEF Init, ClaimsInUse
<1>3. InFlightHasOwner
  BY DEF Init, InFlightHasOwner
<1> QED BY <1>1, <1>2, <1>3 DEF ClaimInv

-------------------------------------------------------------------------------
(* What steps are made of                                                    *)

\* The variables of the invariant; the transactions are not among them.
claimVars == <<ledger, serving, phase, guarded, orphans>>

LEMMA NothingClaimed == ClaimInv /\ UNCHANGED claimVars => ClaimInv'
BY DEF claimVars, ClaimInv, LedgerTypeOK, ClaimsInUse, InFlightHasOwner

\* A session leaves that has no claim, or whose claim's row is settled or counted
\* among the orphans; every other row keeps what made it right.
LEMMA LeaveInv ==
  ASSUME NEW s \in Sessions, ClaimInv, Leave(s), LedgerTypeOK',
         orphans \subseteq orphans',
         \A k \in Keys : ledger'[k] # None /\ ~ledger'[k].done => ledger'[k] = ledger[k],
         guarded[s] => LET k == serving[s].key IN
           ledger'[k] = None \/ ledger'[k].done \/ k \in orphans'
  PROVE  ClaimInv'
<1> USE DEF ClaimInv, Leave
<1>1. ClaimsInUse'
  BY DEF ClaimsInUse, LedgerTypeOK
<1>2. InFlightHasOwner'
  <2> SUFFICES ASSUME NEW k \in Keys, ledger'[k] # None, ~ledger'[k].done, k \notin orphans'
               PROVE  \E u \in Sessions : guarded'[u] /\ serving'[u].key = k
    BY DEF InFlightHasOwner
  <2>1. PICK u \in Sessions : guarded[u] /\ serving[u].key = k
    BY DEF InFlightHasOwner
  <2>2. u # s
    BY <2>1
  <2> QED BY <2>1, <2>2 DEF LedgerTypeOK
<1> QED BY <1>1, <1>2

\* A session without a claim begins to handle a request, under a claim or not;
\* no row is added but one for this request under this claim.
LEMMA HandleInv ==
  ASSUME NEW s \in Sessions, NEW r \in Requests, NEW underClaim \in BOOLEAN,
         ClaimInv, ~guarded[s], Handle(s, r, underClaim), LedgerTypeOK',
         UNCHANGED orphans,
         \A k \in Keys : ledger'[k] = ledger[k] \/ (underClaim /\ k = r.key)
  PROVE  ClaimInv'
<1> USE DEF ClaimInv, Handle
<1>1. ClaimsInUse'
  BY DEF ClaimsInUse, LedgerTypeOK
<1>2. InFlightHasOwner'
  <2> SUFFICES ASSUME NEW k \in Keys, ledger'[k] # None, ~ledger'[k].done, k \notin orphans'
               PROVE  \E u \in Sessions : guarded'[u] /\ serving'[u].key = k
    BY DEF InFlightHasOwner
  <2>1. CASE underClaim /\ k = r.key
    BY <2>1 DEF LedgerTypeOK
  <2>2. CASE ledger'[k] = ledger[k]
    <3>1. PICK u \in Sessions : guarded[u] /\ serving[u].key = k
      BY <2>2 DEF InFlightHasOwner
    <3> QED BY <3>1 DEF LedgerTypeOK
  <2> QED BY <2>1, <2>2
<1> QED BY <1>1, <1>2

\* A claimed request goes on to its completion or its release.
LEMMA SettlingInv ==
  ASSUME NEW s \in Sessions, NEW p \in {"completing", "releasing"},
         ClaimInv, guarded[s], phase' = [phase EXCEPT ![s] = p],
         UNCHANGED <<ledger, serving, guarded, orphans>>
  PROVE  ClaimInv'
<1> USE DEF ClaimInv
<1>1. LedgerTypeOK'
  BY DEF LedgerTypeOK, Phases
<1>2. ClaimsInUse'
  BY DEF ClaimsInUse, LedgerTypeOK
<1>3. InFlightHasOwner'
  BY DEF InFlightHasOwner
<1> QED BY <1>1, <1>2, <1>3

-------------------------------------------------------------------------------
(* Steps                                                                     *)

\* The client's request claims its key, finds it taken, or fails to claim it.
LEMMA ArrivalInv ==
  ASSUME NEW s \in Sessions, NEW r \in Requests, ClaimInv,
         Claim(s, r) \/ Conflict(s, r) \/ ClaimFails(s, r)
  PROVE  ClaimInv'
<1>0. ~guarded[s] /\ phase[s] = "idle"
  BY DEF Claim, Conflict, ClaimFails, Send, Busy, ClaimInv, ClaimsInUse
<1>1. CASE Claim(s, r)
  <2>1. LedgerTypeOK'
    BY <1>1, KeyOfRequest DEF Claim, Handle, ClaimInv, LedgerTypeOK, LedgerRow, Phases
  <2>2. \A k \in Keys : ledger'[k] = ledger[k] \/ k = r.key
    BY <1>1 DEF Claim, ClaimInv, LedgerTypeOK
  <2> QED BY <1>0, <1>1, <2>1, <2>2, HandleInv DEF Claim
<1>2. CASE Conflict(s, r)
  <2>1. LedgerTypeOK' /\ ClaimsInUse'
    BY <1>0, <1>2 DEF Conflict, ClaimInv, LedgerTypeOK, ClaimsInUse, Phases
  <2>2. InFlightHasOwner'
    BY <1>0, <1>2 DEF Conflict, ClaimInv, LedgerTypeOK, InFlightHasOwner
  <2> QED BY <2>1, <2>2 DEF ClaimInv
<1>3. CASE ClaimFails(s, r)
  <2>1. LedgerTypeOK'
    BY <1>3 DEF ClaimFails, Handle, ClaimInv, LedgerTypeOK, Phases
  <2> QED BY <1>0, <1>3, <2>1, HandleInv DEF ClaimFails
<1> QED BY <1>1, <1>2, <1>3

\* The row that was in the way is read: gone, of another request, in flight, done.
LEMMA ReadInv ==
  ASSUME NEW s \in Sessions, ClaimInv, ReadGone(s) \/ ReadRefused(s) \/ ReadDone(s)
  PROVE  ClaimInv'
<1>0. ~guarded[s] /\ serving[s] \in Requests
  BY DEF ReadGone, ReadRefused, ReadDone, ClaimInv, ClaimsInUse
<1>1. CASE ReadGone(s)
  <2>1. LedgerTypeOK'
    BY <1>0, <1>1 DEF ReadGone, Handle, ClaimInv, LedgerTypeOK, Phases
  <2> QED BY <1>0, <1>1, <2>1, HandleInv DEF ReadGone
<1>2. CASE ReadRefused(s) \/ ReadDone(s)
  <2>1. LedgerTypeOK'
    BY <1>2 DEF ReadRefused, ReadDone, Leave, ClaimInv, LedgerTypeOK, Phases
  <2> QED BY <1>0, <1>2, <2>1, LeaveInv DEF ReadRefused, ReadDone
<1> QED BY <1>1, <1>2

\* The handler's transaction ends, well or not.
LEMMA HandlerInv ==
  ASSUME NEW s \in Sessions, ClaimInv,
         HandlerCommits(s) \/ HandlerCommitsUnheard(s) \/ HandlerFails(s)
  PROVE  ClaimInv'
<1>0. UNCHANGED <<ledger, orphans>>
  BY DEF HandlerCommits, HandlerCommitsUnheard, HandlerFails
<1>1. \/ UNCHANGED <<serving, phase, guarded>>
      \/ ReturnOk(s) \/ ReturnError(s)
  BY DEF HandlerCommits, HandlerCommitsUnheard, HandlerFails
<1>2. CASE UNCHANGED <<serving, phase, guarded>>
  BY <1>0, <1>2, NothingClaimed DEF claimVars
<1>3. CASE (ReturnOk(s) \/ ReturnError(s)) /\ guarded[s]
  BY <1>0, <1>3, SettlingInv DEF ReturnOk, ReturnError
<1>4. CASE (ReturnOk(s) \/ ReturnError(s)) /\ ~guarded[s]
  <2>1. Leave(s)
    BY <1>4 DEF ReturnOk, ReturnError
  <2>2. LedgerTypeOK'
    BY <1>0, <2>1 DEF Leave, ClaimInv, LedgerTypeOK, Phases
  <2> QED BY <1>0, <1>4, <2>1, <2>2, LeaveInv
<1> QED BY <1>1, <1>2, <1>3, <1>4

\* completeIdempotencyKey gives the row its response, releaseIdempotencyKey
\* deletes it, and what goes wrong there or before makes it an orphan.
LEMMA SettleInv ==
  ASSUME NEW s \in Sessions, ClaimInv,
         Complete(s) \/ Release(s) \/ LedgerWriteFails(s) \/ Crash(s)
  PROVE  ClaimInv'
<1> DEFINE k == serving[s].key
<1>0. guarded[s] => k \in Keys
  BY KeyOfRequest DEF ClaimInv, ClaimsInUse
<1>1. CASE Complete(s)
  <2>0. k \in Keys
    BY <1>1, KeyOfRequest DEF Complete, ClaimInv, ClaimsInUse
  <2>1. ledger[k] # None => ledger[k] \in LedgerRow
    BY <2>0 DEF ClaimInv, LedgerTypeOK
  <2>2. LedgerTypeOK'
    BY <1>1, <2>0, <2>1 DEF Complete, Leave, ClaimInv, LedgerTypeOK, LedgerRow, Phases
  <2>3. /\ \A j \in Keys : ledger'[j] # None /\ ~ledger'[j].done => ledger'[j] = ledger[j]
        /\ ledger'[k] = None \/ ledger'[k].done
    BY <1>1, <2>0, <2>1 DEF Complete, ClaimInv, LedgerTypeOK, LedgerRow
  <2> QED BY <1>1, <2>2, <2>3, LeaveInv DEF Complete
<1>2. CASE Release(s)
  <2>0. k \in Keys
    BY <1>2, KeyOfRequest DEF Release, ClaimInv, ClaimsInUse
  <2>1. LedgerTypeOK'
    BY <1>2, <2>0 DEF Release, Leave, ClaimInv, LedgerTypeOK, Phases
  <2>2. /\ \A j \in Keys : ledger'[j] # None /\ ~ledger'[j].done => ledger'[j] = ledger[j]
        /\ ledger'[k] = None \/ ledger'[k].done
    BY <1>2, <2>0 DEF Release, ClaimInv, LedgerTypeOK
  <2> QED BY <1>2, <2>1, <2>2, LeaveInv DEF Release
<1>3. CASE LedgerWriteFails(s) \/ Crash(s)
  <2>1. UNCHANGED ledger /\ Leave(s) /\ orphans \subseteq orphans' /\ (guarded[s] => k \in orphans')
    BY <1>3 DEF LedgerWriteFails, Crash
  <2>2. LedgerTypeOK'
    BY <2>1 DEF Leave, ClaimInv, LedgerTypeOK, Phases
  <2> QED BY <2>1, <2>2, LeaveInv
<1> QED BY <1>1, <1>2, <1>3

\* Every step of the specification preserves the invariant.
LEMMA ClaimStep == ClaimInv /\ [Next]_vars => ClaimInv'
<1> SUFFICES ASSUME ClaimInv, [Next]_vars PROVE ClaimInv'
  OBVIOUS
<1>1. CASE UNCHANGED vars
  BY <1>1, NothingClaimed DEF vars, middleware, claimVars
<1>2. ASSUME NEW s \in Sessions, Background(s) \/ Wakes(s) \/ HandlerLocks(s)
      PROVE  ClaimInv'
  BY <1>2, NothingClaimed DEF Background, Wakes, HandlerLocks, middleware, claimVars
<1>3. CASE Next
  BY <1>2, <1>3, ArrivalInv, ReadInv, HandlerInv, SettleInv DEF Next
<1> QED BY <1>1, <1>3

-------------------------------------------------------------------------------
\* The inductive invariant of the ledger.
THEOREM ClaimInvariant == Spec => []ClaimInv
<1> QED BY ClaimInit, ClaimStep, PTL DEF Spec

\* A row that answers "in flight" (claimIdempotencyKey finds no response_status)
\* belongs to an attempt under way, unless its process died or the completing or
\* releasing write failed.
THEOREM ClaimsHaveOwners == Spec => []InFlightHasOwner
<1>1. ClaimInv => InFlightHasOwner
  BY DEF ClaimInv
<1> QED BY <1>1, ClaimInvariant, PTL
===============================================================================
