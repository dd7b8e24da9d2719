------------------------- MODULE RotationLeaseProofs -------------------------
(***************************************************************************)
(* Proofs about the fenced lease, for any number of secrets, executors and *)
(* clock values. Everything follows from LeaseInv: the fence of the row,   *)
(* or the sequence when there is no row, bounds every fence handed out, so *)
(* a newly minted one is new for its secret.                               *)
(***************************************************************************)
EXTENDS RotationLease, TLAPS

(* Without rows and handles every bound on fences holds.                   *)
LEMMA InitLeaseInv == Init => LeaseInv
BY LeaseAssumption
   DEF Init, LeaseInv, TypeOK, FencesBounded, MatchingHandleOwns, Top, HasRow,
       NoLease, NoWrite, Time

(* What the three ways of acquiring have in common: the row and the handle *)
(* get one and the same fence, above every other fence of that secret.     *)
LEMMA TakePreserves ==
  ASSUME LeaseInv, NEW e \in Executor, NEW s \in Secret, NEW t \in 0 .. clock,
         NEW f \in Nat \ {0}, f <= seq + 1, f >= lease[s].fence,
         \/ lease[s].owner = e /\ f = lease[s].fence
         \/ f > Top(s),
         NextFence, Take(e, s, f, t), UNCHANGED <<clock, written>>
  PROVE  LeaseInv'
<1>1. TypeOK'
  BY LeaseAssumption DEF LeaseInv, TypeOK, NextFence, Take, Time
<1>2. FencesBounded'
  <2> SUFFICES ASSUME NEW r \in Secret, NEW d \in Executor
               PROVE  /\ lease'[r].fence <= seq'
                      /\ written'[r].fence <= Top(r)'
                      /\ held'[d][r] <= Top(r)'
    BY DEF FencesBounded
  <2>1. CASE r = s
    BY <2>1, LeaseAssumption
       DEF LeaseInv, TypeOK, FencesBounded, Top, HasRow, NextFence, Take
  <2>2. CASE r # s
    BY <2>2 DEF LeaseInv, TypeOK, FencesBounded, Top, HasRow, NextFence, Take
  <2>3. QED BY <2>1, <2>2
<1>3. MatchingHandleOwns'
  <2> SUFFICES ASSUME NEW d \in Executor, NEW r \in Secret,
                      HasRow(r)', lease'[r].fence = held'[d][r]
               PROVE  lease'[r].owner = d
    BY DEF MatchingHandleOwns
  <2>1. CASE r # s \/ d = e
    BY <2>1 DEF LeaseInv, TypeOK, MatchingHandleOwns, HasRow, Take
  <2>2. CASE r = s /\ d # e
    <3>1. held'[d][s] = held[d][s] /\ lease'[s].fence = f
      BY <2>2 DEF LeaseInv, TypeOK, Take
    <3>2. held[d][s] <= Top(s) /\ held[d][s] \in Nat /\ Top(s) \in Nat
      BY DEF LeaseInv, TypeOK, FencesBounded, Top
    <3>3. f = lease[s].fence /\ lease[s].owner = e
      BY <2>2, <3>1, <3>2
    <3>4. HasRow(s)
      BY <3>3, LeaseAssumption DEF HasRow
    <3>5. QED BY <2>2, <3>1, <3>3, <3>4 DEF LeaseInv, MatchingHandleOwns
  <2>3. QED BY <2>1, <2>2
<1>4. QED BY <1>1, <1>2, <1>3 DEF LeaseInv

(* Acquiring hands out a fence above all that were handed out before.      *)
LEMMA AcquirePreserves ==
  ASSUME LeaseInv, NEW e \in Executor, NEW s \in Secret, NEW t \in 0 .. clock,
         AcquireFresh(e, s, t) \/ TakeOver(e, s, t) \/ AcquireAgain(e, s, t)
  PROVE  LeaseInv'
<1> USE DEF LeaseInv
<1>1. CASE AcquireFresh(e, s, t)
  <2>1. seq + 1 \in Nat \ {0} /\ seq + 1 >= lease[s].fence /\ seq + 1 > Top(s)
    BY <1>1 DEF AcquireFresh, TypeOK, FencesBounded, Top
  <2>2. QED BY <1>1, <2>1, TakePreserves DEF AcquireFresh, TypeOK
<1>2. CASE TakeOver(e, s, t)
  <2>1. lease[s].fence \in Nat /\ lease[s].fence <= seq
        /\ Top(s) = lease[s].fence /\ seq \in Nat
    BY <1>2 DEF TakeOver, TypeOK, FencesBounded, Top
  <2>2. QED BY <1>2, <2>1, TakePreserves DEF TakeOver
<1>3. CASE AcquireAgain(e, s, t)
  <2>1. lease[s].fence \in Nat \ {0} /\ lease[s].fence <= seq /\ seq \in Nat
    BY <1>3, LeaseAssumption DEF AcquireAgain, TypeOK, FencesBounded
  <2>2. QED BY <1>3, <2>1, TakePreserves DEF AcquireAgain
<1>4. QED BY <1>1, <1>2, <1>3

(* Every step keeps the invariant.                                         *)
LEMMA NextLeaseInv == LeaseInv /\ [Next]_vars => LeaseInv'
<1> SUFFICES ASSUME LeaseInv, [Next]_vars PROVE LeaseInv'
  OBVIOUS
<1> USE LeaseAssumption DEF LeaseInv
<1>1. CASE Tick
  BY <1>1 DEF Tick, TypeOK, FencesBounded, MatchingHandleOwns, Top, HasRow, Time
<1>2. ASSUME NEW e \in Executor, Crash(e) PROVE LeaseInv'
  <2>1. TypeOK'
    BY <1>2 DEF Crash, TypeOK
  <2>2. FencesBounded'
    BY <1>2 DEF Crash, TypeOK, FencesBounded, Top, HasRow
  <2>3. MatchingHandleOwns'
    BY <1>2 DEF Crash, TypeOK, MatchingHandleOwns, HasRow
  <2>4. QED BY <2>1, <2>2, <2>3
<1>3. ASSUME NEW e \in Executor, NEW s \in Secret, Release(e, s)
      PROVE LeaseInv'
  <2>1. TypeOK'
    BY <1>3 DEF Release, TypeOK, NoLease
  <2>2. FencesBounded'
    BY <1>3 DEF Release, TypeOK, FencesBounded, Top, HasRow, NoLease, OwnsRow
  <2>3. MatchingHandleOwns'
    BY <1>3 DEF Release, TypeOK, MatchingHandleOwns, HasRow, NoLease, OwnsRow
  <2>4. QED BY <2>1, <2>2, <2>3
<1>4. ASSUME NEW e \in Executor, NEW s \in Secret, NEW t \in 0 .. clock,
             \/ AcquireFresh(e, s, t) \/ TakeOver(e, s, t)
             \/ AcquireAgain(e, s, t)
      PROVE LeaseInv'
  BY <1>4, AcquirePreserves
<1>5. ASSUME NEW e \in Executor, NEW s \in Secret, NEW t \in 0 .. clock,
             Refused(e, s, t)
      PROVE LeaseInv'
  BY <1>5 DEF Refused, NextFence, TypeOK, FencesBounded, MatchingHandleOwns,
              Top, HasRow
<1>6. ASSUME NEW e \in Executor, NEW s \in Secret, NEW t \in 0 .. clock,
             Renew(e, s, t)
      PROVE LeaseInv'
  <2>1. TypeOK'
    BY <1>6 DEF Renew, TypeOK, Time
  <2>2. \A r \in Secret : /\ lease'[r].fence = lease[r].fence
                          /\ lease'[r].owner = lease[r].owner
    BY <1>6 DEF Renew, TypeOK
  <2>3. FencesBounded' /\ MatchingHandleOwns'
    BY <1>6, <2>2 DEF Renew, FencesBounded, MatchingHandleOwns, Top, HasRow
  <2>4. QED BY <2>1, <2>3
<1>7. ASSUME NEW e \in Executor, NEW s \in Secret, NEW t \in 0 .. clock,
             FencedWrite(e, s, t)
      PROVE LeaseInv'
  <2>1. TypeOK'
    BY <1>7 DEF FencedWrite, TypeOK
  <2>2. FencesBounded'
    BY <1>7 DEF FencedWrite, TypeOK, FencesBounded, Top, HasRow
  <2>3. MatchingHandleOwns'
    BY <1>7 DEF FencedWrite, MatchingHandleOwns, HasRow
  <2>4. QED BY <2>1, <2>2, <2>3
<1>8. CASE UNCHANGED vars
  BY <1>8 DEF vars, TypeOK, FencesBounded, MatchingHandleOwns, Top, HasRow
<1>9. QED
  BY <1>1, <1>2, <1>3, <1>4, <1>5, <1>6, <1>7, <1>8 DEF Next

(* The lease tables are well typed, fences are bounded by the sequence and *)
(* a handle with the row's fence belongs to the row's owner.               *)
THEOREM LeaseInvariant == Spec => []LeaseInv
BY InitLeaseInv, NextLeaseInv, PTL DEF Spec

-----------------------------------------------------------------------------
(* acquireOnce, renewLease, releaseLease and withFence keep their rows     *)
(* within their types, and 0 never is a row's fence.                       *)
THEOREM LeaseTypeCorrect == Spec => []TypeOK
<1>1. LeaseInv => TypeOK
  BY DEF LeaseInv
<1>2. QED BY <1>1, LeaseInvariant, PTL

(* An executor whose fence matches is the one the row names.               *)
LEMMA MatchOwns ==
  ASSUME LeaseInv, NEW e \in Executor, NEW s \in Secret, NEW t \in Time,
         FenceMatches(e, s, t)
  PROVE  HasRow(s) /\ lease[s].owner = e /\ lease[s].fence = held[e][s]
<1>1. HasRow(s) /\ lease[s].fence = held[e][s]
  BY DEF FenceMatches, LiveFence, LeaseInv, TypeOK
<1>2. QED BY <1>1 DEF LeaseInv, MatchingHandleOwns

(* However wrong their clocks, two executors never both pass withFence for *)
(* the same secret.                                                        *)
THEOREM FencedWritesExclusive == Spec => []FencedWriteExclusive
<1>1. LeaseInv => FencedWriteExclusive
  BY MatchOwns DEF FencedWriteExclusive
<1>2. QED BY <1>1, LeaseInvariant, PTL

-----------------------------------------------------------------------------
(* A step that changes the fence of a row raises it above every handle of  *)
(* its secret that the step leaves alone, or removes the row.              *)
LEMMA StaleStep ==
  ASSUME LeaseInv, [Next]_vars, NEW e \in Executor, NEW s \in Secret,
         held[e][s] # 0, held'[e][s] = held[e][s],
         lease[s].fence # held[e][s]
  PROVE  lease'[s].fence # held[e][s]
<1> USE DEF LeaseInv
<1>0. held[e][s] \in Nat \ {0} /\ lease[s].fence \in Nat /\ seq \in Nat
      /\ held[e][s] <= Top(s) /\ lease[s].fence <= seq
  BY DEF TypeOK, FencesBounded
<1>1. ASSUME NEW d \in Executor, NEW r \in Secret, NEW t \in 0 .. clock,
             AcquireFresh(d, r, t)
      PROVE  lease'[s].fence # held[e][s]
  BY <1>0, <1>1 DEF AcquireFresh, Take, Top, TypeOK
<1>2. ASSUME NEW d \in Executor, NEW r \in Secret, NEW t \in 0 .. clock,
             TakeOver(d, r, t)
      PROVE  lease'[s].fence # held[e][s]
  BY <1>0, <1>2 DEF TakeOver, Take, Top, TypeOK
<1>3. ASSUME NEW d \in Executor, NEW r \in Secret, NEW t \in 0 .. clock,
             AcquireAgain(d, r, t)
      PROVE  lease'[s].fence # held[e][s]
  BY <1>0, <1>3 DEF AcquireAgain, Take, TypeOK
<1>4. ASSUME NEW d \in Executor, NEW r \in Secret, Release(d, r)
      PROVE  lease'[s].fence # held[e][s]
  BY <1>0, <1>4 DEF Release, NoLease, TypeOK
<1>5. ASSUME NEW d \in Executor, NEW r \in Secret, NEW t \in 0 .. clock,
             Renew(d, r, t)
      PROVE  lease'[s].fence # held[e][s]
  BY <1>5 DEF Renew, TypeOK
<1>6. CASE UNCHANGED lease
  BY <1>6
<1>7. QED
  BY <1>1, <1>2, <1>3, <1>4, <1>5, <1>6
     DEF Next, vars, Tick, Crash, Refused, FencedWrite

(* A fenced-out handle stays fenced out: its fence never returns to the    *)
(* row, whatever releases, inserts and takeovers follow.                   *)
THEOREM StaleHandles == Spec => StaleHandleStaysStale
<1>1. LeaseInv /\ [Next]_vars =>
        [\A e \in Executor, s \in Secret :
           /\ held[e][s] # 0 /\ held'[e][s] = held[e][s]
           /\ lease[s].fence # held[e][s]
           => lease'[s].fence # held[e][s]]_vars
  BY StaleStep
<1>2. QED
  BY <1>1, LeaseInvariant, PTL DEF Spec, StaleHandleStaysStale

(* Fenced writes to a secret's rows carry non-decreasing fences.           *)
THEOREM FencesInOrder == Spec => FenceNeverGoesBack
<1>1. LeaseInv /\ [Next]_vars =>
        [\A s \in Secret : written'[s].fence >= written[s].fence]_vars
  <2> SUFFICES ASSUME LeaseInv, [Next]_vars
               PROVE  \A s \in Secret : written'[s].fence >= written[s].fence
    OBVIOUS
  <2>1. ASSUME NEW e \in Executor, NEW r \in Secret, NEW t \in 0 .. clock,
               FencedWrite(e, r, t)
        PROVE  \A s \in Secret : written'[s].fence >= written[s].fence
    <3>1. t \in Time
      BY LeaseAssumption DEF LeaseInv, TypeOK, Time
    <3>2. HasRow(r) /\ lease[r].fence = held[e][r]
      BY <2>1, <3>1, MatchOwns DEF FencedWrite
    <3>3. QED
      BY <2>1, <3>2 DEF FencedWrite, LeaseInv, TypeOK, FencesBounded, Top
  <2>2. CASE UNCHANGED written
    BY <2>2 DEF LeaseInv, TypeOK
  <2>3. QED
    BY <2>1, <2>2
       DEF Next, vars, Tick, Crash, Release, AcquireFresh, TakeOver,
           AcquireAgain, Refused, Renew
<1>2. QED
  BY <1>1, LeaseInvariant, PTL DEF Spec, FenceNeverGoesBack

-----------------------------------------------------------------------------
(* No rows are no tenants.                                                 *)
LEMMA TenureInit == Init => Tenure!Init
BY DEF Init, Tenure!Init, NoLease, NoWrite

(* Every step is a grant, a vacation, a write or a stutter of the abstract *)
(* tenure.                                                                 *)
LEMMA TenureStep == LeaseInv /\ [Next]_vars => [Tenure!Next]_Tenure!vars
<1> SUFFICES ASSUME LeaseInv, [Next]_vars
             PROVE  Tenure!Next \/ UNCHANGED Tenure!vars
  OBVIOUS
<1> DEFINE tenant == [s \in Secret |-> lease[s].owner]
           author == [s \in Secret |-> written[s].by]
<1> USE DEF LeaseInv
<1>1. ASSUME NEW e \in Executor, NEW s \in Secret, NEW t \in 0 .. clock,
             \/ AcquireFresh(e, s, t) \/ TakeOver(e, s, t)
             \/ AcquireAgain(e, s, t)
      PROVE  Tenure!Next
  <2>0. PICK f : Take(e, s, f, t) /\ written' = written
    BY <1>1 DEF AcquireFresh, TakeOver, AcquireAgain
  <2>1. tenant' = [tenant EXCEPT ![s] = e] /\ author' = author
    BY <2>0 DEF Take, TypeOK
  <2>2. Tenure!Grant(e, s)
    BY <2>1 DEF Tenure!Grant
  <2>3. QED BY <2>2 DEF Tenure!Next
<1>2. ASSUME NEW e \in Executor, NEW s \in Secret, Release(e, s)
      PROVE  Tenure!Next \/ UNCHANGED Tenure!vars
  <2>1. CASE OwnsRow(e, s)
    <3>1. tenant' = [tenant EXCEPT ![s] = NoOwner] /\ author' = author
      BY <1>2, <2>1 DEF Release, NoLease, TypeOK
    <3>2. Tenure!Vacate(s)
      BY <3>1 DEF Tenure!Vacate
    <3>3. QED BY <3>2 DEF Tenure!Next
  <2>2. CASE ~OwnsRow(e, s)
    <3>1. lease' = lease /\ written' = written
      BY <1>2, <2>2 DEF Release, TypeOK
    <3>2. QED BY <3>1 DEF Tenure!vars
  <2>3. QED BY <2>1, <2>2
<1>3. ASSUME NEW e \in Executor, NEW s \in Secret, NEW t \in 0 .. clock,
             FencedWrite(e, s, t)
      PROVE  Tenure!Next
  <2>1. t \in Time
    BY LeaseAssumption DEF TypeOK, Time
  <2>2. lease[s].owner = e
    BY <1>3, <2>1, MatchOwns DEF FencedWrite
  <2>3. author' = [author EXCEPT ![s] = e] /\ tenant' = tenant
    BY <1>3 DEF FencedWrite, TypeOK
  <2>4. Tenure!Write(e, s)
    BY <2>2, <2>3 DEF Tenure!Write
  <2>5. QED BY <2>4 DEF Tenure!Next
<1>4. ASSUME NEW e \in Executor, NEW s \in Secret, NEW t \in 0 .. clock,
             Renew(e, s, t)
      PROVE  UNCHANGED Tenure!vars
  <2>1. tenant' = tenant /\ written' = written
    BY <1>4 DEF Renew, TypeOK
  <2>2. QED BY <2>1 DEF Tenure!vars
<1>5. CASE UNCHANGED <<lease, written>>
  BY <1>5 DEF Tenure!vars
<1>6. QED
  BY <1>1, <1>2, <1>3, <1>4, <1>5
     DEF Next, vars, Tick, Crash, Refused

(* The lease implements exclusive tenure: a write lands only on behalf of  *)
(* the executor whose row it is.                                           *)
THEOREM LeaseImplementsTenure == Spec => ImplementsTenure
BY TenureInit, TenureStep, LeaseInvariant, PTL
   DEF Spec, ImplementsTenure, Tenure!Spec
=============================================================================
