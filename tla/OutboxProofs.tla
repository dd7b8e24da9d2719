---------------------------- MODULE OutboxProofs ----------------------------
(***************************************************************************)
(* Theorems about Outbox, for any number of events, keys and workers: no   *)
(* event is in two hands while passes are shorter than the lease, and how  *)
(* often handlers are called while passes do not overlap.                  *)
(*                                                                         *)
(* Most of them need no more of the table than Typed says. How far ahead   *)
(* retries and leases lie is the matter of the last part, which has first  *)
(* to show that the recursion of Backoff defines a growing function.       *)
(***************************************************************************)
EXTENDS Outbox, FiniteSetTheorems, SequenceTheorems, WellFoundedInduction, TLAPS

Busy(w) == worker[w].pc # "idle"

BatchRow == [id : Event, attempts : 0 .. MaxAttempts - 1]

Pass == [pc : {"idle", "pass", "check", "handle", "settle", "fail"},
         batch : Seq(BatchRow), age : 0 .. MaxPass]

(* A row of the table has the columns it has, and is retried only while it *)
(* has attempts left.                                                      *)
RowOK(r) ==
  /\ DOMAIN r = {"state", "key", "attempts", "next", "until"}
  /\ r.state \in {"absent", "pending", "delivering"} \cup Settled
  /\ r.key \in Key \cup {None} /\ (r.state # "absent" => r.key \in Key)
  /\ r.attempts \in 0 .. MaxAttempts /\ r.until \in Int
  /\ r.state \notin Settled => r.attempts < MaxAttempts

Typed ==
  /\ DOMAIN event = Event /\ \A e \in Event : RowOK(event[e])
  /\ order \in Seq(Event)
  /\ worker \in [Worker -> Pass]
  /\ calls \in [Event -> Nat] /\ handled \in [Key -> Nat]
  /\ overlap \in BOOLEAN /\ crashes \in 0 .. MaxCrashes

(* No event is listed twice: neither by the table, ...                     *)
ListedOnce ==
  \A i, j \in DOMAIN order :
    event[order[i]].state # "absent" /\ (order[i] = order[j] => i = j)

(* ... nor in a batch, which is not empty while there is work to do.       *)
BatchesOK ==
  \A w \in Worker :
    /\ Busy(w) => worker[w].batch # <<>>
    /\ \A i, j \in DOMAIN worker[w].batch :
         worker[w].batch[i].id = worker[w].batch[j].id => i = j

BatchesListed ==
  \A w \in Worker : \A i \in DOMAIN worker[w].batch :
    event[worker[w].batch[i].id].state # "absent"

(* Whoever works on an event holds its lease, which ends Lease after the   *)
(* clock that the pass has read.                                           *)
LeaseIsKept ==
  \A w \in Worker, e \in Event : Working(w, e) =>
    event[e].state = "delivering" /\ event[e].until = Lease - worker[w].age

-----------------------------------------------------------------------------
(* The rest holds as long as no two passes have been under way at a time.  *)
Alone == \A v, w \in Worker : Busy(v) /\ Busy(w) => v = w

HeldIsDelivering == \A w \in Worker, e \in Event : Working(w, e) => event[e].state = "delivering"

(* The attempts of a batch are those of the table.                         *)
BatchIsCurrent ==
  \A w \in Worker : Busy(w) => \A i \in DOMAIN worker[w].batch :
    worker[w].batch[i].attempts = event[worker[w].batch[i].id].attempts

(* An attempt that has been made and not yet been recorded.                *)
Unrecorded(e) ==
  \/ event[e].state = "delivered"
  \/ \E w \in Worker : worker[w].pc \in {"settle", "fail"} /\ Working(w, e)

CallsAddUp ==
  \A e \in Event :
    /\ event[e].state = "delivered" => event[e].attempts < MaxAttempts
    /\ calls[e] <= event[e].attempts + crashes + (IF Unrecorded(e) THEN 1 ELSE 0)

(* A success for a key is on record, or about to be.                       *)
Succeeded(k) ==
  \/ \E e \in Event : event[e].state = "delivered" /\ event[e].key = k
  \/ \E w \in Worker, e \in Event : worker[w].pc = "settle" /\ Working(w, e) /\ event[e].key = k

SuccessesAddUp ==
  /\ \A k \in Key : handled[k] <= crashes + (IF Succeeded(k) THEN 1 ELSE 0)
  /\ \A w \in Worker, e \in Event : worker[w].pc = "handle" /\ Working(w, e) =>
       \A d \in Event : event[d].state = "delivered" => event[d].key # event[e].key

Solo == Alone /\ HeldIsDelivering /\ BatchIsCurrent /\ CallsAddUp /\ SuccessesAddUp

IInv == /\ Typed /\ ListedOnce /\ BatchesOK /\ BatchesListed
        /\ MaxPass < Lease => LeaseIsKept /\ ExclusiveHandling
        /\ ~overlap => Solo

-----------------------------------------------------------------------------
(* The row that a pass is at.                                              *)
LEMMA CurrentIsFirst ==
  ASSUME Typed, BatchesOK, NEW w \in Worker, Busy(w)
  PROVE  /\ worker[w] \in Pass /\ worker[w].batch \in Seq(BatchRow)
         /\ 1 \in DOMAIN worker[w].batch /\ Row(w) = worker[w].batch[1]
         /\ Row(w) \in BatchRow /\ Current(w) = Row(w).id /\ Current(w) \in Event
         /\ DOMAIN worker[w].batch = 1 .. Len(worker[w].batch)
         /\ Len(worker[w].batch) \in Nat \ {0}
<1> DEFINE b == worker[w].batch
<1>1. worker[w] \in Pass /\ b \in Seq(BatchRow) /\ b # <<>>
  BY DEF Typed, Pass, BatchesOK
<1>2. Len(b) \in Nat \ {0} /\ DOMAIN b = 1 .. Len(b) /\ Head(b) = b[1] /\ Head(b) \in BatchRow
  BY <1>1, HeadTailProperties, EmptySeq, LenProperties
<1>3. Current(w) \in Event
  BY <1>2 DEF Current, Row, BatchRow
<1> QED
  BY <1>1, <1>2, <1>3 DEF Row, Current

(* The tail of a sequence with more than one element.                      *)
LEMMA TailOfLonger ==
  ASSUME NEW S, NEW b \in Seq(S), b # <<>>, Len(b) # 1
  PROVE  /\ Tail(b) \in Seq(S) /\ Tail(b) # <<>>
         /\ \A i \in DOMAIN Tail(b) : i + 1 \in DOMAIN b /\ Tail(b)[i] = b[i + 1]
<1> DEFINE t == Tail(b)
<1>1. /\ t \in Seq(S) /\ Len(t) = Len(b) - 1
      /\ \A i \in 1 .. Len(t) : t[i] = b[i + 1]
  BY HeadTailProperties
<1>2. Len(b) \in Nat \ {0} /\ DOMAIN b = 1 .. Len(b) /\ Len(<<>>) = 0
  BY EmptySeq, LenProperties
<1>3. DOMAIN t = 1 .. Len(t)
  BY <1>1, LenProperties
<1> HIDE DEF t
<1>4. t # <<>>
  BY <1>1, <1>2
<1> QED
  BY <1>1, <1>2, <1>3, <1>4 DEF t

(* What is left of a batch after its first row.                            *)
LEMMA NextRowShortens ==
  ASSUME Typed, BatchesOK, NEW w \in Worker, Busy(w), NextRow(w)
  PROVE  \E s \in Pass :
           /\ worker' = [worker EXCEPT ![w] = s]
           /\ s.pc \in {"idle", "pass"} /\ (s.pc # "idle" => s.batch # <<>>)
           /\ \A i \in DOMAIN s.batch :
                i + 1 \in DOMAIN worker[w].batch /\ s.batch[i] = worker[w].batch[i + 1]
<1> DEFINE b == worker[w].batch
<1>1. /\ worker[w] \in Pass /\ b \in Seq(BatchRow) /\ DOMAIN b = 1 .. Len(b)
      /\ Len(b) \in Nat \ {0}
  BY CurrentIsFirst
<1>2. CASE Len(b) = 1
  <2>1. Off \in Pass /\ Off.pc = "idle" /\ DOMAIN Off.batch = {}
    <3>1. <<>> \in Seq(BatchRow) /\ DOMAIN <<>> = {} /\ 0 \in 0 .. MaxPass
      BY EmptySeq, OutboxAssumption
    <3> QED
      BY <3>1 DEF Off, Pass
  <2>2. worker' = [worker EXCEPT ![w] = Off]
    BY <1>2 DEF NextRow
  <2> QED
    BY <2>1, <2>2
<1>3. CASE Len(b) # 1
  <2> DEFINE s == [pc |-> "pass", batch |-> Tail(b), age |-> worker[w].age]
  <2>1. /\ Tail(b) \in Seq(BatchRow) /\ Tail(b) # <<>>
        /\ \A i \in DOMAIN Tail(b) : i + 1 \in DOMAIN b /\ Tail(b)[i] = b[i + 1]
    <3>1. b # <<>>
      BY DEF BatchesOK
    <3> QED
      BY <1>1, <1>3, <3>1, TailOfLonger
  <2>2. s \in Pass /\ s.pc = "pass" /\ s.batch = Tail(b)
    BY <1>1, <2>1 DEF Pass
  <2>3. worker' = [worker EXCEPT ![w] = IF Len(b) = 1 THEN Off ELSE s]
    BY DEF NextRow
  <2> HIDE DEF s
  <2>4. worker' = [worker EXCEPT ![w] = s]
    BY <1>3, <2>3
  <2>5. s.batch # <<>> /\ \A i \in DOMAIN s.batch : i + 1 \in DOMAIN b /\ s.batch[i] = b[i + 1]
    BY <2>1, <2>2
  <2> HIDE DEF b
  <2>6. b = worker[w].batch
    BY DEF b
  <2> QED
    BY <2>2, <2>4, <2>5, <2>6
<1> QED
  BY <1>2, <1>3

(* A step of worker w that changes no row but the one it is at.            *)
Touches(w, r) ==
  /\ DOMAIN event' = Event
  /\ \A x \in Event : event'[x] = IF x = Current(w) THEN r ELSE event[x]

(* The new state s of a pass has no rows that it did not have; `same` says *)
(* that it has not yet left the current one.                               *)
Continues(w, s) ==
  /\ worker' = [worker EXCEPT ![w] = s]
  /\ s.pc # "idle" => s.batch # <<>>
  /\ \/ s.batch = worker[w].batch /\ s.age = worker[w].age
     \/ /\ s.pc \in {"idle", "pass"}
        /\ \A i \in DOMAIN s.batch :
             i + 1 \in DOMAIN worker[w].batch /\ s.batch[i] = worker[w].batch[i + 1]

(* What holds however passes overlap, for any step of a worker that writes *)
(* at most its row and goes on in its batch.                               *)
LEMMA TypedStep ==
  ASSUME Typed, ListedOnce, BatchesOK, BatchesListed, NEW w \in Worker, Busy(w),
         NEW r, RowOK(r), r.state # "absent", Touches(w, r),
         NEW s \in Pass, Continues(w, s),
         calls' \in [Event -> Nat], handled' \in [Key -> Nat],
         overlap' = overlap, crashes' \in 0 .. MaxCrashes, order' = order
  PROVE  Typed' /\ ListedOnce' /\ BatchesOK' /\ BatchesListed'
<1>1. Typed'
  <2>1. \A x \in Event : RowOK(event'[x])
    BY DEF Typed, Touches
  <2>2. worker' \in [Worker -> Pass]
    BY DEF Typed, Continues
  <2>3. (\A x \in Event : RowOK(event[x]))'
    BY <2>1 DEF RowOK
  <2> QED
    BY <2>2, <2>3 DEF Typed, Touches
<1>2. ListedOnce'
  <2>1. \A i \in DOMAIN order : order[i] \in Event
    BY DEF Typed
  <2> QED
    BY <2>1 DEF ListedOnce, Touches
<1>3. BatchesOK'
  <2> SUFFICES ASSUME NEW v \in Worker
               PROVE  /\ worker'[v].pc # "idle" => worker'[v].batch # <<>>
                      /\ \A i, j \in DOMAIN worker'[v].batch :
                           worker'[v].batch[i].id = worker'[v].batch[j].id => i = j
    BY DEF BatchesOK, Busy
  <2>1. CASE v # w
    BY <2>1 DEF BatchesOK, Busy, Continues, Typed
  <2>2. CASE v = w
    <3>1. worker'[v] = s
      BY <2>2 DEF Continues, Typed
    <3>2. \A i, j \in DOMAIN worker[w].batch :
            worker[w].batch[i].id = worker[w].batch[j].id => i = j
      BY DEF BatchesOK
    <3>3. DOMAIN s.batch = 1 .. Len(s.batch) /\ Len(s.batch) \in Nat
      BY LenProperties DEF Pass
    <3>4. ASSUME NEW i \in DOMAIN s.batch, NEW j \in DOMAIN s.batch,
                 s.batch[i].id = s.batch[j].id
          PROVE  i = j
      <4>1. CASE s.batch = worker[w].batch
        BY <3>2, <3>4, <4>1
      <4>2. CASE s.batch # worker[w].batch
        <5>1. /\ i + 1 \in DOMAIN worker[w].batch /\ s.batch[i] = worker[w].batch[i + 1]
              /\ j + 1 \in DOMAIN worker[w].batch /\ s.batch[j] = worker[w].batch[j + 1]
          BY <4>2 DEF Continues
        <5>2. i + 1 = j + 1
          BY <3>2, <3>4, <5>1
        <5> QED
          BY <3>3, <5>2
      <4> QED
        BY <4>1, <4>2
    <3> QED
      BY <3>1, <3>4 DEF Continues
  <2> QED
    BY <2>1, <2>2
<1>4. BatchesListed'
  <2> SUFFICES ASSUME NEW v \in Worker, NEW i \in DOMAIN worker'[v].batch
               PROVE  event'[worker'[v].batch[i].id].state # "absent"
    BY DEF BatchesListed
  <2>1. \E u \in Worker : \E j \in DOMAIN worker[u].batch : worker'[v].batch[i] = worker[u].batch[j]
    <3>1. CASE v # w
      BY <3>1 DEF Continues, Typed
    <3>2. CASE v = w
      BY <3>2 DEF Continues, Typed
    <3> QED
      BY <3>1, <3>2
  <2>2. PICK u \in Worker : \E j \in DOMAIN worker[u].batch : worker'[v].batch[i] = worker[u].batch[j]
    BY <2>1
  <2>3. PICK j \in DOMAIN worker[u].batch : worker'[v].batch[i] = worker[u].batch[j]
    BY <2>2
  <2>4. worker[u].batch[j].id \in Event /\ event[worker[u].batch[j].id].state # "absent"
    <3>1. worker[u].batch \in Seq(BatchRow)
      BY DEF Typed, Pass
    <3>2. worker[u].batch[j] \in BatchRow
      BY <3>1, ElementOfSeq, LenProperties
    <3> QED
      BY <3>2 DEF BatchesListed, BatchRow
  <2> QED
    BY <2>3, <2>4 DEF Touches
<1> QED
  BY <1>1, <1>2, <1>3, <1>4

InHand == {"check", "handle", "settle", "fail"}

(* While passes are shorter than the lease, nobody finds due what another  *)
(* worker has: so what a step writes, it writes to a row of its own.       *)
LEMMA LeaseStep ==
  ASSUME Typed, BatchesOK, MaxPass < Lease, LeaseIsKept, ExclusiveHandling,
         NEW w \in Worker, Busy(w), NEW r, Touches(w, r),
         NEW s \in Pass, Continues(w, s),
         \/ event[Current(w)] = r
         \/ worker[w].pc \in InHand
         \/ Due(Current(w), worker[w].age),
         s.pc \in InHand => /\ worker[w].pc \in InHand \/ Due(Current(w), worker[w].age)
                            /\ s.batch = worker[w].batch /\ s.age = worker[w].age
                            /\ r.state = "delivering" /\ r.until = Lease - worker[w].age
  PROVE  LeaseIsKept' /\ ExclusiveHandling'
<1> DEFINE e == Current(w)
<1>1. e \in Event /\ Lease \in Nat /\ MaxPass \in Nat
  BY CurrentIsFirst, OutboxAssumption
<1>2. \A v \in Worker : /\ v # w => worker'[v] = worker[v]
                        /\ worker[v].age \in Int /\ worker[v].age <= MaxPass /\ worker[v].age >= 0
  BY OutboxAssumption DEF Continues, Typed, Pass
<1>3. worker'[w] = s
  BY DEF Continues, Typed
<1>4. ASSUME NEW v \in Worker, v # w, NEW x \in Event, Working(v, x)',
             event[e] # r \/ s.pc \in InHand
      PROVE  x # e
  <2>1. Working(v, x)
    BY <1>2, <1>4 DEF Working, Current, Row
  <2>2. event[x].state = "delivering" /\ event[x].until = Lease - worker[v].age
    BY <2>1 DEF LeaseIsKept
  <2>3. CASE worker[w].pc \in InHand
    <3>1. Working(w, e)
      BY <2>3 DEF Working, InHand
    <3> QED
      BY <1>1, <1>4, <2>1, <3>1 DEF ExclusiveHandling
  <2>4. CASE Due(e, worker[w].age)
    <3>1. x = e => Lease - worker[v].age <= -worker[w].age
      BY <2>2, <2>4 DEF Due
    <3> QED
      BY <1>1, <1>2, <3>1
  <2> QED
    BY <1>4, <2>3, <2>4
<1>5. ASSUME NEW v \in Worker, NEW x \in Event, Working(v, x)'
      PROVE  /\ event'[x].state = "delivering" /\ event'[x].until = Lease - worker'[v].age
             /\ v = w => x = e
  <2>1. CASE v = w
    <3>1. s.pc \in InHand
      BY <1>3, <1>5, <2>1 DEF Working, InHand
    <3>2. x = e
      BY <1>3, <1>5, <2>1, <3>1 DEF Working, Current, Row
    <3> QED
      BY <1>3, <2>1, <3>1, <3>2 DEF Touches
  <2>2. CASE v # w
    <3>1. Working(v, x) /\ worker'[v] = worker[v]
      BY <1>2, <1>5, <2>2 DEF Working, Current, Row
    <3>2. event'[x] = event[x]
      BY <1>1, <1>4, <1>5, <2>2 DEF Touches
    <3> QED
      BY <2>2, <3>1, <3>2 DEF LeaseIsKept
  <2> QED
    BY <2>1, <2>2
<1>6. LeaseIsKept'
  BY <1>5 DEF LeaseIsKept
<1>7. ASSUME NEW v \in Worker, NEW u \in Worker, NEW x \in Event, Working(v, x)', Working(u, x)'
      PROVE  v = u
  <2>1. CASE v # w /\ u # w
    <3>1. Working(v, x) /\ Working(u, x)
      BY <1>2, <1>7, <2>1 DEF Working, Current, Row
    <3> QED
      BY <3>1 DEF ExclusiveHandling
  <2>2. ASSUME NEW q \in Worker, q # w, Working(q, x)', Working(w, x)'
        PROVE  FALSE
    <3>1. s.pc \in InHand
      BY <1>3, <2>2 DEF Working, InHand
    <3>2. x = e
      BY <1>5, <2>2
    <3> QED
      BY <1>4, <2>2, <3>1, <3>2
  <2> QED
    BY <1>7, <2>1, <2>2
<1> QED
  BY <1>6, <1>7 DEF ExclusiveHandling

(* The same while no two passes have overlapped: the only worker keeps the *)
(* books. Its step makes the row `r` and what it adds to the histories has *)
(* to be on record by then, or about to be.                                *)
LEMMA SoloStep ==
  ASSUME Typed, BatchesOK, Solo, NEW w \in Worker, Busy(w),
         NEW e \in Event, e = Current(w), NEW r, RowOK(r), Touches(w, r),
         NEW s \in Pass, Continues(w, s),
         r.key = event[e].key,
         s.pc \in InHand => s.batch = worker[w].batch /\ r.state = "delivering",
         s.batch = worker[w].batch => s.pc = "idle" \/ r.attempts = event[e].attempts,
         calls' \in [Event -> Nat], handled' \in [Key -> Nat],
         crashes' \in Nat, crashes' >= crashes,
         \A x \in Event : x # e => calls'[x] = calls[x],
         r.state = "delivered" => r.attempts < MaxAttempts,
         calls'[e] <= r.attempts + crashes'
           + (IF r.state = "delivered" \/ s.pc \in {"settle", "fail"} THEN 1 ELSE 0),
         event[e].state = "delivered" => r.state = "delivered",
         \A k \in Key : k # r.key => handled'[k] = handled[k],
         \A k \in Key : k = r.key =>
           handled'[k] <= crashes' +
             (IF \/ r.state = "delivered" \/ s.pc = "settle"
                 \/ \E d \in Event : event[d].state = "delivered" /\ event[d].key = k
              THEN 1 ELSE 0),
         s.pc = "handle" => \A d \in Event : event[d].state = "delivered" => event[d].key # r.key
  PROVE  Solo'
<1>1. /\ e \in Event /\ worker'[w] = s /\ 1 \in DOMAIN worker[w].batch
      /\ worker[w].batch[1].id = e /\ DOMAIN worker[w].batch = 1 .. Len(worker[w].batch)
      /\ worker[w].batch \in Seq(BatchRow)
  BY CurrentIsFirst DEF Continues, Typed
<1>2. \A v \in Worker : v # w => ~Busy(v) /\ worker'[v] = worker[v] /\ worker'[v].pc = "idle"
  BY DEF Solo, Alone, Continues, Typed, Busy
<1>3. /\ \A x \in Event : x # e => event'[x] = event[x]
      /\ event'[e] = r
  BY <1>1 DEF Touches
<1>4. ASSUME NEW v \in Worker, NEW x \in Event, Working(v, x)'
      PROVE  v = w /\ x = e /\ s.pc \in InHand
  <2>1. v = w
    BY <1>2, <1>4 DEF Working
  <2>2. s.pc \in InHand
    BY <1>1, <1>4, <2>1 DEF Working, InHand
  <2> QED
    BY <1>1, <1>4, <2>1, <2>2 DEF Working, Current, Row
<1>5. ASSUME NEW v \in Worker, NEW x \in Event, Working(v, x)
      PROVE  v = w /\ x = e
  BY <1>2, <1>5 DEF Working, Busy
<1>6. s.pc \in InHand => Working(w, e)'
  BY <1>1 DEF Working, InHand, Current, Row
<1>7. Alone'
  BY <1>2 DEF Alone, Busy
<1>8. HeldIsDelivering'
  BY <1>3, <1>4 DEF HeldIsDelivering
<1>9. BatchIsCurrent'
  <2> SUFFICES ASSUME s.pc # "idle", NEW i \in DOMAIN s.batch
               PROVE  s.batch[i].attempts = event'[s.batch[i].id].attempts
    BY <1>1, <1>2 DEF BatchIsCurrent, Busy
  <2>1. \A j \in DOMAIN worker[w].batch :
          /\ worker[w].batch[j].attempts = event[worker[w].batch[j].id].attempts
          /\ worker[w].batch[j].id = e => j = 1
          /\ worker[w].batch[j].id \in Event
    <3>1. \A j \in DOMAIN worker[w].batch : worker[w].batch[j] \in BatchRow
      BY <1>1, ElementOfSeq
    <3>2. \A j \in DOMAIN worker[w].batch :
            worker[w].batch[j].attempts = event[worker[w].batch[j].id].attempts
      BY DEF Solo, BatchIsCurrent
    <3>3. \A j \in DOMAIN worker[w].batch : worker[w].batch[j].id = e => j = 1
      BY <1>1 DEF BatchesOK
    <3> QED
      BY <3>1, <3>2, <3>3 DEF BatchRow
  <2>2. CASE s.batch = worker[w].batch
    BY <1>3, <2>1, <2>2
  <2>3. CASE s.batch # worker[w].batch
    <3>1. i + 1 \in DOMAIN worker[w].batch /\ s.batch[i] = worker[w].batch[i + 1]
      BY <2>3 DEF Continues
    <3>2. i \in Nat \ {0}
      BY LenProperties DEF Pass
    <3>3. worker[w].batch[i + 1].id # e
      BY <2>1, <3>1, <3>2
    <3> QED
      BY <1>3, <2>1, <3>1, <3>3
  <2> QED
    BY <2>2, <2>3
<1>10. CallsAddUp'
  <2> SUFFICES ASSUME NEW x \in Event
               PROVE  /\ event'[x].state = "delivered" => event'[x].attempts < MaxAttempts
                      /\ calls'[x] <= event'[x].attempts + crashes'
                                        + (IF Unrecorded(x)' THEN 1 ELSE 0)
    BY DEF CallsAddUp
  <2>1. CASE x = e
    <3>1. Unrecorded(x)' <=> r.state = "delivered" \/ s.pc \in {"settle", "fail"}
      <4>1. (\E v \in Worker : worker'[v].pc \in {"settle", "fail"} /\ Working(v, x)')
              <=> s.pc \in {"settle", "fail"}
        <5>1. ASSUME NEW v \in Worker, worker'[v].pc \in {"settle", "fail"}, Working(v, x)'
              PROVE  s.pc \in {"settle", "fail"}
          BY <1>1, <1>4, <5>1
        <5>2. s.pc \in {"settle", "fail"} => worker'[w].pc \in {"settle", "fail"} /\ Working(w, x)'
          BY <1>1, <1>6, <2>1 DEF InHand, Working, Current, Row
        <5> QED
          BY <5>1, <5>2
      <4> QED
        BY <1>3, <2>1, <4>1 DEF Unrecorded
    <3> QED
      BY <1>3, <2>1, <3>1
  <2>2. CASE x # e
    <3>1. Unrecorded(x) => Unrecorded(x)'
      BY <1>3, <1>5, <2>2 DEF Unrecorded
    <3>2. /\ event[x].state = "delivered" => event[x].attempts < MaxAttempts
          /\ calls[x] <= event[x].attempts + crashes + (IF Unrecorded(x) THEN 1 ELSE 0)
      BY DEF Solo, CallsAddUp
    <3>3. calls[x] \in Nat /\ event[x].attempts \in Nat /\ crashes \in Nat
      BY OutboxAssumption DEF Typed, RowOK
    <3> QED
      BY <1>3, <2>2, <3>1, <3>2, <3>3
  <2> QED
    BY <2>1, <2>2
<1>11. SuccessesAddUp'
  <2>1. ASSUME NEW k \in Key
        PROVE  handled'[k] <= crashes' + (IF Succeeded(k)' THEN 1 ELSE 0)
    <3>0. \A d \in Event : event[d].state = "delivered" => event'[d].state = "delivered" /\ event'[d].key = event[d].key
      BY <1>3
    <3>1. CASE k = r.key
      <4>1. \/ r.state = "delivered" \/ s.pc = "settle"
            \/ \E d \in Event : event[d].state = "delivered" /\ event[d].key = k
            => Succeeded(k)'
        <5>1. r.state = "delivered" => Succeeded(k)'
          BY <1>1, <1>3, <3>1 DEF Succeeded
        <5>2. s.pc = "settle" => Succeeded(k)'
          <6>1. s.pc = "settle" => worker'[w].pc = "settle" /\ Working(w, e)'
            BY <1>1, <1>6 DEF InHand
          <6>2. event'[e].key = k /\ e \in Event
            BY <1>1, <1>3, <3>1
          <6> QED
            BY <6>1, <6>2 DEF Succeeded
        <5>3. (\E d \in Event : event[d].state = "delivered" /\ event[d].key = k) => Succeeded(k)'
          BY <3>0 DEF Succeeded
        <5> QED
          BY <5>1, <5>2, <5>3
      <4>2. handled'[k] \in Nat
        OBVIOUS
      <4> QED
        BY <3>1, <4>1, <4>2
    <3>2. CASE k # r.key
      <4>1. Succeeded(k) => Succeeded(k)'
        <5>1. ASSUME NEW v \in Worker, NEW x \in Event, Working(v, x)
              PROVE  event[x].key # k
          BY <1>5, <3>2, <5>1
        <5> QED
          BY <3>0, <5>1 DEF Succeeded
      <4>2. handled'[k] = handled[k] /\ handled[k] <= crashes + (IF Succeeded(k) THEN 1 ELSE 0)
        BY <3>2 DEF Solo, SuccessesAddUp
      <4>3. handled[k] \in Nat /\ crashes \in Nat
        BY OutboxAssumption DEF Typed
      <4> QED
        BY <4>1, <4>2, <4>3
    <3> QED
      BY <3>1, <3>2
  <2>2. ASSUME NEW v \in Worker, NEW x \in Event, worker'[v].pc = "handle", Working(v, x)',
               NEW d \in Event, event'[d].state = "delivered"
        PROVE  event'[d].key # event'[x].key
    <3>1. v = w /\ x = e /\ s.pc \in InHand /\ s.pc = "handle"
      BY <1>1, <1>4, <2>2
    <3>2. d # e
      BY <1>3, <2>2, <3>1
    <3> QED
      BY <1>3, <2>2, <3>1, <3>2
  <2> QED
    BY <2>1, <2>2 DEF SuccessesAddUp
<1> QED
  BY <1>7, <1>8, <1>9, <1>10, <1>11 DEF Solo

(* Deliver writes one row, which is then delivered.                        *)
LEMMA RowIsDelivered ==
  ASSUME Typed, NEW e \in Event, event[e].state # "absent", Deliver(e)
  PROVE  \E r : /\ RowOK(r) /\ r.state = "delivered" /\ r.attempts = event[e].attempts
                /\ r.key = event[e].key /\ DOMAIN event' = Event
                /\ \A x \in Event : event'[x] = IF x = e THEN r ELSE event[x]
<1> DEFINE r == [event[e] EXCEPT !.state = "delivered", !.until = 0]
<1>1. RowOK(event[e]) /\ DOMAIN event = Event
  BY DEF Typed
<1>2. RowOK(r) /\ r.state = "delivered" /\ r.attempts = event[e].attempts /\ r.key = event[e].key
  BY <1>1 DEF RowOK, Settled
<1>3. event' = [event EXCEPT ![e] = r]
  BY DEF Deliver
<1> HIDE DEF r
<1>4. DOMAIN event' = Event /\ \A x \in Event : event'[x] = IF x = e THEN r ELSE event[x]
  BY <1>1, <1>3
<1> QED
  BY <1>2, <1>4

(* What is known of the row e that worker w is at.                         *)
LEMMA OfTheCurrent ==
  ASSUME IInv, NEW w \in Worker, Busy(w), NEW e, e = Current(w)
  PROVE  /\ e \in Event /\ RowOK(event[e]) /\ event[e].state # "absent"
         /\ event[e].key \in Key /\ event[e].attempts \in 0 .. MaxAttempts
         /\ Row(w).attempts \in 0 .. MaxAttempts - 1 /\ worker[w] \in Pass
         /\ calls[e] \in Nat /\ handled[event[e].key] \in Nat /\ crashes \in Nat
         /\ worker[w].age \in Nat /\ Lease \in Nat \ {0} /\ MaxAttempts \in Nat \ {0}
         /\ worker[w].batch # <<>>
<1>1. /\ e \in Event /\ Row(w) \in BatchRow /\ worker[w] \in Pass
      /\ 1 \in DOMAIN worker[w].batch /\ Row(w) = worker[w].batch[1] /\ e = Row(w).id
  BY CurrentIsFirst DEF IInv
<1>2. event[e].state # "absent"
  BY <1>1 DEF IInv, BatchesListed
<1>3. RowOK(event[e]) /\ calls[e] \in Nat /\ crashes \in Nat
  BY <1>1, OutboxAssumption DEF IInv, Typed
<1>4. event[e].key \in Key /\ event[e].attempts \in 0 .. MaxAttempts
  BY <1>2, <1>3 DEF RowOK
<1>5. handled[event[e].key] \in Nat
  BY <1>4 DEF IInv, Typed
<1>6. Row(w).attempts \in 0 .. MaxAttempts - 1
  BY <1>1 DEF BatchRow
<1>7. worker[w].age \in Nat /\ Lease \in Nat \ {0} /\ MaxAttempts \in Nat \ {0}
  BY <1>1, OutboxAssumption DEF Pass
<1>8. worker[w].batch # <<>>
  BY DEF IInv, BatchesOK
<1> QED
  BY <1>1, <1>2, <1>3, <1>4, <1>5, <1>6, <1>7, <1>8

(* And of its books, while no other pass is under way.                     *)
LEMMA OfTheOnly ==
  ASSUME IInv, ~overlap, NEW w \in Worker, Busy(w), NEW e, e = Current(w)
  PROVE  /\ Row(w).attempts = event[e].attempts
         /\ worker[w].pc \in InHand => event[e].state = "delivering"
         /\ event[e].state = "delivered" => event[e].attempts < MaxAttempts
         /\ calls[e] <= event[e].attempts + crashes
              + (IF event[e].state = "delivered" \/ worker[w].pc \in {"settle", "fail"}
                 THEN 1 ELSE 0)
         /\ \A k \in Key : k = event[e].key =>
              handled[k] <= crashes +
                (IF \/ worker[w].pc = "settle"
                    \/ \E d \in Event : event[d].state = "delivered" /\ event[d].key = k
                 THEN 1 ELSE 0)
         /\ worker[w].pc = "handle" =>
              \A d \in Event : event[d].state = "delivered" => event[d].key # event[e].key
<1>1. /\ e \in Event /\ 1 \in DOMAIN worker[w].batch /\ Row(w) = worker[w].batch[1]
      /\ e = Row(w).id
  BY CurrentIsFirst DEF IInv
<1>2. Solo
  BY DEF IInv
<1>3. Row(w).attempts = event[e].attempts
  BY <1>1, <1>2 DEF Solo, BatchIsCurrent
<1>4. worker[w].pc \in InHand => Working(w, e)
  BY DEF Working, InHand
<1>5. \A v \in Worker, x \in Event : Working(v, x) => v = w /\ x = e
  BY <1>2 DEF Solo, Alone, Working, Busy
<1>6. worker[w].pc \in InHand => event[e].state = "delivering"
  BY <1>1, <1>2, <1>4 DEF Solo, HeldIsDelivering
<1>7. Unrecorded(e) => event[e].state = "delivered" \/ worker[w].pc \in {"settle", "fail"}
  BY <1>1, <1>5 DEF Unrecorded
<1>8. /\ event[e].state = "delivered" => event[e].attempts < MaxAttempts
      /\ calls[e] <= event[e].attempts + crashes + (IF Unrecorded(e) THEN 1 ELSE 0)
  BY <1>1, <1>2 DEF Solo, CallsAddUp
<1>9. /\ calls[e] \in Nat /\ event[e].attempts \in Nat /\ crashes \in Nat
  BY OfTheCurrent
<1>10. calls[e] <= event[e].attempts + crashes
         + (IF event[e].state = "delivered" \/ worker[w].pc \in {"settle", "fail"} THEN 1 ELSE 0)
  BY <1>7, <1>8, <1>9
<1>11. ASSUME NEW k \in Key
       PROVE  handled[k] <= crashes +
                (IF \/ worker[w].pc = "settle"
                    \/ \E d \in Event : event[d].state = "delivered" /\ event[d].key = k
                 THEN 1 ELSE 0)
  <2>1. Succeeded(k) => \/ worker[w].pc = "settle"
                        \/ \E d \in Event : event[d].state = "delivered" /\ event[d].key = k
    BY <1>5 DEF Succeeded
  <2>2. handled[k] <= crashes + (IF Succeeded(k) THEN 1 ELSE 0) /\ handled[k] \in Nat
    BY <1>2 DEF Solo, SuccessesAddUp, IInv, Typed
  <2> QED
    BY <1>9, <2>1, <2>2
<1>12. worker[w].pc = "handle" =>
         \A d \in Event : event[d].state = "delivered" => event[d].key # event[e].key
  <2>1. worker[w].pc = "handle" => Working(w, e)
    BY <1>4 DEF InHand
  <2> QED
    BY <1>1, <1>2, <2>1 DEF Solo, SuccessesAddUp
<1> QED
  BY <1>3, <1>6, <1>8, <1>10, <1>11, <1>12

-----------------------------------------------------------------------------
(* The invariant from its three parts.                                     *)
LEMMA AllThree ==
  ASSUME Typed', ListedOnce', BatchesOK', BatchesListed',
         MaxPass < Lease => LeaseIsKept' /\ ExclusiveHandling',
         ~overlap' => Solo'
  PROVE  IInv'
BY DEF IInv

(* A step that stays with the current row e.                               *)
LEMMA StaysOn ==
  ASSUME IInv, NEW w \in Worker, Busy(w), NEW e \in Event, e = Current(w),
         NEW r, RowOK(r), r.state # "absent", Touches(w, r), r.key = event[e].key,
         r.attempts = event[e].attempts,
         NEW label \in InHand, Goto(w, label),
         \/ worker[w].pc \in InHand /\ event[e] = r
         \/ /\ Due(e, worker[w].age)
            /\ r.state = "delivering" /\ r.until = Lease - worker[w].age,
         order' = order, overlap' = overlap, crashes' = crashes,
         calls' \in [Event -> Nat], handled' \in [Key -> Nat],
         \A x \in Event : x # e => calls'[x] = calls[x],
         \A k \in Key : k # r.key => handled'[k] = handled[k],
         ~overlap =>
           /\ r.state = "delivering" /\ event[e].state # "delivered"
           /\ calls'[e] <= r.attempts + crashes + (IF label \in {"settle", "fail"} THEN 1 ELSE 0)
           /\ \A k \in Key : k = r.key =>
                handled'[k] <= crashes +
                  (IF \/ label = "settle"
                      \/ \E d \in Event : event[d].state = "delivered" /\ event[d].key = k
                   THEN 1 ELSE 0)
           /\ label = "handle" =>
                \A d \in Event : event[d].state = "delivered" => event[d].key # r.key
  PROVE  IInv'
<1>1. Typed /\ ListedOnce /\ BatchesOK /\ BatchesListed
  BY DEF IInv
<1>2. PICK s : s = [worker[w] EXCEPT !.pc = label]
  OBVIOUS
<1>3. /\ worker[w] \in Pass /\ worker[w].batch # <<>> /\ crashes \in Nat /\ calls[e] \in Nat
  BY OfTheCurrent
<1>4. /\ s \in Pass /\ s.pc = label /\ s.batch = worker[w].batch /\ s.age = worker[w].age
      /\ worker' = [worker EXCEPT ![w] = s]
  BY <1>1, <1>2, <1>3 DEF Pass, Goto, InHand
<1>5. Continues(w, s)
  BY <1>3, <1>4 DEF Continues
<1>6. crashes' \in 0 .. MaxCrashes
  BY <1>1 DEF Typed
<1>7. Typed' /\ ListedOnce' /\ BatchesOK' /\ BatchesListed'
  BY <1>1, <1>4, <1>5, <1>6, TypedStep
<1>8. ASSUME MaxPass < Lease PROVE LeaseIsKept' /\ ExclusiveHandling'
  <2>1. LeaseIsKept /\ ExclusiveHandling
    BY <1>8 DEF IInv
  <2>2. CASE worker[w].pc \in InHand /\ event[e] = r
    <3>1. Working(w, e)
      BY <2>2 DEF Working, InHand
    <3>2. r.state = "delivering" /\ r.until = Lease - worker[w].age
      BY <2>1, <2>2, <3>1 DEF LeaseIsKept
    <3> QED
      BY <1>1, <1>4, <1>5, <1>8, <2>1, <2>2, <3>2, LeaseStep
  <2>3. CASE Due(e, worker[w].age) /\ r.state = "delivering" /\ r.until = Lease - worker[w].age
    BY <1>1, <1>4, <1>5, <1>8, <2>1, <2>3, LeaseStep
  <2> QED
    BY <2>2, <2>3
<1>9. ASSUME ~overlap PROVE Solo'
  <2>1. Solo
    BY <1>9 DEF IInv
  <2>2. calls'[e] <= r.attempts + crashes'
          + (IF r.state = "delivered" \/ s.pc \in {"settle", "fail"} THEN 1 ELSE 0)
    BY <1>4, <1>9
  <2>3. \A k \in Key : k = r.key =>
          handled'[k] <= crashes' +
            (IF \/ r.state = "delivered" \/ s.pc = "settle"
                \/ \E d \in Event : event[d].state = "delivered" /\ event[d].key = k
             THEN 1 ELSE 0)
    BY <1>4, <1>9
  <2>4. crashes' \in Nat /\ crashes' >= crashes
    BY <1>3
  <2>5. /\ s.pc = "handle" => \A d \in Event : event[d].state = "delivered" => event[d].key # r.key
        /\ r.state = "delivering" /\ event[e].state # "delivered"
    BY <1>4, <1>9
  <2> QED
    BY <1>1, <1>4, <1>5, <2>1, <2>2, <2>3, <2>4, <2>5, SoloStep
<1> QED
  BY <1>7, <1>8, <1>9, AllThree

(* A step that leaves the current row e, which becomes r.                  *)
Leaves(w, s) ==
  /\ s \in Pass /\ worker' = [worker EXCEPT ![w] = s]
  /\ s.pc \in {"idle", "pass"} /\ (s.pc # "idle" => s.batch # <<>>)
  /\ \A i \in DOMAIN s.batch :
       i + 1 \in DOMAIN worker[w].batch /\ s.batch[i] = worker[w].batch[i + 1]

(* A step that leaves the current row e for the next one, or ends the pass.*)
LEMMA MovesOn ==
  ASSUME IInv, NEW w \in Worker, Busy(w), NEW e \in Event, e = Current(w),
         NEW r, RowOK(r), r.state # "absent", Touches(w, r), r.key = event[e].key,
         NEW s, Leaves(w, s),
         event[e] = r \/ worker[w].pc \in InHand,
         order' = order, overlap' = overlap, calls' = calls, handled' = handled,
         crashes' \in 0 .. MaxCrashes, crashes' >= crashes,
         ~overlap =>
           /\ r.state = "delivered" => r.attempts < MaxAttempts
           /\ event[e].state = "delivered" => r.state = "delivered"
           /\ calls[e] <= r.attempts + crashes' + (IF r.state = "delivered" THEN 1 ELSE 0)
           /\ \A k \in Key : k = r.key =>
                handled[k] <= crashes' +
                  (IF \/ r.state = "delivered"
                      \/ \E d \in Event : event[d].state = "delivered" /\ event[d].key = k
                   THEN 1 ELSE 0)
  PROVE  IInv'
<1>1. Typed /\ ListedOnce /\ BatchesOK /\ BatchesListed
  BY DEF IInv
<1>2. s \in Pass /\ s.pc \notin InHand
  BY DEF Leaves, InHand
<1>3. Continues(w, s)
  BY DEF Leaves, Continues
<1>4. calls' \in [Event -> Nat] /\ handled' \in [Key -> Nat] /\ crashes' \in Nat
  BY <1>1, OutboxAssumption DEF Typed
<1>5. Typed' /\ ListedOnce' /\ BatchesOK' /\ BatchesListed'
  BY <1>1, <1>2, <1>3, <1>4, TypedStep
<1>6. ASSUME MaxPass < Lease PROVE LeaseIsKept' /\ ExclusiveHandling'
  <2>1. LeaseIsKept /\ ExclusiveHandling
    BY <1>6 DEF IInv
  <2> QED
    BY <1>1, <1>2, <1>3, <1>6, <2>1, LeaseStep
<1>7. ASSUME ~overlap PROVE Solo'
  <2>1. Solo
    BY <1>7 DEF IInv
  <2>2. s.batch = worker[w].batch => s.pc = "idle"
    <3>1. DOMAIN worker[w].batch = 1 .. Len(worker[w].batch) /\ Len(worker[w].batch) \in Nat \ {0}
      BY <1>1, CurrentIsFirst
    <3>2. ASSUME s.batch = worker[w].batch PROVE FALSE
      <4>1. Len(worker[w].batch) \in DOMAIN s.batch
        BY <3>1, <3>2
      <4>2. Len(worker[w].batch) + 1 \in DOMAIN worker[w].batch
        BY <4>1 DEF Leaves
      <4> QED
        BY <3>1, <4>2
    <3> QED
      BY <3>2
  <2>3. calls'[e] <= r.attempts + crashes'
          + (IF r.state = "delivered" \/ s.pc \in {"settle", "fail"} THEN 1 ELSE 0)
    BY <1>2, <1>7 DEF InHand
  <2>4. \A k \in Key : k = r.key =>
          handled'[k] <= crashes' +
            (IF \/ r.state = "delivered" \/ s.pc = "settle"
                \/ \E d \in Event : event[d].state = "delivered" /\ event[d].key = k
             THEN 1 ELSE 0)
    BY <1>2, <1>7 DEF InHand
  <2>5. s.pc # "handle"
    BY <1>2 DEF InHand
  <2>6. /\ r.state = "delivered" => r.attempts < MaxAttempts
        /\ event[e].state = "delivered" => r.state = "delivered"
        /\ calls' \in [Event -> Nat] /\ handled' \in [Key -> Nat]
        /\ \A x \in Event : x # e => calls'[x] = calls[x]
        /\ \A k \in Key : k # r.key => handled'[k] = handled[k]
    BY <1>4, <1>7
  <2> QED
    BY <1>1, <1>2, <1>3, <1>4, <2>1, <2>2, <2>3, <2>4, <2>5, <2>6, SoloStep
<1> QED
  BY <1>5, <1>6, <1>7, AllThree

-----------------------------------------------------------------------------
(* One lemma for each step of a worker: the row it writes, and the pass it *)
(* is left with.                                                           *)
LEMMA ClaimKeeps == ASSUME IInv, NEW w \in Worker, Claim(w) PROVE IInv'
<1>1. Busy(w) /\ worker[w].pc = "pass" /\ Typed /\ BatchesOK
  BY DEF Claim, At, Busy, IInv
<1>2. PICK e : e = Current(w)
  OBVIOUS
<1>3. /\ e \in Event /\ RowOK(event[e]) /\ event[e].state # "absent"
      /\ event[e].key \in Key /\ event[e].attempts \in 0 .. MaxAttempts
      /\ calls[e] \in Nat /\ handled[event[e].key] \in Nat /\ crashes \in Nat
      /\ worker[w].age \in Nat /\ Lease \in Nat \ {0} /\ MaxAttempts \in Nat \ {0}
  BY <1>1, <1>2, OfTheCurrent
<1>4. /\ calls' = calls /\ handled' = handled /\ overlap' = overlap /\ crashes' = crashes
      /\ order' = order /\ calls' \in [Event -> Nat] /\ handled' \in [Key -> Nat]
      /\ crashes' \in 0 .. MaxCrashes
  BY <1>1 DEF Claim, Typed
<1>5. ASSUME ~overlap
      PROVE  /\ calls[e] <= event[e].attempts + crashes
                  + (IF event[e].state = "delivered" THEN 1 ELSE 0)
             /\ \A k \in Key : k = event[e].key =>
                  handled[k] <= crashes +
                    (IF \E d \in Event : event[d].state = "delivered" /\ event[d].key = k
                     THEN 1 ELSE 0)
             /\ event[e].state = "delivered" => event[e].attempts < MaxAttempts
  BY <1>1, <1>2, <1>5, OfTheOnly
<1>6. CASE Due(e, worker[w].age) /\ Goto(w, "check")
           /\ event' = [event EXCEPT ![e].state = "delivering", ![e].until = Lease - worker[w].age]
  <2>1. event[e].state \in {"pending", "delivering"}
    BY <1>6 DEF Due
  <2>2. event[e].attempts < MaxAttempts
    BY <1>3, <2>1 DEF RowOK, Settled
  <2>3. Lease - worker[w].age \in Int
    BY <1>3
  <2> DEFINE r == [event[e] EXCEPT !.state = "delivering", !.until = Lease - worker[w].age]
  <2>4. /\ RowOK(r) /\ r.state = "delivering" /\ r.attempts = event[e].attempts
        /\ r.until = Lease - worker[w].age /\ r.key = event[e].key /\ r.key \in Key
    BY <1>3, <2>2, <2>3 DEF RowOK, Settled
  <2>5. event' = [event EXCEPT ![e] = r]
    BY <1>6
  <2> HIDE DEF r
  <2>6. DOMAIN event' = Event /\ \A x \in Event : event'[x] = IF x = e THEN r ELSE event[x]
    BY <1>1, <1>3, <2>5 DEF Typed
  <2>7. Touches(w, r)
    BY <1>2, <2>6 DEF Touches
  <2>8. ASSUME ~overlap
        PROVE  /\ event[e].state # "delivered"
               /\ calls'[e] <= r.attempts + crashes
               /\ \A k \in Key : k = r.key =>
                    handled'[k] <= crashes +
                      (IF \E d \in Event : event[d].state = "delivered" /\ event[d].key = k
                       THEN 1 ELSE 0)
    BY <1>3, <1>4, <1>5, <2>1, <2>4, <2>8
  <2> DEFINE label == "check"
  <2>9. label \in InHand /\ label \notin {"handle", "settle", "fail"}
    BY DEF InHand
  <2>10. Goto(w, label)
    BY <1>6
  <2>11. calls'[e] \in Nat /\ r.attempts \in Nat
    BY <1>3, <1>4, <2>4
  <2>12. ~overlap =>
           /\ event[e].state # "delivered"
           /\ calls'[e] <= r.attempts + crashes + (IF label \in {"settle", "fail"} THEN 1 ELSE 0)
           /\ \A k \in Key : k = r.key =>
                handled'[k] <= crashes +
                  (IF \/ label = "settle"
                      \/ \E d \in Event : event[d].state = "delivered" /\ event[d].key = k
                   THEN 1 ELSE 0)
           /\ label = "handle" =>
                \A d \in Event : event[d].state = "delivered" => event[d].key # r.key
    BY <1>3, <2>8, <2>11
  <2> HIDE DEF label
  <2> QED
    BY <1>1, <1>2, <1>3, <1>4, <1>6, <2>4, <2>7, <2>9, <2>10, <2>12, StaysOn
<1>7. CASE NextRow(w) /\ UNCHANGED event
  <2>1. PICK s : Leaves(w, s)
    BY <1>1, <1>7, NextRowShortens DEF Leaves
  <2>2. PICK r : r = event[e]
    OBVIOUS
  <2>3. Touches(w, r)
    BY <1>1, <1>2, <1>7, <2>2 DEF Touches, Typed
  <2> QED
    BY <1>1, <1>2, <1>3, <1>4, <1>5, <2>1, <2>2, <2>3, MovesOn
<1> QED
  BY <1>2, <1>6, <1>7 DEF Claim

(* What every step of a worker that has claimed a row starts from.         *)
LEMMA OfTheClaimed ==
  ASSUME IInv, NEW w \in Worker, worker[w].pc \in InHand, NEW e, e = Current(w)
  PROVE  /\ Busy(w) /\ Typed /\ BatchesOK
         /\ ~overlap => event[e].state = "delivering" /\ event[e].attempts < MaxAttempts
<1>1. Busy(w) /\ Typed /\ BatchesOK
  BY DEF Busy, InHand, IInv
<1>2. ASSUME ~overlap PROVE event[e].state = "delivering" /\ event[e].attempts < MaxAttempts
  <2>1. event[e].state = "delivering"
    BY <1>1, <1>2, OfTheOnly
  <2>2. RowOK(event[e])
    BY <1>1, OfTheCurrent
  <2> QED
    BY <2>1, <2>2 DEF RowOK, Settled
<1> QED
  BY <1>1, <1>2

(* The check of whether the key has been delivered by another row.         *)
LEMMA CheckKeeps == ASSUME IInv, NEW w \in Worker, Check(w) PROVE IInv'
<1>1. PICK e : e = Current(w)
  OBVIOUS
<1>2. worker[w].pc = "check" /\ worker[w].pc \in InHand
  BY DEF Check, At, InHand
<1>3. /\ Busy(w) /\ Typed /\ BatchesOK
      /\ ~overlap => event[e].state = "delivering" /\ event[e].attempts < MaxAttempts
  BY <1>1, <1>2, OfTheClaimed
<1>4. /\ e \in Event /\ RowOK(event[e]) /\ event[e].state # "absent"
      /\ event[e].key \in Key /\ event[e].attempts \in Nat
      /\ calls[e] \in Nat /\ handled[event[e].key] \in Nat /\ crashes \in Nat
  BY <1>1, <1>3, OfTheCurrent
<1>5. /\ calls' = calls /\ handled' = handled /\ overlap' = overlap /\ crashes' = crashes
      /\ order' = order /\ calls' \in [Event -> Nat] /\ handled' \in [Key -> Nat]
      /\ crashes' \in 0 .. MaxCrashes
  BY <1>3 DEF Check, Typed
<1>6. ASSUME ~overlap
      PROVE  /\ calls[e] <= event[e].attempts + crashes
             /\ \A k \in Key : k = event[e].key =>
                  handled[k] <= crashes +
                    (IF \E d \in Event : event[d].state = "delivered" /\ event[d].key = k
                     THEN 1 ELSE 0)
  BY <1>1, <1>2, <1>3, <1>4, <1>6, OfTheOnly
<1>7. CASE Deliver(e) /\ NextRow(w)
  <2>1. PICK s : Leaves(w, s)
    BY <1>3, <1>7, NextRowShortens DEF Leaves
  <2>3. PICK r : /\ RowOK(r) /\ r.state = "delivered" /\ r.attempts = event[e].attempts
                 /\ r.key = event[e].key /\ DOMAIN event' = Event
                 /\ \A x \in Event : event'[x] = IF x = e THEN r ELSE event[x]
    BY <1>3, <1>4, <1>7, RowIsDelivered
  <2>4. Touches(w, r)
    BY <1>1, <2>3 DEF Touches
  <2>5. ASSUME ~overlap
        PROVE  /\ r.attempts < MaxAttempts
               /\ calls[e] <= r.attempts + crashes' + (IF r.state = "delivered" THEN 1 ELSE 0)
               /\ \A k \in Key : k = r.key =>
                    handled[k] <= crashes' +
                      (IF \/ r.state = "delivered"
                          \/ \E d \in Event : event[d].state = "delivered" /\ event[d].key = k
                       THEN 1 ELSE 0)
    BY <1>3, <1>4, <1>5, <1>6, <2>3, <2>5
  <2>6. r.state # "absent" /\ crashes' >= crashes /\ r.key = event[e].key
    BY <1>4, <1>5, <2>3
  <2> QED
    BY <1>1, <1>2, <1>3, <1>4, <1>5, <2>1, <2>3, <2>4, <2>5, <2>6, MovesOn
<1>8. CASE /\ ~\E d \in Event : d # e /\ event[d].key = event[e].key /\ event[d].state = "delivered"
           /\ Goto(w, "handle") /\ UNCHANGED event
  <2>1. PICK r : r = event[e]
    OBVIOUS
  <2>2. Touches(w, r)
    BY <1>1, <1>3, <1>8, <2>1 DEF Touches, Typed
  <2> DEFINE label == "handle"
  <2>3. label \in InHand /\ Goto(w, label) /\ label \notin {"settle", "fail"}
    BY <1>8 DEF InHand
  <2> HIDE DEF label
  <2>4. ~overlap =>
          /\ r.state = "delivering" /\ event[e].state # "delivered"
          /\ calls'[e] <= r.attempts + crashes + (IF label \in {"settle", "fail"} THEN 1 ELSE 0)
          /\ \A k \in Key : k = r.key =>
               handled'[k] <= crashes +
                 (IF \/ label = "settle"
                     \/ \E d \in Event : event[d].state = "delivered" /\ event[d].key = k
                  THEN 1 ELSE 0)
          /\ label = "handle" =>
               \A d \in Event : event[d].state = "delivered" => event[d].key # r.key
    BY <1>3, <1>4, <1>5, <1>6, <1>8, <2>1, <2>3
  <2>5. r.key = event[e].key /\ r.attempts = event[e].attempts /\ RowOK(r) /\ r.state # "absent"
    BY <1>4, <2>1
  <2> QED
    BY <1>1, <1>2, <1>3, <1>4, <1>5, <2>1, <2>2, <2>3, <2>4, <2>5, StaysOn
<1> QED
  BY <1>1, <1>7, <1>8 DEF Check

(* The call of the handler, which works or throws.                         *)
LEMMA HandleKeeps == ASSUME IInv, NEW w \in Worker, Handle(w) PROVE IInv'
<1>1. PICK e : e = Current(w)
  OBVIOUS
<1>2. worker[w].pc = "handle" /\ worker[w].pc \in InHand
  BY DEF Handle, At, InHand
<1>3. /\ Busy(w) /\ Typed /\ BatchesOK
      /\ ~overlap => event[e].state = "delivering" /\ event[e].attempts < MaxAttempts
  BY <1>1, <1>2, OfTheClaimed
<1>4. /\ e \in Event /\ RowOK(event[e]) /\ event[e].state # "absent"
      /\ event[e].key \in Key /\ event[e].attempts \in Nat
      /\ calls[e] \in Nat /\ handled[event[e].key] \in Nat /\ crashes \in Nat
  BY <1>1, <1>3, OfTheCurrent
<1>5. /\ overlap' = overlap /\ crashes' = crashes /\ order' = order /\ event' = event
      /\ calls' = [calls EXCEPT ![e] = calls[e] + 1]
  BY <1>1 DEF Handle
<1>6. /\ calls' \in [Event -> Nat] /\ calls'[e] = calls[e] + 1
      /\ \A x \in Event : x # e => calls'[x] = calls[x]
  BY <1>3, <1>4, <1>5 DEF Typed
<1>7. ASSUME ~overlap
      PROVE  /\ calls[e] <= event[e].attempts + crashes
             /\ \A k \in Key : k = event[e].key => handled[k] <= crashes
  <2>1. calls[e] <= event[e].attempts + crashes
    BY <1>1, <1>2, <1>3, <1>4, <1>7, OfTheOnly
  <2>2. \A d \in Event : event[d].state = "delivered" => event[d].key # event[e].key
    BY <1>1, <1>2, <1>3, <1>7, OfTheOnly
  <2>3. \A k \in Key : k = event[e].key =>
          handled[k] <= crashes +
            (IF \E d \in Event : event[d].state = "delivered" /\ event[d].key = k THEN 1 ELSE 0)
    BY <1>1, <1>2, <1>3, <1>7, OfTheOnly
  <2> QED
    BY <1>4, <2>1, <2>2, <2>3
<1>8. PICK r : r = event[e]
  OBVIOUS
<1>9. Touches(w, r) /\ RowOK(r) /\ r.key = event[e].key /\ r.attempts = event[e].attempts
  BY <1>1, <1>3, <1>4, <1>5, <1>8 DEF Touches, Typed
<1>10. ASSUME NEW label \in {"settle", "fail"}, Goto(w, label), handled' \in [Key -> Nat],
              \A k \in Key : k # r.key => handled'[k] = handled[k],
              \A k \in Key : k = r.key =>
                handled'[k] <= handled[k] + (IF label = "settle" THEN 1 ELSE 0)
       PROVE  IInv'
  <2>1. ~overlap =>
          /\ r.state = "delivering" /\ event[e].state # "delivered"
          /\ calls'[e] <= r.attempts + crashes + (IF label \in {"settle", "fail"} THEN 1 ELSE 0)
    BY <1>3, <1>4, <1>6, <1>7, <1>8
  <2>2. ASSUME ~overlap, NEW k \in Key, k = r.key
        PROVE  handled'[k] <= crashes +
                 (IF \/ label = "settle"
                     \/ \E d \in Event : event[d].state = "delivered" /\ event[d].key = k
                  THEN 1 ELSE 0)
    <3>1. handled[k] <= crashes /\ handled'[k] <= handled[k] + (IF label = "settle" THEN 1 ELSE 0)
      BY <1>7, <1>9, <1>10, <2>2
    <3>2. handled[k] \in Nat /\ handled'[k] \in Nat /\ crashes \in Nat
      BY <1>3, <1>4, <1>10 DEF Typed
    <3> QED
      BY <3>1, <3>2
  <2>3. label # "handle" /\ label \in InHand /\ r.state # "absent" /\ worker[w].pc \in InHand
    BY <1>2, <1>4, <1>8 DEF InHand
  <2> QED
    BY <1>1, <1>3, <1>4, <1>5, <1>6, <1>8, <1>9, <1>10, <2>1, <2>2, <2>3, StaysOn
<1>11. CASE Goto(w, "settle") /\ handled' = [handled EXCEPT ![event[e].key] = @ + 1]
  <2>1. /\ handled' \in [Key -> Nat]
        /\ \A k \in Key : k # r.key => handled'[k] = handled[k]
        /\ \A k \in Key : k = r.key => handled'[k] = handled[k] + 1
    BY <1>3, <1>4, <1>9, <1>11 DEF Typed
  <2> DEFINE label == "settle"
  <2>2. label \in {"settle", "fail"} /\ Goto(w, label)
    BY <1>11
  <2>3. \A k \in Key : k = r.key =>
          handled'[k] <= handled[k] + (IF label = "settle" THEN 1 ELSE 0)
    <3>1. handled \in [Key -> Nat]
      BY <1>3 DEF Typed
    <3> QED
      BY <2>1, <3>1
  <2> HIDE DEF label
  <2> QED
    BY <1>10, <2>1, <2>2, <2>3
<1>12. CASE Goto(w, "fail") /\ handled' = handled
  <2>1. handled' \in [Key -> Nat] /\ \A k \in Key : k # r.key => handled'[k] = handled[k]
    BY <1>3, <1>12 DEF Typed
  <2> DEFINE label == "fail"
  <2>2. label \in {"settle", "fail"} /\ Goto(w, label)
    BY <1>12
  <2>3. \A k \in Key : k = r.key =>
          handled'[k] <= handled[k] + (IF label = "settle" THEN 1 ELSE 0)
    <3>1. handled \in [Key -> Nat]
      BY <1>3 DEF Typed
    <3> QED
      BY <1>12, <3>1
  <2> HIDE DEF label
  <2> QED
    BY <1>10, <2>1, <2>2, <2>3
<1> QED
  BY <1>1, <1>11, <1>12 DEF Handle

(* The write of a success.                                                 *)
LEMMA SettleKeeps == ASSUME IInv, NEW w \in Worker, Settle(w) PROVE IInv'
<1>1. PICK e : e = Current(w)
  OBVIOUS
<1>2. worker[w].pc = "settle" /\ worker[w].pc \in InHand
  BY DEF Settle, At, InHand
<1>3. /\ Busy(w) /\ Typed /\ BatchesOK
      /\ ~overlap => event[e].state = "delivering" /\ event[e].attempts < MaxAttempts
  BY <1>1, <1>2, OfTheClaimed
<1>4. /\ e \in Event /\ RowOK(event[e]) /\ event[e].state # "absent"
      /\ event[e].key \in Key /\ event[e].attempts \in Nat
      /\ calls[e] \in Nat /\ handled[event[e].key] \in Nat /\ crashes \in Nat
  BY <1>1, <1>3, OfTheCurrent
<1>5. /\ calls' = calls /\ handled' = handled /\ overlap' = overlap /\ crashes' = crashes
      /\ order' = order /\ crashes' \in 0 .. MaxCrashes
      /\ Deliver(e) /\ NextRow(w)
  BY <1>1, <1>3 DEF Settle, Typed
<1>6. PICK s : Leaves(w, s)
  BY <1>3, <1>5, NextRowShortens DEF Leaves
<1>7. PICK r : /\ RowOK(r) /\ r.state = "delivered" /\ r.attempts = event[e].attempts
               /\ r.key = event[e].key /\ DOMAIN event' = Event
               /\ \A x \in Event : event'[x] = IF x = e THEN r ELSE event[x]
  BY <1>3, <1>4, <1>5, RowIsDelivered
<1>8. Touches(w, r)
  BY <1>1, <1>7 DEF Touches
<1>9. ASSUME ~overlap
      PROVE  /\ r.attempts < MaxAttempts
             /\ calls[e] <= r.attempts + crashes' + (IF r.state = "delivered" THEN 1 ELSE 0)
             /\ \A k \in Key : k = r.key =>
                  handled[k] <= crashes' +
                    (IF \/ r.state = "delivered"
                        \/ \E d \in Event : event[d].state = "delivered" /\ event[d].key = k
                     THEN 1 ELSE 0)
  <2>1. calls[e] <= event[e].attempts + crashes + 1
    BY <1>1, <1>2, <1>3, <1>9, OfTheOnly
  <2>2. \A k \in Key : k = event[e].key => handled[k] <= crashes + 1
    BY <1>1, <1>2, <1>3, <1>9, OfTheOnly
  <2> QED
    BY <1>3, <1>4, <1>5, <1>7, <1>9, <2>1, <2>2
<1>10. r.state # "absent" /\ crashes' >= crashes
  BY <1>4, <1>5, <1>7
<1> QED
  BY <1>1, <1>2, <1>3, <1>4, <1>5, <1>6, <1>7, <1>8, <1>9, <1>10, MovesOn

(* The write of a failure: a retry or a dead letter.                       *)
LEMMA FailKeeps == ASSUME IInv, NEW w \in Worker, Fail(w) PROVE IInv'
<1>1. PICK e : e = Current(w)
  OBVIOUS
<1>2. worker[w].pc = "fail" /\ worker[w].pc \in InHand
  BY DEF Fail, At, InHand
<1>3. /\ Busy(w) /\ Typed /\ BatchesOK
      /\ ~overlap => event[e].state = "delivering" /\ event[e].attempts < MaxAttempts
  BY <1>1, <1>2, OfTheClaimed
<1>4. /\ e \in Event /\ RowOK(event[e]) /\ event[e].state # "absent"
      /\ event[e].key \in Key /\ event[e].attempts \in Nat
      /\ Row(w).attempts \in 0 .. MaxAttempts - 1 /\ MaxAttempts \in Nat \ {0}
      /\ calls[e] \in Nat /\ handled[event[e].key] \in Nat /\ crashes \in Nat
  BY <1>1, <1>3, OfTheCurrent
<1> DEFINE a == Row(w).attempts + 1
           n == Backoff[a] - worker[w].age
           st == IF a >= MaxAttempts THEN "dead-letter" ELSE "pending"
           r == [event[e] EXCEPT !.state = st, !.attempts = a, !.until = 0, !.next = n]
<1>5. /\ calls' = calls /\ handled' = handled /\ overlap' = overlap /\ crashes' = crashes
      /\ order' = order /\ crashes' \in 0 .. MaxCrashes /\ NextRow(w)
  BY <1>1, <1>3 DEF Fail, Typed
<1>6. event' = [event EXCEPT ![e] = r]
  BY <1>1 DEF Fail
<1>7. a \in 1 .. MaxAttempts /\ st \in {"dead-letter", "pending"} /\ (st = "pending" => a < MaxAttempts)
  BY <1>4
<1> HIDE DEF a, n, st
<1>8. /\ RowOK(r) /\ r.state = st /\ r.attempts = a /\ r.key = event[e].key
  BY <1>4, <1>7 DEF RowOK, Settled
<1> HIDE DEF r
<1>9. Touches(w, r)
  BY <1>1, <1>3, <1>4, <1>6 DEF Touches, Typed
<1>10. PICK s : Leaves(w, s)
  BY <1>3, <1>5, NextRowShortens DEF Leaves
<1>11. ASSUME ~overlap
       PROVE  /\ event[e].state # "delivered"
              /\ calls[e] <= r.attempts + crashes'
              /\ \A k \in Key : k = r.key =>
                   handled[k] <= crashes' +
                     (IF \/ r.state = "delivered"
                         \/ \E d \in Event : event[d].state = "delivered" /\ event[d].key = k
                      THEN 1 ELSE 0)
  <2>1. /\ calls[e] <= event[e].attempts + crashes + 1
        /\ Row(w).attempts = event[e].attempts
    BY <1>1, <1>2, <1>3, <1>11, OfTheOnly
  <2>2. \A k \in Key : k = event[e].key =>
          handled[k] <= crashes +
            (IF \E d \in Event : event[d].state = "delivered" /\ event[d].key = k THEN 1 ELSE 0)
    BY <1>1, <1>2, <1>3, <1>11, OfTheOnly
  <2>3. r.state # "delivered"
    BY <1>7, <1>8
  <2>4. calls[e] <= r.attempts + crashes'
    BY <1>4, <1>5, <1>8, <2>1 DEF a
  <2> QED
    BY <1>3, <1>5, <1>8, <1>11, <2>2, <2>3, <2>4
<1>12. r.state \notin {"absent", "delivered"} /\ crashes' >= crashes
  BY <1>4, <1>5, <1>7, <1>8
<1>13. calls[e] <= r.attempts + crashes' <=>
         calls[e] <= r.attempts + crashes' + (IF r.state = "delivered" THEN 1 ELSE 0)
  BY <1>4, <1>5, <1>7, <1>8, <1>12
<1> QED
  BY <1>1, <1>2, <1>3, <1>4, <1>5, <1>8, <1>9, <1>10, <1>11, <1>12, <1>13, MovesOn

(* A worker dies; its claims are left to expire.                           *)
LEMMA CrashKeeps == ASSUME IInv, NEW w \in Worker, Crash(w) PROVE IInv'
<1>1. PICK e : e = Current(w)
  OBVIOUS
<1>2. Busy(w) /\ Typed /\ BatchesOK
  BY DEF Crash, At, Busy, IInv
<1>3. /\ e \in Event /\ RowOK(event[e]) /\ event[e].state # "absent"
      /\ event[e].key \in Key /\ event[e].attempts \in Nat
      /\ calls[e] \in Nat /\ handled[event[e].key] \in Nat /\ crashes \in Nat
  BY <1>1, <1>2, OfTheCurrent
<1>4. /\ calls' = calls /\ handled' = handled /\ overlap' = overlap /\ crashes' = crashes + 1
      /\ order' = order /\ event' = event /\ crashes' \in 0 .. MaxCrashes
      /\ worker' = [worker EXCEPT ![w] = Off]
  BY <1>2, OutboxAssumption DEF Crash, Typed
<1>5. /\ Off.pc = "idle" /\ DOMAIN Off.batch = {} /\ Off \in Pass
  <2>1. <<>> \in Seq(BatchRow) /\ DOMAIN <<>> = {} /\ 0 \in 0 .. MaxPass
    BY EmptySeq, OutboxAssumption
  <2> QED
    BY <2>1 DEF Off, Pass
<1>6. Leaves(w, Off)
  BY <1>4, <1>5 DEF Leaves
<1>7. PICK r : r = event[e]
  OBVIOUS
<1>8. Touches(w, r)
  BY <1>1, <1>2, <1>4, <1>7 DEF Touches, Typed
<1>9. ASSUME ~overlap
      PROVE  /\ r.state = "delivered" => r.attempts < MaxAttempts
             /\ calls[e] <= r.attempts + crashes' + (IF r.state = "delivered" THEN 1 ELSE 0)
             /\ \A k \in Key : k = r.key =>
                  handled[k] <= crashes' +
                    (IF \/ r.state = "delivered"
                        \/ \E d \in Event : event[d].state = "delivered" /\ event[d].key = k
                     THEN 1 ELSE 0)
  <2>1. /\ event[e].state = "delivered" => event[e].attempts < MaxAttempts
        /\ calls[e] <= event[e].attempts + crashes + 1
    BY <1>1, <1>2, <1>3, <1>9, OfTheOnly
  <2>2. \A k \in Key : k = event[e].key => handled[k] <= crashes + 1
    BY <1>1, <1>2, <1>3, <1>9, OfTheOnly
  <2> QED
    BY <1>3, <1>4, <1>7, <1>9, <2>1, <2>2
<1>10. r.state # "absent" /\ crashes' >= crashes /\ RowOK(r) /\ r.key = event[e].key
  BY <1>3, <1>4, <1>7
<1> QED
  BY <1>1, <1>2, <1>3, <1>4, <1>6, <1>7, <1>8, <1>9, <1>10, MovesOn

-----------------------------------------------------------------------------
(* A step that takes no row up and puts none down leaves the books right.  *)
LEMMA SameHands ==
  ASSUME Typed, BatchesOK, Solo, calls' = calls, handled' = handled, crashes' = crashes,
         \A v \in Worker, x \in Event : Working(v, x)' => Working(v, x),
         \A v \in Worker, x \in Event : Working(v, x) => Working(v, x)' /\ worker'[v].pc = worker[v].pc,
         \A x \in Event :
           /\ event'[x].attempts = event[x].attempts
           /\ event[x].state # "absent" =>
                event'[x].state = event[x].state /\ event'[x].key = event[x].key
           /\ event[x].state = "absent" => event'[x].state \in {"absent", "pending"}
  PROVE  HeldIsDelivering' /\ CallsAddUp' /\ SuccessesAddUp'
<1>1. \A v \in Worker, x \in Event : Working(v, x) => event[x].state = "delivering"
  BY DEF Solo, HeldIsDelivering
<1>2. HeldIsDelivering'
  BY <1>1 DEF HeldIsDelivering
<1>3. \A x \in Event : Unrecorded(x)' <=> Unrecorded(x)
  <2>1. ASSUME NEW x \in Event
        PROVE  /\ event'[x].state = "delivered" <=> event[x].state = "delivered"
               /\ (\E v \in Worker : worker'[v].pc \in {"settle", "fail"} /\ Working(v, x)')
                   <=> (\E v \in Worker : worker[v].pc \in {"settle", "fail"} /\ Working(v, x))
    <3>1. event[x].state = "absent" \/ event'[x].state = event[x].state
      OBVIOUS
    <3>2. ASSUME NEW v \in Worker
          PROVE  worker'[v].pc \in {"settle", "fail"} /\ Working(v, x)'
                   <=> worker[v].pc \in {"settle", "fail"} /\ Working(v, x)
      OBVIOUS
    <3> QED
      BY <3>1, <3>2
  <2> QED
    BY <2>1 DEF Unrecorded
<1>4. CallsAddUp'
  <2> SUFFICES ASSUME NEW x \in Event
               PROVE  /\ event'[x].state = "delivered" => event'[x].attempts < MaxAttempts
                      /\ calls'[x] <= event'[x].attempts + crashes'
                                        + (IF Unrecorded(x)' THEN 1 ELSE 0)
    BY DEF CallsAddUp
  <2>1. event'[x].state = "delivered" => event[x].state = "delivered"
    OBVIOUS
  <2> QED
    BY <1>3, <2>1 DEF Solo, CallsAddUp
<1>5. SuccessesAddUp'
  <2>1. ASSUME NEW k \in Key, Succeeded(k) PROVE Succeeded(k)'
    <3>1. CASE \E x \in Event : event[x].state = "delivered" /\ event[x].key = k
      BY <3>1 DEF Succeeded
    <3>2. CASE \E v \in Worker, x \in Event :
                 worker[v].pc = "settle" /\ Working(v, x) /\ event[x].key = k
      <4>1. PICK v \in Worker, x \in Event :
                   worker[v].pc = "settle" /\ Working(v, x) /\ event[x].key = k
        BY <3>2
      <4>2. worker'[v].pc = "settle" /\ Working(v, x)' /\ event'[x].key = k
        BY <1>1, <4>1
      <4> QED
        BY <4>2 DEF Succeeded
    <3> QED
      BY <2>1, <3>1, <3>2 DEF Succeeded
  <2>2. ASSUME NEW k \in Key
        PROVE  handled'[k] <= crashes' + (IF Succeeded(k)' THEN 1 ELSE 0)
    <3>1. handled[k] <= crashes + (IF Succeeded(k) THEN 1 ELSE 0)
      BY DEF Solo, SuccessesAddUp
    <3>2. handled[k] \in Nat /\ crashes \in Nat
      BY OutboxAssumption DEF Typed
    <3> QED
      BY <2>1, <3>1, <3>2
  <2>3. ASSUME NEW v \in Worker, NEW x \in Event, worker'[v].pc = "handle", Working(v, x)',
               NEW d \in Event, event'[d].state = "delivered"
        PROVE  event'[d].key # event'[x].key
    <3>1. Working(v, x) /\ worker[v].pc = "handle" /\ event[d].state = "delivered"
      BY <2>3
    <3>2. event'[d].key = event[d].key /\ event'[x].key = event[x].key
      BY <1>1, <3>1
    <3> QED
      BY <3>1, <3>2 DEF Solo, SuccessesAddUp
  <2> QED
    BY <2>2, <2>3 DEF SuccessesAddUp
<1> QED
  BY <1>2, <1>4, <1>5

(* enqueue: a new row at the end of the order.                             *)
LEMMA EnqueueKeeps ==
  ASSUME IInv, NEW e \in Event, NEW k \in Key, Enqueue(e, k)
  PROVE  IInv'
<1>1. Typed /\ ListedOnce /\ BatchesOK /\ BatchesListed /\ event[e].state = "absent"
  BY DEF IInv, Enqueue
<1>2. /\ worker' = worker /\ calls' = calls /\ handled' = handled /\ overlap' = overlap
      /\ crashes' = crashes /\ order' = Append(order, e)
      /\ event' = [event EXCEPT ![e].state = "pending", ![e].key = k]
  BY DEF Enqueue
<1>3. /\ DOMAIN event' = Event /\ RowOK(event'[e]) /\ event'[e].state = "pending"
      /\ event'[e].attempts = event[e].attempts
      /\ \A x \in Event : x # e => event'[x] = event[x]
  <2>1. RowOK(event[e]) /\ DOMAIN event = Event
    BY <1>1 DEF Typed
  <2> QED
    BY <1>1, <1>2, <2>1 DEF RowOK, Settled
<1>4. /\ order' \in Seq(Event) /\ DOMAIN order' = 1 .. Len(order) + 1
      /\ DOMAIN order = 1 .. Len(order) /\ Len(order) \in Nat
      /\ order'[Len(order) + 1] = e /\ \A i \in DOMAIN order : order'[i] = order[i]
  <2>1. order \in Seq(Event)
    BY <1>1 DEF Typed
  <2> QED
    BY <1>2, <2>1, AppendProperties, LenProperties
<1>5. Typed'
  <2>1. \A x \in Event : RowOK(event'[x])
    BY <1>1, <1>3 DEF Typed
  <2>2. (\A x \in Event : RowOK(event[x]))'
    BY <2>1 DEF RowOK
  <2> QED
    BY <1>1, <1>2, <1>3, <1>4, <2>2 DEF Typed
<1>6. ListedOnce'
  <2>1. \A i \in DOMAIN order : order[i] \in Event /\ order[i] # e
    BY <1>1 DEF ListedOnce, Typed
  <2>2. \A i \in DOMAIN order' : i \in DOMAIN order \/ i = Len(order) + 1
    BY <1>4
  <2>3. \A i, j \in DOMAIN order : order[i] = order[j] => i = j
    BY <1>1 DEF ListedOnce
  <2>4. \A i \in DOMAIN order' : event'[order'[i]].state # "absent"
    BY <1>1, <1>3, <1>4, <2>1, <2>2 DEF ListedOnce
  <2>5. \A i, j \in DOMAIN order' : order'[i] = order'[j] => i = j
    BY <1>4, <2>1, <2>2, <2>3
  <2> QED
    BY <2>4, <2>5 DEF ListedOnce
<1>7. \A v \in Worker : \A i \in DOMAIN worker[v].batch :
        worker[v].batch[i].id \in Event /\ worker[v].batch[i].id # e
  <2>1. \A v \in Worker : \A i \in DOMAIN worker[v].batch : worker[v].batch[i] \in BatchRow
    <3>1. \A v \in Worker : worker[v].batch \in Seq(BatchRow)
      BY <1>1 DEF Typed, Pass
    <3> QED
      BY <3>1, ElementOfSeq, LenProperties
  <2> QED
    BY <1>1, <2>1 DEF BatchesListed, BatchRow
<1>8. BatchesOK' /\ BatchesListed'
  <2>1. BatchesOK'
    BY <1>1, <1>2 DEF BatchesOK, Busy
  <2>2. BatchesListed'
    BY <1>1, <1>2, <1>3, <1>7 DEF BatchesListed
  <2> QED
    BY <2>1, <2>2
<1>9. \A v \in Worker, x \in Event : Working(v, x)' <=> Working(v, x)
  BY <1>2 DEF Working, Current, Row
<1>10. \A v \in Worker, x \in Event : Working(v, x) => x # e
  <2>1. ASSUME NEW v \in Worker, NEW x \in Event, Working(v, x) PROVE x # e
    <3>1. Busy(v) /\ x = Current(v)
      BY <2>1 DEF Working, Busy
    <3>2. 1 \in DOMAIN worker[v].batch /\ x = worker[v].batch[1].id
      BY <1>1, <3>1, CurrentIsFirst
    <3> QED
      BY <1>7, <3>2
  <2> QED
    BY <2>1
<1>11. ASSUME MaxPass < Lease PROVE LeaseIsKept' /\ ExclusiveHandling'
  <2>1. LeaseIsKept /\ ExclusiveHandling
    BY <1>11 DEF IInv
  <2>2. LeaseIsKept'
    BY <1>2, <1>3, <1>9, <1>10, <2>1 DEF LeaseIsKept
  <2>3. ExclusiveHandling'
    BY <1>9, <2>1 DEF ExclusiveHandling
  <2> QED
    BY <2>2, <2>3
<1>12. ASSUME ~overlap PROVE Solo'
  <2>1. Solo
    BY <1>12 DEF IInv
  <2>2. \A x \in Event :
           /\ event'[x].attempts = event[x].attempts
           /\ event[x].state # "absent" =>
                event'[x].state = event[x].state /\ event'[x].key = event[x].key
           /\ event[x].state = "absent" => event'[x].state \in {"absent", "pending"}
    BY <1>1, <1>3
  <2>3. HeldIsDelivering' /\ CallsAddUp' /\ SuccessesAddUp'
    BY <1>1, <1>2, <1>9, <2>1, <2>2, SameHands
  <2>4. Alone'
    BY <1>2, <2>1 DEF Solo, Alone, Busy
  <2>5. BatchIsCurrent'
    BY <1>2, <1>7, <2>1, <2>2 DEF Solo, BatchIsCurrent, Busy
  <2> QED
    BY <2>3, <2>4, <2>5 DEF Solo
<1> QED
  BY <1>2, <1>5, <1>6, <1>8, <1>11, <1>12, AllThree

(* Time passes: claims expire, and only then can a pass be overtaken.      *)
LEMMA TickKeeps == ASSUME IInv, Tick PROVE IInv'
<1>1. Typed /\ ListedOnce /\ BatchesOK /\ BatchesListed /\ MaxPass \in Nat
  BY OutboxAssumption DEF IInv
<1>2. /\ calls' = calls /\ handled' = handled /\ overlap' = overlap
      /\ crashes' = crashes /\ order' = order
  BY DEF Tick
<1>3. ASSUME NEW v \in Worker
      PROVE  /\ worker'[v] \in Pass /\ worker'[v].pc = worker[v].pc
             /\ worker'[v].batch = worker[v].batch
             /\ Busy(v) => worker[v].age < MaxPass /\ worker'[v].age = worker[v].age + 1
  <2>1. worker[v] \in Pass
    BY <1>1 DEF Typed
  <2>2. worker'[v] = IF Busy(v) THEN [worker[v] EXCEPT !.age = worker[v].age + 1] ELSE worker[v]
    BY DEF Tick, At, Busy
  <2>3. Busy(v) => worker[v].age < MaxPass
    BY DEF Tick, At, Busy
  <2> QED
    BY <1>1, <2>1, <2>2, <2>3 DEF Pass
<1>4. ASSUME NEW x \in Event
      PROVE  /\ RowOK(event'[x]) /\ event'[x].state = event[x].state
             /\ event'[x].key = event[x].key /\ event'[x].attempts = event[x].attempts
             /\ event[x].state = "delivering" => event'[x].until = Sooner(event[x].until)
  <2>1. RowOK(event[x])
    BY <1>1 DEF Typed
  <2> DEFINE n == IF event[x].state = "pending" THEN Sooner(event[x].next) ELSE event[x].next
             u == IF event[x].state = "delivering" THEN Sooner(event[x].until) ELSE event[x].until
  <2>2. event'[x] = [event[x] EXCEPT !.next = n, !.until = u]
    BY DEF Tick
  <2>3. u \in Int
    BY <2>1 DEF RowOK, Sooner
  <2>4. event[x].state = "delivering" => u = Sooner(event[x].until)
    OBVIOUS
  <2> HIDE DEF n, u
  <2> QED
    BY <2>1, <2>2, <2>3, <2>4 DEF RowOK
<1>5. Typed'
  <2>1. (\A x \in Event : RowOK(event[x]))'
    <3>1. \A x \in Event : RowOK(event'[x])
      BY <1>4
    <3> QED
      BY <3>1 DEF RowOK
  <2>2. DOMAIN event' = Event
    BY DEF Tick
  <2>3. worker' \in [Worker -> Pass]
    <3>1. DOMAIN worker' = Worker /\ worker' = [v \in Worker |-> worker'[v]]
      BY DEF Tick
    <3> QED
      BY <1>3, <3>1
  <2> QED
    BY <1>1, <1>2, <2>1, <2>2, <2>3 DEF Typed
<1>6. ListedOnce'
  <2>1. \A i \in DOMAIN order : order[i] \in Event
    BY <1>1 DEF Typed
  <2> QED
    BY <1>1, <1>2, <1>4, <2>1 DEF ListedOnce
<1>7. BatchesOK' /\ BatchesListed'
  <2>1. BatchesOK'
    BY <1>1, <1>3 DEF BatchesOK, Busy
  <2>2. \A v \in Worker : \A i \in DOMAIN worker[v].batch : worker[v].batch[i].id \in Event
    <3>1. \A v \in Worker : worker[v].batch \in Seq(BatchRow)
      BY <1>1 DEF Typed, Pass
    <3>2. \A v \in Worker : \A i \in DOMAIN worker[v].batch : worker[v].batch[i] \in BatchRow
      BY <3>1, ElementOfSeq, LenProperties
    <3> QED
      BY <3>2 DEF BatchRow
  <2>3. BatchesListed'
    BY <1>1, <1>3, <1>4, <2>2 DEF BatchesListed
  <2> QED
    BY <2>1, <2>3
<1>8. \A v \in Worker, x \in Event : Working(v, x)' <=> Working(v, x)
  BY <1>3 DEF Working, Current, Row
<1>9. ASSUME MaxPass < Lease PROVE LeaseIsKept' /\ ExclusiveHandling'
  <2>1. LeaseIsKept /\ ExclusiveHandling
    BY <1>9 DEF IInv
  <2>2. ASSUME NEW v \in Worker, NEW x \in Event, Working(v, x)
        PROVE  event'[x].state = "delivering" /\ event'[x].until = Lease - worker'[v].age
    <3>1. event[x].state = "delivering" /\ event[x].until = Lease - worker[v].age
      BY <2>1, <2>2 DEF LeaseIsKept
    <3>2. /\ worker[v].age \in Nat /\ worker[v].age < MaxPass /\ worker'[v].age = worker[v].age + 1
          /\ Lease \in Nat
      BY <1>1, <1>3, <2>2, OutboxAssumption DEF Typed, Pass, Working, Busy
    <3>3. event[x].until # -MaxPass
      BY <1>1, <1>9, <3>1, <3>2
    <3>4. Sooner(event[x].until) = event[x].until - 1
      BY <3>3 DEF Sooner
    <3> QED
      BY <1>4, <3>1, <3>2, <3>4
  <2>3. LeaseIsKept'
    BY <1>8, <2>2 DEF LeaseIsKept
  <2>4. ExclusiveHandling'
    BY <1>8, <2>1 DEF ExclusiveHandling
  <2> QED
    BY <2>3, <2>4
<1>10. ASSUME ~overlap PROVE Solo'
  <2>1. Solo
    BY <1>10 DEF IInv
  <2>2. \A x \in Event :
           /\ event'[x].attempts = event[x].attempts
           /\ event[x].state # "absent" =>
                event'[x].state = event[x].state /\ event'[x].key = event[x].key
           /\ event[x].state = "absent" => event'[x].state \in {"absent", "pending"}
    BY <1>4
  <2>3. HeldIsDelivering' /\ CallsAddUp' /\ SuccessesAddUp'
    BY <1>1, <1>2, <1>3, <1>8, <2>1, <2>2, SameHands
  <2>4. Alone'
    BY <1>3, <2>1 DEF Solo, Alone, Busy
  <2>5. BatchIsCurrent'
    <3>1. \A v \in Worker : \A i \in DOMAIN worker[v].batch : worker[v].batch[i].id \in Event
      <4>1. \A v \in Worker : worker[v].batch \in Seq(BatchRow)
        BY <1>1 DEF Typed, Pass
      <4>2. \A v \in Worker : \A i \in DOMAIN worker[v].batch : worker[v].batch[i] \in BatchRow
        BY <4>1, ElementOfSeq, LenProperties
      <4> QED
        BY <4>2 DEF BatchRow
    <3> QED
      BY <1>3, <2>1, <2>2, <3>1 DEF Solo, BatchIsCurrent, Busy
  <2> QED
    BY <2>3, <2>4, <2>5 DEF Solo
<1> QED
  BY <1>2, <1>5, <1>6, <1>7, <1>9, <1>10, AllThree

(* A pass lists what is due, and overlaps another one or does not.         *)
LEMMA BeginKeeps == ASSUME IInv, NEW w \in Worker, Begin(w) PROVE IInv'
<1> DEFINE due == {e \in Event : Due(e, 0)}
           n == Cardinality(due)
<1>1. /\ Typed /\ ListedOnce /\ BatchesOK /\ BatchesListed /\ worker[w].pc = "idle"
      /\ due # {} /\ MaxPass \in Nat
  BY OutboxAssumption DEF IInv, Begin, At
<1>2. /\ event' = event /\ calls' = calls /\ handled' = handled
      /\ crashes' = crashes /\ order' = order
      /\ overlap' = (overlap \/ \E v \in Worker \ {w} : ~At(v, "idle"))
  BY DEF Begin
<1>3. n \in Nat \ {0}
  <2>1. due \in SUBSET Event /\ IsFiniteSet(Event)
    BY OutboxAssumption
  <2>2. IsFiniteSet(due)
    BY <2>1, FS_Subset
  <2> HIDE DEF due
  <2> QED
    BY <1>1, <2>2, FS_CardinalityType, FS_EmptySet
<1>4. PICK ids \in [1 .. n -> due] :
        /\ \A i, j \in DOMAIN ids : i < j => Before(ids[i], ids[j])
        /\ worker' = [worker EXCEPT ![w] =
             [pc |-> "pass", age |-> 0,
              batch |-> [i \in DOMAIN ids |-> [id |-> ids[i],
                                              attempts |-> event[ids[i]].attempts]]]]
  BY DEF Begin
<1> HIDE DEF n
<1> DEFINE b == [i \in 1 .. n |-> [id |-> ids[i], attempts |-> event[ids[i]].attempts]]
           s == [pc |-> "pass", age |-> 0, batch |-> b]
<1>5. worker' = [worker EXCEPT ![w] = s]
  BY <1>4
<1>6. \A i \in 1 .. n : /\ ids[i] \in Event /\ event[ids[i]].state \in {"pending", "delivering"}
                        /\ event[ids[i]].attempts \in 0 .. MaxAttempts - 1
  <2>1. \A e \in due : e \in Event /\ event[e].state \in {"pending", "delivering"}
    BY DEF Due
  <2>2. \A e \in due : event[e].attempts \in 0 .. MaxAttempts - 1
    <3>1. \A e \in due : RowOK(event[e])
      BY <1>1 DEF Typed
    <3> QED
      BY <2>1, <3>1, OutboxAssumption DEF RowOK, Settled
  <2> HIDE DEF due
  <2> QED
    BY <1>4, <2>1, <2>2
<1>7. \A i, j \in 1 .. n : ids[i] = ids[j] => i = j
  <2>1. \A x \in Event : ~Before(x, x)
    BY <1>1, LenProperties DEF ListedOnce, Before, Typed
  <2>2. ASSUME NEW i \in 1 .. n, NEW j \in 1 .. n, ids[i] = ids[j], i < j PROVE FALSE
    BY <1>4, <1>6, <2>1, <2>2
  <2>3. ASSUME NEW i \in 1 .. n, NEW j \in 1 .. n, ids[i] = ids[j] PROVE i = j
    <3>1. ~(i < j) /\ ~(j < i)
      BY <2>2, <2>3
    <3> QED
      BY <1>3, <3>1
  <2> QED
    BY <2>3
<1>8. /\ b \in [1 .. n -> BatchRow] /\ DOMAIN b = 1 .. n
      /\ \A i \in 1 .. n : b[i].id = ids[i] /\ b[i].attempts = event[ids[i]].attempts
  BY <1>6 DEF BatchRow
<1> HIDE DEF b, due
<1>9. b \in Seq(BatchRow) /\ b # <<>>
  <2>1. b \in Seq(BatchRow)
    BY <1>3, <1>8, SeqDef
  <2>2. 1 \in DOMAIN b /\ DOMAIN <<>> = {}
    BY <1>3, <1>8, EmptySeq
  <2> QED
    BY <2>1, <2>2
<1>10. s \in Pass /\ s.pc = "pass" /\ s.batch = b
  BY <1>1, <1>9 DEF Pass
<1> HIDE DEF s
<1>11. worker'[w] = s /\ \A v \in Worker : v # w => worker'[v] = worker[v]
  BY <1>1, <1>5 DEF Typed
<1>12. Typed' /\ ListedOnce'
  <2>1. worker' \in [Worker -> Pass]
    BY <1>1, <1>5, <1>10 DEF Typed
  <2>2. (\A x \in Event : RowOK(event[x]))'
    BY <1>1, <1>2 DEF Typed, RowOK
  <2>3. overlap' \in BOOLEAN
    BY <1>1, <1>2 DEF Typed
  <2>4. ListedOnce'
    BY <1>1, <1>2 DEF ListedOnce
  <2> QED
    BY <1>1, <1>2, <2>1, <2>2, <2>3, <2>4 DEF Typed
<1>13. BatchesOK'
  <2>1. ASSUME NEW v \in Worker, v # w
        PROVE  /\ worker'[v].pc # "idle" => worker'[v].batch # <<>>
               /\ \A i, j \in DOMAIN worker'[v].batch :
                    worker'[v].batch[i].id = worker'[v].batch[j].id => i = j
    BY <1>1, <1>11, <2>1 DEF BatchesOK, Busy
  <2>2. /\ worker'[w].batch = b /\ b # <<>>
        /\ \A i, j \in DOMAIN b : b[i].id = b[j].id => i = j
    BY <1>7, <1>8, <1>9, <1>10, <1>11
  <2> QED
    BY <2>1, <2>2 DEF BatchesOK, Busy
<1>14. BatchesListed'
  <2>1. ASSUME NEW v \in Worker, v # w
        PROVE  \A i \in DOMAIN worker'[v].batch : event'[worker'[v].batch[i].id].state # "absent"
    BY <1>1, <1>2, <1>11, <2>1 DEF BatchesListed
  <2>2. /\ worker'[w].batch = b
        /\ \A i \in DOMAIN b : event'[b[i].id].state # "absent"
    BY <1>2, <1>6, <1>8, <1>10, <1>11
  <2> QED
    BY <2>1, <2>2 DEF BatchesListed
<1>15. \A v \in Worker, x \in Event : Working(v, x)' <=> Working(v, x)
  BY <1>1, <1>10, <1>11 DEF Working, Current, Row
<1>16. \A v \in Worker, x \in Event : Working(v, x) => worker'[v] = worker[v]
  BY <1>1, <1>11 DEF Working
<1>17. ASSUME MaxPass < Lease PROVE LeaseIsKept' /\ ExclusiveHandling'
  BY <1>2, <1>15, <1>16, <1>17 DEF IInv, LeaseIsKept, ExclusiveHandling
<1>18. ASSUME ~overlap' PROVE Solo'
  <2>1. Solo /\ \A v \in Worker : v # w => worker[v].pc = "idle"
    BY <1>2, <1>18 DEF IInv, At
  <2>2. HeldIsDelivering' /\ CallsAddUp' /\ SuccessesAddUp'
    BY <1>1, <1>2, <1>15, <1>16, <2>1, SameHands
  <2>3. Alone'
    BY <1>11, <2>1 DEF Alone, Busy
  <2>4. BatchIsCurrent'
    <3>1. /\ worker'[w].batch = b
          /\ \A i \in DOMAIN b : b[i].attempts = event'[b[i].id].attempts
      BY <1>2, <1>8, <1>10, <1>11
    <3>2. \A v \in Worker : v # w => worker'[v].pc = "idle"
      BY <1>11, <2>1
    <3> QED
      BY <3>1, <3>2 DEF BatchIsCurrent, Busy
  <2> QED
    BY <2>2, <2>3, <2>4 DEF Solo
<1> QED
  BY <1>12, <1>13, <1>14, <1>17, <1>18, AllThree

(* The invariant holds at the start.                                       *)
LEMMA InitIsGood == Init => IInv
<1> SUFFICES ASSUME Init PROVE IInv
  OBVIOUS
<1>1. Off.pc = "idle" /\ Off.batch = <<>> /\ DOMAIN <<>> = {} /\ Off \in Pass
  <2>1. <<>> \in Seq(BatchRow) /\ DOMAIN <<>> = {} /\ 0 \in 0 .. MaxPass
    BY EmptySeq, OutboxAssumption
  <2> QED
    BY <2>1 DEF Off, Pass
<1>2. \A w \in Worker : worker[w] = Off /\ worker[w].pc = "idle" /\ DOMAIN worker[w].batch = {}
  BY <1>1 DEF Init
<1>3. \A e \in Event : /\ RowOK(event[e]) /\ event[e].state = "absent" /\ event[e].attempts = 0
                       /\ calls[e] = 0
  BY OutboxAssumption DEF Init, RowOK, Settled
<1>4. Typed
  <2>1. worker \in [Worker -> Pass] /\ order \in Seq(Event)
    BY <1>1, EmptySeq DEF Init
  <2>2. crashes \in 0 .. MaxCrashes
    BY OutboxAssumption DEF Init
  <2> QED
    BY <1>3, <2>1, <2>2 DEF Init, Typed
<1>5. ListedOnce /\ BatchesOK /\ BatchesListed
  BY <1>1, <1>2 DEF Init, ListedOnce, BatchesOK, BatchesListed, Busy
<1>6. \A w \in Worker, e \in Event : ~Working(w, e)
  BY <1>2 DEF Working
<1>7. LeaseIsKept /\ ExclusiveHandling
  BY <1>6 DEF LeaseIsKept, ExclusiveHandling
<1>8. Alone /\ HeldIsDelivering /\ BatchIsCurrent
  BY <1>2, <1>6 DEF Alone, HeldIsDelivering, BatchIsCurrent, Busy
<1>9. CallsAddUp
  BY <1>3 DEF CallsAddUp, Init, Unrecorded
<1>10. SuccessesAddUp
  BY <1>6 DEF SuccessesAddUp, Init
<1> QED
  BY <1>4, <1>5, <1>7, <1>8, <1>9, <1>10 DEF IInv, Solo

(* Every step keeps the invariant.                                         *)
LEMMA NextIsGood == IInv /\ [Next]_vars => IInv'
<1> SUFFICES ASSUME IInv, [Next]_vars PROVE IInv'
  OBVIOUS
<1>1. CASE Tick
  BY <1>1, TickKeeps
<1>2. ASSUME NEW e \in Event, NEW k \in Key, Enqueue(e, k) PROVE IInv'
  BY <1>2, EnqueueKeeps
<1>3. ASSUME NEW w \in Worker, Step(w) PROVE IInv'
  BY <1>3, BeginKeeps, ClaimKeeps, CheckKeeps, HandleKeeps, SettleKeeps, FailKeeps DEF Step
<1>4. ASSUME NEW w \in Worker, Crash(w) PROVE IInv'
  BY <1>4, CrashKeeps
<1>5. CASE UNCHANGED vars
  <2>1. /\ event' = event /\ order' = order /\ worker' = worker /\ calls' = calls
        /\ handled' = handled /\ overlap' = overlap /\ crashes' = crashes
    BY <1>5 DEF vars
  <2>2. Typed' /\ ListedOnce' /\ BatchesOK' /\ BatchesListed'
    BY <2>1 DEF IInv, Typed, RowOK, ListedOnce, BatchesOK, BatchesListed, Busy
  <2>3. \A w \in Worker, e \in Event : Working(w, e)' <=> Working(w, e)
    BY <2>1 DEF Working, Current, Row
  <2>4. MaxPass < Lease => LeaseIsKept' /\ ExclusiveHandling'
    BY <2>1, <2>3 DEF IInv, LeaseIsKept, ExclusiveHandling
  <2>5. ASSUME ~overlap PROVE Solo'
    <3>1. Solo /\ Typed /\ BatchesOK
      BY <2>5 DEF IInv
    <3>2. HeldIsDelivering' /\ CallsAddUp' /\ SuccessesAddUp'
      BY <2>1, <2>3, <3>1, SameHands
    <3>3. Alone' /\ BatchIsCurrent'
      BY <2>1, <3>1 DEF Solo, Alone, BatchIsCurrent, Busy
    <3> QED
      BY <3>2, <3>3 DEF Solo
  <2> QED
    BY <2>1, <2>2, <2>4, <2>5, AllThree
<1> QED
  BY <1>1, <1>2, <1>3, <1>4, <1>5 DEF Next

-----------------------------------------------------------------------------
(* The rows, the batches, the leases and the books are right at all times: *)
(* in deliverPending an event in hand is leased, and a lone worker records *)
(* each attempt and each success that the handler saw.                     *)
THEOREM OutboxInvariant == Spec => []IInv
BY InitIsGood, NextIsGood, PTL DEF Spec

(* However many workers call deliverPending, and although each claims by   *)
(* the clock that its pass read long ago, no event is in two hands as long *)
(* as passes are shorter than LEASE_MS.                                    *)
THEOREM LeasesExclude ==
  ASSUME MaxPass < Lease PROVE Spec => []ExclusiveHandling
<1>1. IInv => ExclusiveHandling
  BY DEF IInv
<1> QED
  BY <1>1, OutboxInvariant, PTL

(* Until two passes overlap, maxAttempts bounds how often the handler sees *)
(* an event, with one call more for each worker that died.                 *)
THEOREM CallsAreBounded == Spec => []CallsBounded
<1>1. IInv => CallsBounded
  <2> SUFFICES ASSUME IInv, ~overlap, NEW e \in Event
               PROVE  calls[e] <= MaxAttempts + crashes
    BY DEF CallsBounded
  <2>1. /\ Solo /\ RowOK(event[e]) /\ calls[e] \in Nat /\ crashes \in Nat
        /\ MaxAttempts \in Nat
    BY OutboxAssumption DEF IInv, Typed
  <2>2. /\ event[e].state = "delivered" => event[e].attempts < MaxAttempts
        /\ calls[e] <= event[e].attempts + crashes + (IF Unrecorded(e) THEN 1 ELSE 0)
    BY <2>1 DEF Solo, CallsAddUp
  <2>3. Unrecorded(e) => event[e].attempts < MaxAttempts
    BY <2>1, <2>2 DEF Unrecorded, Solo, HeldIsDelivering, RowOK, Settled
  <2>4. event[e].attempts \in Nat /\ event[e].attempts <= MaxAttempts
    BY <2>1 DEF RowOK
  <2> QED
    BY <2>1, <2>2, <2>3, <2>4
<1> QED
  BY <1>1, OutboxInvariant, PTL

(* Until two passes overlap, the handler succeeds once for a dedupe key,   *)
(* and once more at most for each worker that died before its UPDATE.      *)
THEOREM SuccessesAreBounded == Spec => []OneSuccessPerKey
<1>1. IInv => OneSuccessPerKey
  <2> SUFFICES ASSUME IInv, ~overlap, NEW k \in Key
               PROVE  handled[k] <= 1 + crashes
    BY DEF OneSuccessPerKey
  <2>1. handled[k] <= crashes + (IF Succeeded(k) THEN 1 ELSE 0)
    BY DEF IInv, Solo, SuccessesAddUp
  <2>2. handled[k] \in Nat /\ crashes \in Nat
    BY OutboxAssumption DEF IInv, Typed
  <2> QED
    BY <2>1, <2>2
<1> QED
  BY <1>1, OutboxInvariant, PTL

-----------------------------------------------------------------------------
(* A non-empty set of natural numbers has a least element: the form in which *)
(* the induction over retries is used here.                                *)
LEMMA LeastNat ==
  ASSUME NEW T \in SUBSET Nat, T # {} PROVE \E x \in T : \A y \in T : x <= y
<1> DEFINE Below == {ss \in Nat \X Nat : ss[1] < ss[2]}
<1>1. IsWellFoundedOn(Below, Nat)
  <2>1. OpToRel(<, Nat) = Below
    BY DEF OpToRel
  <2> QED
    BY <2>1, NatLessThanWellFounded
<1>2. PICK x \in T : \A y \in T : <<y, x>> \notin Below
  <2> HIDE DEF Below
  <2> QED
    BY <1>1, WFMin
<1>3. \A y \in T : x <= y
  <2> SUFFICES ASSUME NEW y \in T, y < x PROVE FALSE
    OBVIOUS
  <2>1. <<y, x>> \in Nat \X Nat
    OBVIOUS
  <2>2. <<y, x>>[1] < <<y, x>>[2]
    OBVIOUS
  <2>3. <<y, x>> \in Below
    BY <2>1, <2>2
  <2> QED
    BY <1>2, <2>3
<1> QED
  BY <1>3

(* The first n + 1 values of a function that doubles as Backoff does.      *)
Approx(n) == {g \in [0 .. n -> Nat \ {0}] :
                \A i \in 0 .. n : g[i] = IF i <= 1 THEN 1 ELSE 2 * g[i - 1]}

(* There are such values up to every n: the least n without them would only *)
(* need one more than its predecessor has.                                 *)
LEMMA ApproxExists == ASSUME NEW n \in Nat PROVE Approx(n) # {}
<1> DEFINE T == {m \in Nat : Approx(m) = {}}
<1>1. SUFFICES ASSUME T # {} PROVE FALSE
  OBVIOUS
<1>2. PICK x \in T : \A y \in T : x <= y
  <2>1. T \in SUBSET Nat
    OBVIOUS
  <2> HIDE DEF T
  <2> QED
    BY <1>1, <2>1, LeastNat
<1>3. CASE x = 0
  <2> DEFINE g == [i \in 0 .. 0 |-> 1]
  <2>1. g \in Approx(0)
    BY DEF Approx
  <2> QED
    BY <1>2, <1>3, <2>1
<1>4. CASE x # 0
  <2>1. x \in Nat /\ x - 1 \in Nat /\ x - 1 \notin T
    BY <1>2, <1>4
  <2>2. PICK g : g \in Approx(x - 1)
    BY <2>1
  <2>3. /\ g \in [0 .. x - 1 -> Nat \ {0}]
        /\ \A i \in 0 .. x - 1 : g[i] = IF i <= 1 THEN 1 ELSE 2 * g[i - 1]
    BY <2>2 DEF Approx
  <2> DEFINE last == IF x <= 1 THEN 1 ELSE 2 * g[x - 1]
             h == [i \in 0 .. x |-> IF i = x THEN last ELSE g[i]]
  <2>4. last \in Nat \ {0}
    <3>1. g[x - 1] \in Nat \ {0}
      BY <2>1, <2>3
    <3> QED
      BY <3>1
  <2>5. h \in [0 .. x -> Nat \ {0}]
    <3> HIDE DEF last
    <3> QED
      BY <2>1, <2>3, <2>4
  <2>6. ASSUME NEW i \in 0 .. x PROVE h[i] = IF i <= 1 THEN 1 ELSE 2 * h[i - 1]
    <3>1. CASE i = x
      BY <2>1, <3>1
    <3>2. CASE i # x
      <4>1. i \in 0 .. x - 1 /\ h[i] = g[i]
        BY <2>1, <3>2
      <4>2. i > 1 => i - 1 \in 0 .. x - 1 /\ h[i - 1] = g[i - 1]
        BY <2>1, <3>2
      <4> HIDE DEF h, last
      <4> QED
        BY <2>3, <4>1, <4>2
    <3> QED
      BY <3>1, <3>2
  <2>7. h \in Approx(x)
    <3> HIDE DEF h, last
    <3> QED
      BY <2>5, <2>6 DEF Approx
  <2> QED
    BY <1>2, <2>7
<1> QED
  BY <1>3, <1>4

(* They are the same, however far they go.                                 *)
LEMMA ApproxAgree ==
  ASSUME NEW n \in Nat, NEW m \in Nat, NEW g \in Approx(n), NEW h \in Approx(m),
         NEW i \in 0 .. n, i <= m
  PROVE  g[i] = h[i]
<1> DEFINE T == {j \in Nat : j <= n /\ j <= m /\ g[j] # h[j]}
<1>1. SUFFICES ASSUME T # {} PROVE FALSE
  OBVIOUS
<1>2. PICK x \in T : \A y \in T : x <= y
  <2>1. T \in SUBSET Nat
    OBVIOUS
  <2> HIDE DEF T
  <2> QED
    BY <1>1, <2>1, LeastNat
<1>3. x \in 0 .. n /\ x \in 0 .. m /\ g[x] # h[x]
  BY <1>2
<1>4. /\ g[x] = IF x <= 1 THEN 1 ELSE 2 * g[x - 1]
      /\ h[x] = IF x <= 1 THEN 1 ELSE 2 * h[x - 1]
  BY <1>3 DEF Approx
<1>5. x > 1 /\ x - 1 \in Nat /\ x - 1 \in T
  BY <1>3, <1>4
<1> QED
  BY <1>2, <1>5

(* Hence the recursion of Backoff has a solution, which Backoff is.        *)
LEMMA BackoffUnfolds ==
  Backoff = [n \in Nat |-> IF n <= 1 THEN 1 ELSE 2 * Backoff[n - 1]]
<1> DEFINE A(n) == CHOOSE g \in Approx(n) : TRUE
           F == [n \in Nat |-> A(n)[n]]
           P(f) == f = [n \in Nat |-> IF n <= 1 THEN 1 ELSE 2 * f[n - 1]]
<1>1. \A n \in Nat : A(n) \in Approx(n)
  BY ApproxExists
<1>2. ASSUME NEW n \in Nat PROVE F[n] = IF n <= 1 THEN 1 ELSE 2 * F[n - 1]
  <2> HIDE DEF A
  <2>1. A(n)[n] = IF n <= 1 THEN 1 ELSE 2 * A(n)[n - 1]
    <3>1. A(n) \in Approx(n) /\ n \in 0 .. n
      BY <1>1
    <3> QED
      BY <3>1 DEF Approx
  <2>2. CASE n <= 1
    BY <2>1, <2>2
  <2>3. CASE n > 1
    <3>1. n - 1 \in Nat /\ n - 1 \in 0 .. n /\ n - 1 <= n - 1
      BY <2>3
    <3>2. A(n)[n - 1] = A(n - 1)[n - 1]
      BY <1>1, <3>1, ApproxAgree
    <3> QED
      BY <2>1, <2>3, <3>1, <3>2
  <2> QED
    BY <2>2, <2>3
<1>3. P(F)
  <2> DEFINE G == [n \in Nat |-> IF n <= 1 THEN 1 ELSE 2 * F[n - 1]]
  <2>1. DOMAIN F = Nat /\ F = [n \in Nat |-> F[n]]
    OBVIOUS
  <2> HIDE DEF F
  <2>2. F = G
    BY <1>2, <2>1
  <2> QED
    BY <2>2
<1>4. Backoff = CHOOSE f : P(f)
  BY DEF Backoff
<1> HIDE DEF F, P
<1>5. P(Backoff)
  BY <1>3, <1>4
<1> QED
  BY <1>5 DEF P

(* A retry is put off by at least the first delay, and never by less than  *)
(* the retry before it.                                                    *)
LEMMA BackoffGrows ==
  ASSUME NEW n \in Nat
  PROVE  Backoff[n] \in Nat \ {0} /\ \A m \in 0 .. n : Backoff[m] <= Backoff[n]
<1> DEFINE Good(k) == Backoff[k] \in Nat \ {0} /\ \A m \in 0 .. k : Backoff[m] <= Backoff[k]
           T == {k \in Nat : ~Good(k)}
<1>1. SUFFICES ASSUME T # {} PROVE FALSE
  OBVIOUS
<1>2. PICK x \in T : \A y \in T : x <= y
  <2>1. T \in SUBSET Nat
    OBVIOUS
  <2> HIDE DEF T
  <2> QED
    BY <1>1, <2>1, LeastNat
<1>3. x \in Nat /\ ~Good(x)
  BY <1>2
<1>4. \A k \in Nat : Backoff[k] = IF k <= 1 THEN 1 ELSE 2 * Backoff[k - 1]
  BY BackoffUnfolds
<1>5. CASE x <= 1
  <2>1. \A m \in 0 .. x : m \in Nat /\ m <= 1
    BY <1>3, <1>5
  <2>2. Backoff[x] = 1 /\ \A m \in 0 .. x : Backoff[m] = 1
    BY <1>3, <1>4, <1>5, <2>1
  <2> QED
    BY <1>3, <2>2
<1>6. CASE x > 1
  <2>1. x - 1 \in Nat /\ Good(x - 1)
    BY <1>2, <1>3, <1>6
  <2>2. Backoff[x] = 2 * Backoff[x - 1]
    BY <1>3, <1>4, <1>6
  <2>3. Backoff[x] \in Nat \ {0} /\ Backoff[x - 1] <= Backoff[x]
    BY <2>1, <2>2
  <2>4. ASSUME NEW m \in 0 .. x PROVE Backoff[m] <= Backoff[x]
    <3>1. CASE m = x
      BY <2>3, <3>1
    <3>2. CASE m # x
      <4>1. m \in 0 .. x - 1 /\ m \in Nat
        BY <1>3, <3>2
      <4>2. Backoff[m] <= Backoff[x - 1]
        BY <2>1, <4>1
      <4>3. Backoff[m] \in Nat
        <5>1. m \notin T
          BY <1>2, <1>3, <4>1
        <5> QED
          BY <4>1, <5>1
      <4> QED
        BY <2>1, <2>3, <4>2, <4>3
    <3> QED
      BY <3>1, <3>2
  <2> QED
    BY <1>3, <2>3, <2>4
<1> QED
  BY <1>3, <1>5, <1>6

(* The rows of outbox_events with all their columns.                       *)
Rows == [state : {"absent", "pending", "delivering"} \cup Settled,
         key : Key \cup {None}, attempts : 0 .. MaxAttempts, next : Ahead, until : Ahead]

Table == event \in [Event -> Rows]

(* What the actions write into `next` and `until` lies in Ahead: nothing, a *)
(* lease or a retry as of the clock of the pass, and what time leaves of it. *)
LEMMA TimesAhead ==
  /\ 0 \in Ahead /\ Ahead \subseteq Int
  /\ \A t \in Ahead : Sooner(t) \in Ahead
  /\ \A age \in 0 .. MaxPass : Lease - age \in Ahead
  /\ \A age \in 0 .. MaxPass, a \in 1 .. MaxAttempts : Backoff[a] - age \in Ahead
<1> DEFINE B == Backoff[MaxAttempts]
           top == IF Lease > B THEN Lease ELSE B
<1>1. MaxAttempts \in Nat \ {0} /\ Lease \in Nat \ {0} /\ MaxPass \in Nat
  BY OutboxAssumption
<1>2. B \in Nat \ {0} /\ \A a \in 1 .. MaxAttempts : Backoff[a] \in Nat \ {0} /\ Backoff[a] <= B
  <2>1. \A a \in 1 .. MaxAttempts : a \in Nat /\ a \in 0 .. MaxAttempts
    BY <1>1
  <2> QED
    BY <1>1, <2>1, BackoffGrows
<1> HIDE DEF B
<1>3. top \in Nat \ {0} /\ Lease <= top /\ B <= top
  BY <1>1, <1>2
<1>4. Ahead = -MaxPass .. top
  BY DEF Ahead, B
<1> HIDE DEF top
<1>5. 0 \in Ahead /\ Ahead \subseteq Int
  BY <1>1, <1>3, <1>4
<1>6. \A t \in Ahead : Sooner(t) \in Ahead
  BY <1>1, <1>3, <1>4 DEF Sooner
<1>7. \A age \in 0 .. MaxPass : Lease - age \in Ahead
  BY <1>1, <1>3, <1>4
<1>8. ASSUME NEW age \in 0 .. MaxPass, NEW a \in 1 .. MaxAttempts
      PROVE  Backoff[a] - age \in Ahead
  <2> DEFINE b == Backoff[a]
  <2>1. b \in Nat \ {0} /\ b <= B
    BY <1>2
  <2> HIDE DEF b
  <2>2. b - age \in -MaxPass .. top
    BY <1>1, <1>2, <1>3, <2>1
  <2> QED
    BY <1>4, <2>2 DEF b
<1> QED
  BY <1>5, <1>6, <1>7, <1>8

(* Every write of a row writes a row, since a retry is never the last one. *)
LEMMA TableKept == IInv /\ Table /\ [Next]_vars => Table'
<1> SUFFICES ASSUME IInv, Table, [Next]_vars PROVE Table'
  OBVIOUS
<1> DEFINE States == {"absent", "pending", "delivering"} \cup Settled
<1>1. \A x \in Event : event[x] \in Rows
  BY DEF Table
<1>2. ASSUME NEW x \in Event, NEW r \in Rows, event' = [event EXCEPT ![x] = r]
      PROVE  Table'
  BY <1>2 DEF Table
<1>3. ASSUME event' = event PROVE Table'
  BY <1>3 DEF Table
<1>4. ASSUME NEW x \in Event, NEW st \in States, NEW u \in Ahead,
             event' = [event EXCEPT ![x].state = st, ![x].until = u]
      PROVE  Table'
  <2> DEFINE r == [event[x] EXCEPT !.state = st, !.until = u]
  <2>1. r \in Rows
    BY <1>1 DEF Rows
  <2>2. event' = [event EXCEPT ![x] = r]
    BY <1>4 DEF Table
  <2> HIDE DEF r
  <2> QED
    BY <1>2, <2>1, <2>2
<1>5. ASSUME NEW x \in Event, Deliver(x) PROVE Table'
  BY <1>4, <1>5, TimesAhead DEF Deliver, Settled
<1>6. ASSUME NEW w \in Worker, ~At(w, "idle")
      PROVE  /\ Current(w) \in Event /\ worker[w].age \in 0 .. MaxPass
             /\ Row(w).attempts \in 0 .. MaxAttempts - 1
  <2>1. Typed /\ BatchesOK /\ Busy(w)
    BY <1>6 DEF IInv, Busy, At
  <2>2. Current(w) \in Event /\ Row(w) \in BatchRow /\ worker[w] \in Pass
    BY <2>1, CurrentIsFirst
  <2> QED
    BY <2>2 DEF BatchRow, Pass
<1>7. CASE Tick
  <2>1. event' = [e \in Event |-> [event[e] EXCEPT
          !.next = IF event[e].state = "pending" THEN Sooner(@) ELSE @,
          !.until = IF event[e].state = "delivering" THEN Sooner(@) ELSE @]]
    BY <1>7 DEF Tick
  <2>2. ASSUME NEW e \in Event, NEW n \in Ahead, NEW u \in Ahead
        PROVE  [event[e] EXCEPT !.next = n, !.until = u] \in Rows
    BY <1>1 DEF Rows
  <2>3. \A e \in Event : event[e].next \in Ahead /\ event[e].until \in Ahead
    BY <1>1 DEF Rows
  <2>4. ASSUME NEW e \in Event PROVE event'[e] \in Rows
    <3> DEFINE n == IF event[e].state = "pending" THEN Sooner(event[e].next) ELSE event[e].next
               u == IF event[e].state = "delivering" THEN Sooner(event[e].until) ELSE event[e].until
    <3>1. n \in Ahead /\ u \in Ahead
      BY <2>3, TimesAhead
    <3>2. event'[e] = [event[e] EXCEPT !.next = n, !.until = u]
      BY <2>1
    <3> HIDE DEF n, u
    <3> QED
      BY <2>2, <3>1, <3>2
  <2> QED
    BY <2>1, <2>4 DEF Table
<1>8. ASSUME NEW e \in Event, NEW k \in Key, Enqueue(e, k) PROVE Table'
  <2> DEFINE r == [event[e] EXCEPT !.state = "pending", !.key = k]
  <2>1. r \in Rows
    BY <1>1 DEF Rows
  <2>2. event' = [event EXCEPT ![e] = r]
    BY <1>8 DEF Enqueue, Table
  <2> HIDE DEF r
  <2> QED
    BY <1>2, <2>1, <2>2
<1>9. ASSUME NEW w \in Worker, Begin(w) \/ Handle(w) \/ Crash(w) PROVE Table'
  BY <1>3, <1>9 DEF Begin, Handle, Crash
<1>10. ASSUME NEW w \in Worker, Claim(w) PROVE Table'
  <2>1. Current(w) \in Event /\ Lease - worker[w].age \in Ahead
    BY <1>6, <1>10, TimesAhead DEF Claim, At
  <2> QED
    BY <1>3, <1>4, <1>10, <2>1 DEF Claim
<1>11. ASSUME NEW w \in Worker, Check(w) PROVE Table'
  <2>1. Current(w) \in Event
    BY <1>6, <1>11 DEF Check, At
  <2> QED
    BY <1>3, <1>5, <1>11, <2>1 DEF Check
<1>12. ASSUME NEW w \in Worker, Settle(w) PROVE Table'
  <2>1. Current(w) \in Event
    BY <1>6, <1>12 DEF Settle, At
  <2> QED
    BY <1>5, <1>12, <2>1 DEF Settle
<1>13. ASSUME NEW w \in Worker, Fail(w) PROVE Table'
  <2> DEFINE e == Current(w)
             a == Row(w).attempts + 1
             n == Backoff[a] - worker[w].age
             st == IF a >= MaxAttempts THEN "dead-letter" ELSE "pending"
             r == [event[e] EXCEPT !.state = st, !.attempts = a, !.until = 0, !.next = n]
  <2>1. /\ e \in Event /\ worker[w].age \in 0 .. MaxPass
        /\ Row(w).attempts \in 0 .. MaxAttempts - 1 /\ MaxAttempts \in Nat
    BY <1>6, <1>13, OutboxAssumption DEF Fail, At
  <2>2. a \in 1 .. MaxAttempts /\ a \in 0 .. MaxAttempts
    BY <2>1
  <2>3. event' = [event EXCEPT ![e] = r]
    BY <1>13, <2>1 DEF Fail, Table
  <2> HIDE DEF a
  <2>4. n \in Ahead /\ 0 \in Ahead /\ st \in States
    BY <2>1, <2>2, TimesAhead DEF Settled
  <2> HIDE DEF n, st
  <2>5. r \in Rows
    BY <1>1, <2>1, <2>2, <2>4 DEF Rows
  <2> HIDE DEF r
  <2> QED
    BY <1>2, <2>1, <2>3, <2>5
<1>14. CASE UNCHANGED vars
  BY <1>3, <1>14 DEF vars
<1> QED
  BY <1>7, <1>8, <1>9, <1>10, <1>11, <1>12, <1>13, <1>14 DEF Next, Step

(* The table, the batches and the counters have their types: above all, no *)
(* number of retries, leases and late writes takes next_attempt_at or      *)
(* processing_until further ahead than the longest retry or LEASE_MS, nor  *)
(* attempts past maxAttempts, in whatever order passes of workers interleave. *)
THEOREM OutboxTypeCorrect == Spec => []TypeOK
<1>1. Init => Table
  BY OutboxAssumption, TimesAhead DEF Init, Table, Rows
<1>2. IInv /\ Table => TypeOK
  <2> SUFFICES ASSUME IInv, Table PROVE TypeOK
    OBVIOUS
  <2>1. ASSUME NEW w \in Worker
        PROVE  /\ worker[w].pc \in {"idle", "pass", "check", "handle", "settle", "fail"}
               /\ worker[w].age \in 0 .. MaxPass
               /\ \A i, j \in 1 .. Len(worker[w].batch) :
                    /\ worker[w].batch[i].attempts \in 0 .. MaxAttempts - 1
                    /\ worker[w].batch[i].id = worker[w].batch[j].id => i = j
    <3> DEFINE b == worker[w].batch
    <3>1. worker[w] \in Pass /\ b \in Seq(BatchRow)
      BY DEF IInv, Typed, Pass
    <3>2. DOMAIN b = 1 .. Len(b) /\ \A i \in 1 .. Len(b) : b[i] \in BatchRow
      BY <3>1, LenProperties
    <3>3. \A i, j \in DOMAIN b : b[i].id = b[j].id => i = j
      BY DEF IInv, BatchesOK
    <3>4. \A i \in 1 .. Len(b) : b[i].attempts \in 0 .. MaxAttempts - 1
      BY <3>2 DEF BatchRow
    <3> QED
      BY <3>1, <3>2, <3>3, <3>4 DEF Pass
  <2> QED
    BY <2>1 DEF IInv, Typed, Table, Rows, TypeOK
<1>3. Spec => []Table
  BY <1>1, TableKept, OutboxInvariant, PTL DEF Spec
<1> QED
  BY <1>2, <1>3, OutboxInvariant, PTL
=============================================================================
