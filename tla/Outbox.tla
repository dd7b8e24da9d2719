------------------------------- MODULE Outbox -------------------------------
(***************************************************************************)
(* The delivery queue of server/control-plane/outbox.ts: events, and       *)
(* workers that run deliverPending over them in several processes.         *)
(*                                                                         *)
(* Times are kept relative to the present: `next` and `until` say how far  *)
(* next_attempt_at and processing_until lie ahead, and `age` how long ago  *)
(* a worker read the clock. deliverPending reads it once per pass, so all  *)
(* its comparisons are made as of `age` ago. Values that no comparison can *)
(* tell apart are cut off at -MaxPass.                                     *)
(***************************************************************************)
EXTENDS Integers, Sequences, FiniteSets

CONSTANTS Event,       \* row ids
          Key,         \* dedupe keys
          Worker,      \* processes calling deliverPending
          None,
          MaxAttempts, \* options.maxAttempts
          Lease,       \* LEASE_MS, in units of the first retry delay
          MaxPass,     \* bound on how long a pass over a batch takes
          MaxCrashes   \* bound on workers dying in a pass

ASSUME OutboxAssumption ==
  /\ MaxAttempts \in Nat \ {0} /\ Lease \in Nat \ {0}
  /\ MaxPass \in Nat /\ MaxCrashes \in Nat
  /\ None \notin Key /\ IsFiniteSet(Event)

VARIABLES event,   \* outbox_events
          order,   \* ids in the order of created_at
          worker,  \* each worker's pass: the rows it selected, its clock
          calls,   \* history: handler invocations per event
          handled, \* history: handler successes per dedupe key
          overlap, \* history: two passes have been under way at a time
          crashes  \* how much of MaxCrashes has been used

vars == <<event, order, worker, calls, handled, overlap, crashes>>

Settled == {"delivered", "dead-letter"}

(* retryAt - now after the n-th failed attempt.                            *)
Backoff[n \in Nat] == IF n <= 1 THEN 1 ELSE 2 * Backoff[n - 1]

Ahead == -MaxPass .. (IF Lease > Backoff[MaxAttempts] THEN Lease ELSE Backoff[MaxAttempts])

Off == [pc |-> "idle", batch |-> <<>>, age |-> 0]

(* Types; and a worker's batch never names an event twice.                 *)
TypeOK ==
  /\ event \in [Event -> [state : {"absent", "pending", "delivering"} \cup Settled,
                          key : Key \cup {None}, attempts : 0 .. MaxAttempts,
                          next : Ahead, until : Ahead]]
  /\ order \in Seq(Event)
  /\ \A w \in Worker :
       /\ worker[w].pc \in {"idle", "pass", "check", "handle", "settle", "fail"}
       /\ worker[w].age \in 0 .. MaxPass
       /\ \A i, j \in 1 .. Len(worker[w].batch) :
            /\ worker[w].batch[i].attempts \in 0 .. MaxAttempts - 1
            /\ worker[w].batch[i].id = worker[w].batch[j].id => i = j
  /\ calls \in [Event -> Nat] /\ handled \in [Key -> Nat]
  /\ overlap \in BOOLEAN /\ crashes \in 0 .. MaxCrashes

Init ==
  /\ event = [e \in Event |-> [state |-> "absent", key |-> None, attempts |-> 0,
                               next |-> 0, until |-> 0]]
  /\ order = <<>>
  /\ worker = [w \in Worker |-> Off]
  /\ calls = [e \in Event |-> 0] /\ handled = [k \in Key |-> 0]
  /\ overlap = FALSE /\ crashes = 0

-----------------------------------------------------------------------------
At(w, label) == worker[w].pc = label
Goto(w, label) == worker' = [worker EXCEPT ![w].pc = label]
Row(w) == Head(worker[w].batch)
Current(w) == Row(w).id

(* On to the next row of the batch.                                        *)
NextRow(w) ==
  worker' = [worker EXCEPT ![w] =
    IF Len(@.batch) = 1 THEN Off
    ELSE [pc |-> "pass", batch |-> Tail(@.batch), age |-> @.age]]

(* enqueueEvent                                                            *)
Enqueue(e, k) ==
  /\ event[e].state = "absent"
  /\ event' = [event EXCEPT ![e].state = "pending", ![e].key = k]
  /\ order' = Append(order, e)
  /\ UNCHANGED <<worker, calls, handled, overlap, crashes>>

Due_pendingOnly(e, age) == event[e].state = "pending" /\ event[e].next <= -age

(* The WHERE clause of both the SELECT and the claiming UPDATE, for a      *)
(* clock that was read `age` ago.                                          *)
Due(e, age) ==
  \/ event[e].state = "pending" /\ event[e].next <= -age
  \/ event[e].state = "delivering" /\ event[e].until <= -age

Before(d, e) == \E i, j \in DOMAIN order : i < j /\ order[i] = d /\ order[j] = e

(* The SELECT at the head of deliverPending: what is due, oldest first.    *)
Begin(w) ==
  LET due == {e \in Event : Due(e, 0)} IN
  /\ At(w, "idle") /\ due # {}
  /\ \E ids \in [1 .. Cardinality(due) -> due] :
       /\ \A i, j \in DOMAIN ids : i < j => Before(ids[i], ids[j])
       /\ worker' = [worker EXCEPT ![w] =
            [pc |-> "pass", age |-> 0,
             batch |-> [i \in DOMAIN ids |-> [id |-> ids[i],
                                             attempts |-> event[ids[i]].attempts]]]]
  /\ overlap' = (overlap \/ \E v \in Worker \ {w} : ~At(v, "idle"))
  /\ UNCHANGED <<event, order, calls, handled, crashes>>

Claim_unconditional(w) ==
  LET e == Current(w) IN
  /\ At(w, "pass")
  /\ event' = [event EXCEPT ![e].state = "delivering",
                            ![e].until = Lease - worker[w].age]
  /\ Goto(w, "check")
  /\ UNCHANGED <<order, calls, handled, overlap, crashes>>

(* The conditional UPDATE; a row somebody else has is skipped.             *)
Claim(w) ==
  LET e == Current(w) IN
  /\ At(w, "pass")
  /\ \/ /\ Due(e, worker[w].age)
        /\ event' = [event EXCEPT ![e].state = "delivering",
                                  ![e].until = Lease - worker[w].age]
        /\ Goto(w, "check")
     \/ /\ ~Due(e, worker[w].age)
        /\ NextRow(w) /\ UNCHANGED event
  /\ UNCHANGED <<order, calls, handled, overlap, crashes>>

Deliver(e) == event' = [event EXCEPT ![e].state = "delivered", ![e].until = 0]

Check_never(w) ==
  At(w, "check") /\ Goto(w, "handle") /\ UNCHANGED <<event, order, calls, handled, overlap, crashes>>

(* An event whose key another event has delivered is not handled.          *)
Check(w) ==
  LET e == Current(w)
      prior == {d \in Event \ {e} : /\ event[d].key = event[e].key
                                    /\ event[d].state = "delivered"}
  IN
  /\ At(w, "check")
  /\ \/ prior # {} /\ Deliver(e) /\ NextRow(w)
     \/ prior = {} /\ Goto(w, "handle") /\ UNCHANGED event
  /\ UNCHANGED <<order, calls, handled, overlap, crashes>>

(* The awaited handler, some time later.                                   *)
Handle(w) ==
  LET e == Current(w) IN
  /\ At(w, "handle")
  /\ calls' = [calls EXCEPT ![e] = @ + 1]
  /\ \/ Goto(w, "settle") /\ handled' = [handled EXCEPT ![event[e].key] = @ + 1]
     \/ Goto(w, "fail") /\ UNCHANGED handled
  /\ UNCHANGED <<event, order, overlap, crashes>>

(* Both outcomes are written by id, whoever has the row by now.            *)
Settle(w) ==
  /\ At(w, "settle")
  /\ Deliver(Current(w)) /\ NextRow(w)
  /\ UNCHANGED <<order, calls, handled, overlap, crashes>>

Fail_keepsAttempts(w) ==
  LET e == Current(w) IN
  /\ At(w, "fail")
  /\ event' = [event EXCEPT ![e].state = "pending", ![e].until = 0,
                            ![e].next = Backoff[1] - worker[w].age]
  /\ NextRow(w)
  /\ UNCHANGED <<order, calls, handled, overlap, crashes>>

Fail_oneMore(w) ==
  LET e == Current(w)
      attempts == Row(w).attempts + 1 IN
  /\ At(w, "fail")
  /\ event' = [event EXCEPT
       ![e].state = IF attempts > MaxAttempts THEN "dead-letter" ELSE "pending",
       ![e].attempts = attempts, ![e].until = 0,
       ![e].next = Backoff[attempts] - worker[w].age]
  /\ NextRow(w)
  /\ UNCHANGED <<order, calls, handled, overlap, crashes>>

Fail(w) ==
  LET e == Current(w)
      attempts == Row(w).attempts + 1 IN
  /\ At(w, "fail")
  /\ event' = [event EXCEPT
       ![e].state = IF attempts >= MaxAttempts THEN "dead-letter" ELSE "pending",
       ![e].attempts = attempts, ![e].until = 0,
       ![e].next = Backoff[attempts] - worker[w].age]
  /\ NextRow(w)
  /\ UNCHANGED <<order, calls, handled, overlap, crashes>>

Crash(w) ==
  /\ ~At(w, "idle") /\ crashes < MaxCrashes
  /\ worker' = [worker EXCEPT ![w] = Off]
  /\ crashes' = crashes + 1
  /\ UNCHANGED <<event, order, calls, handled, overlap>>

Sooner(t) == IF t = -MaxPass THEN t ELSE t - 1

(* Time passes; no pass takes longer than MaxPass.                         *)
Tick ==
  /\ \A w \in Worker : ~At(w, "idle") => worker[w].age < MaxPass
  /\ worker' = [w \in Worker |-> IF At(w, "idle") THEN worker[w]
                                 ELSE [worker[w] EXCEPT !.age = @ + 1]]
  /\ event' = [e \in Event |-> [event[e] EXCEPT
       !.next = IF event[e].state = "pending" THEN Sooner(@) ELSE @,
       !.until = IF event[e].state = "delivering" THEN Sooner(@) ELSE @]]
  /\ UNCHANGED <<order, calls, handled, overlap, crashes>>

Step(w) == \/ Begin(w) \/ Claim(w) \/ Check(w) \/ Handle(w)
           \/ Settle(w) \/ Fail(w)

Next ==
  \/ Tick
  \/ \E e \in Event, k \in Key : Enqueue(e, k)
  \/ \E w \in Worker : Step(w) \/ Crash(w)

Spec == Init /\ [][Next]_vars

(* deliverPending is called again and again, handlers return, time passes. *)
FairSpec == Spec /\ WF_vars(Tick) /\ \A w \in Worker : WF_vars(Step(w))

-----------------------------------------------------------------------------
Working(w, e) == /\ worker[w].pc \in {"check", "handle", "settle", "fail"}
                 /\ Current(w) = e

(* While no pass outlives its lease, no event is in two workers' hands.    *)
(* The claim must hold against the clock each worker read long before.     *)
ExclusiveHandling ==
  \A v, w \in Worker, e \in Event : Working(v, e) /\ Working(w, e) => v = w

(* As long as no two passes have overlapped, the handler sees an event at  *)
(* most MaxAttempts times, and once more for each worker that died.        *)
CallsBounded == ~overlap => \A e \in Event : calls[e] <= MaxAttempts + crashes

(* Nor has it then succeeded twice for a dedupe key, except when a worker  *)
(* died between the handler and the UPDATE.                                *)
OneSuccessPerKey == ~overlap => \A k \in Key : handled[k] <= 1 + crashes

(* Every event is delivered or ends as a dead letter, for good.            *)
EveryEventSettles ==
  \A e \in Event : (event[e].state # "absent") ~> [](event[e].state \in Settled)

(* design.md: "bounded exponential retries".                              *)
RetriesBounded == \A e \in Event : calls[e] <= MaxAttempts + crashes

(* design.md: "a visible `dead-letter` terminal state".                    *)
DeadLetterIsTerminal ==
  [][\A e \in Event : event[e].state = "dead-letter" =>
       event'[e].state = "dead-letter"]_vars
=============================================================================
