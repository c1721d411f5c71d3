------------------------------- MODULE Outbox --------------------------------
(***************************************************************************)
(* The send queue of outbox.rs, and the host that drives it: the host      *)
(* enqueues messages, claims the ready one, reports how each attempt ended *)
(* and stores the JSON snapshot when it likes; a restart goes on from the  *)
(* snapshot.  A claimed attempt is in flight until the host reports it; an *)
(* attempt given up by a timeout may still be answered later.              *)
(***************************************************************************)
EXTENDS Naturals, Sequences

CONSTANTS
  AllIds,
  Settings       \* the policies and hosts the queue is used with

(***************************************************************************)
(* A setting is a RetryPolicy in clock ticks, the messages the host sends, *)
(* whether it times attempts out and reports answers that come late, and   *)
(* how often it calls retry_failed and restarts.                           *)
(***************************************************************************)
ASSUME OutboxAssumption ==
  \A s \in Settings :
    /\ s.ids \subseteq AllIds
    /\ s.max_attempts \in Nat \ {0}
    /\ s.initial_delay \in Nat /\ s.max_delay \in Nat
    /\ s.late \in BOOLEAN
    /\ s.retries \in Nat /\ s.restarts \in Nat

VARIABLES
  setting,    \* the one in use, which never changes
  items,      \* the queue, in order
  snapshot,   \* what to_json last gave the host to keep
  sending,    \* how many attempts of each message are in flight
  late,       \* messages with an attempt that timed out unanswered
  done,       \* messages ever reported delivered
  owed,       \* ticks a message still has to wait by the policy
  failures,   \* failures of a message since it was enqueued, retried or reloaded
  retries, restarts

vars == <<setting, items, snapshot, sending, late, done, owed, failures, retries, restarts>>
host == <<setting, retries, restarts>>

Ids == setting.ids
max_attempts == setting.max_attempts
initial_delay == setting.initial_delay
max_delay == setting.max_delay
MaxRetries == setting.retries
MaxRestarts == setting.restarts

States == {"Queued", "Sending", "Delivered", "Failed"}

\* next_attempt_at_ms is kept as the ticks left until then.
QueueItem(id) == [id |-> id, state |-> "Queued", attempts |-> 0, wait |-> 0, progress |-> 0]

IdsOf(q) == {q[i].id : i \in DOMAIN q}

\* The first item with the id, where there is one.
IsFirst(i, id) == items[i].id = id /\ \A j \in 1 .. i - 1 : items[j].id # id

Least(a, b) == IF a < b THEN a ELSE b

Init ==
  /\ setting \in Settings
  /\ items = <<>> /\ snapshot = <<>>
  /\ sending = [id \in Ids |-> 0]
  /\ late = {} /\ done = {}
  /\ owed = [id \in Ids |-> 0]
  /\ failures = [id \in Ids |-> 0]
  /\ retries = 0 /\ restarts = 0

(***************************************************************************)
(* enqueue refuses an id it already has.  The host names a message once:   *)
(* an id that was delivered is not used again.                             *)
(***************************************************************************)
Enqueue(id) ==
  /\ id \notin done
  /\ id \notin IdsOf(items)
  /\ items' = Append(items, QueueItem(id))
  /\ failures' = [failures EXCEPT ![id] = 0]
  /\ owed' = [owed EXCEPT ![id] = 0]
  /\ UNCHANGED <<snapshot, sending, late, done, host>>

\* Mutant: an item that is being sent is ready too.
ReadyOrSending(i) == items[i].state \in {"Queued", "Sending"} /\ items[i].wait = 0

\* Mutant: anything that is not failed and not being sent is ready.
ReadyIfDelivered(i) == items[i].state \in {"Queued", "Delivered"} /\ items[i].wait = 0

Ready(i) == items[i].state = "Queued" /\ items[i].wait = 0

claim_ready ==
  \E i \in DOMAIN items :
    /\ Ready(i)
    /\ \A j \in 1 .. i - 1 : ~Ready(j)
    /\ items' = [items EXCEPT ![i].state = "Sending", ![i].progress = Least(@, 99)]
    /\ sending' = [sending EXCEPT ![items[i].id] = @ + 1]
    /\ UNCHANGED <<snapshot, late, done, owed, failures, host>>

update_progress(id) ==
  \E percent \in {0, 100}, i \in DOMAIN items :
    /\ sending[id] > 0
    /\ IsFirst(i, id) /\ items[i].state = "Sending"
    /\ items' = [items EXCEPT ![i].progress = Least(percent, 99)]
    /\ UNCHANGED <<snapshot, sending, late, done, owed, failures, host>>

(***************************************************************************)
(* mark_delivered and mark_failed, on the queue: whatever state the item   *)
(* is in, and nothing when there is no such item.                          *)
(***************************************************************************)
mark_delivered(id) ==
  [i \in DOMAIN items |->
     IF IsFirst(i, id) THEN [items[i] EXCEPT !.state = "Delivered", !.progress = 100]
                       ELSE items[i]]

\* Mutant: the delay starts to double one failure late.
DelayLate(attempts) ==
  IF attempts < 3 THEN initial_delay
  ELSE Least(initial_delay * 2 ^ Least(attempts - 2, 31), max_delay)

Delay(attempts) == Least(initial_delay * 2 ^ Least(attempts - 1, 31), max_delay)

\* Mutant: an exhausted item is left as it is, to be failed by nobody.
FailedLeft(item) ==
  LET attempts == item.attempts + 1
  IN  IF attempts >= max_attempts
        THEN [item EXCEPT !.attempts = attempts, !.wait = 0]
        ELSE [item EXCEPT !.attempts = attempts, !.state = "Queued", !.wait = Delay(attempts)]

FailedOnce(item) ==
  LET attempts == item.attempts + 1
  IN  IF attempts >= max_attempts
        THEN [item EXCEPT !.attempts = attempts, !.state = "Failed", !.wait = 0]
        ELSE [item EXCEPT !.attempts = attempts, !.state = "Queued", !.wait = Delay(attempts)]

mark_failed(id) ==
  [i \in DOMAIN items |-> IF IsFirst(i, id) THEN FailedOnce(items[i]) ELSE items[i]]

\* What the policy asks for after the n-th failure: the initial delay,
\* doubled after every further one, up to the longest.
Doubled[n \in Nat] == IF n = 0 THEN 0 ELSE IF n = 1 THEN initial_delay ELSE 2 * Doubled[n - 1]

OwedAfter(id) ==
  LET n == {items[i].attempts + 1 : i \in {j \in DOMAIN items : IsFirst(j, id)}}
      delay == Doubled[CHOOSE k \in n : TRUE]
  IN  IF \E k \in n : k < max_attempts
        THEN IF delay \in 0 .. max_delay THEN delay ELSE max_delay
        ELSE 0

Failure(id) ==
  /\ items' = mark_failed(id)
  /\ failures' = [failures EXCEPT ![id] = IF id \in IdsOf(items) THEN @ + 1 ELSE @]
  /\ owed' = [owed EXCEPT ![id] = OwedAfter(id)]

(***************************************************************************)
(* How the host reports an attempt.                                        *)
(***************************************************************************)
Delivered(id) ==
  /\ sending[id] > 0
  /\ sending' = [sending EXCEPT ![id] = @ - 1]
  /\ items' = mark_delivered(id)
  /\ done' = done \union {id}
  /\ UNCHANGED <<snapshot, late, owed, failures, host>>

Failed(id) ==
  /\ sending[id] > 0
  /\ sending' = [sending EXCEPT ![id] = @ - 1]
  /\ Failure(id)
  /\ UNCHANGED <<snapshot, late, done, host>>

TimesOut(id) ==
  /\ setting.late
  /\ sending[id] > 0
  /\ sending' = [sending EXCEPT ![id] = @ - 1]
  /\ late' = late \union {id}
  /\ Failure(id)
  /\ UNCHANGED <<snapshot, done, host>>

LateAnswer(id) ==
  /\ id \in late
  /\ late' = late \ {id}
  /\ items' = mark_delivered(id)
  /\ done' = done \union {id}
  /\ UNCHANGED <<snapshot, sending, owed, failures, host>>

retry_failed(id) ==
  \E i \in DOMAIN items :
    /\ retries < MaxRetries
    /\ retries' = retries + 1
    /\ IsFirst(i, id) /\ items[i].state = "Failed"
    /\ items' = [items EXCEPT ![i].state = "Queued", ![i].wait = 0]
    /\ failures' = [failures EXCEPT ![id] = 0]
    /\ owed' = [owed EXCEPT ![id] = 0]
    /\ UNCHANGED <<snapshot, sending, late, done, setting, restarts>>

(***************************************************************************)
(* remove_delivered: the items that stay, in their order.                  *)
(***************************************************************************)
remove_delivered ==
  /\ \E n \in 0 .. Len(items) : \E at \in [1 .. n -> DOMAIN items] :
       /\ \A j, k \in 1 .. n : j < k => at[j] < at[k]
       /\ {at[k] : k \in 1 .. n} = {i \in DOMAIN items : items[i].state # "Delivered"}
       /\ items' = [k \in 1 .. n |-> items[at[k]]]
  /\ UNCHANGED <<snapshot, sending, late, done, owed, failures, host>>

(***************************************************************************)
(* to_json, and from_json in a new process.  Attempts in flight die with   *)
(* the old one; an item saved as Sending stays so.  Snapshots are modelled *)
(* while a restart may still load them.                                    *)
(***************************************************************************)
to_json ==
  /\ restarts < MaxRestarts
  /\ snapshot' = items
  /\ UNCHANGED <<items, sending, late, done, owed, failures, host>>

from_json ==
  /\ restarts < MaxRestarts
  /\ restarts' = restarts + 1
  /\ items' = snapshot
  /\ sending' = [id \in Ids |-> 0]
  /\ late' = {}
  /\ failures' = [id \in Ids |-> 0]
  /\ owed' = [id \in Ids |->
                IF \E i \in DOMAIN snapshot : snapshot[i].id = id
                  THEN snapshot[CHOOSE i \in DOMAIN snapshot : snapshot[i].id = id].wait
                  ELSE 0]
  /\ UNCHANGED <<setting, snapshot, done, retries>>

(***************************************************************************)
(* A tick of the wall clock, which a stored next_attempt_at_ms follows.    *)
(***************************************************************************)
Less(n) == IF n = 0 THEN 0 ELSE n - 1
Ticked(q) == [i \in DOMAIN q |-> [q[i] EXCEPT !.wait = Less(@)]]

Tick ==
  /\ items' = Ticked(items)
  /\ snapshot' = Ticked(snapshot)
  /\ owed' = [id \in Ids |-> Less(owed[id])]
  /\ UNCHANGED <<sending, late, done, failures, host>>

Report(id) == Delivered(id) \/ Failed(id) \/ TimesOut(id)

Next ==
  \/ \E id \in Ids :
       \/ Enqueue(id) \/ update_progress(id) \/ Delivered(id) \/ Failed(id)
       \/ TimesOut(id) \/ LateAnswer(id) \/ retry_failed(id)
  \/ claim_ready \/ remove_delivered \/ to_json \/ from_json \/ Tick

Spec == Init /\ [][Next]_vars

(***************************************************************************)
(* The clock runs, a host with something to send claims, and every attempt *)
(* ends.                                                                   *)
(***************************************************************************)
FairSpec ==
  /\ Spec
  /\ WF_vars(Tick) /\ WF_vars(claim_ready)
  /\ \A id \in AllIds : WF_vars(id \in Ids /\ Report(id))

-----------------------------------------------------------------------------
(***************************************************************************)
(* Types; no delay is longer than max_delay.                               *)
(***************************************************************************)
Item == [id : Ids, state : States, attempts : Nat,
         wait : 0 .. max_delay, progress : 0 .. 100]

TypeOK ==
  /\ setting \in Settings
  /\ items \in Seq(Item) /\ snapshot \in Seq(Item)
  /\ sending \in [Ids -> Nat]
  /\ late \subseteq Ids /\ done \subseteq Ids
  /\ owed \in [Ids -> 0 .. max_delay]
  /\ failures \in [Ids -> Nat]
  /\ retries \in 0 .. MaxRetries /\ restarts \in 0 .. MaxRestarts

(***************************************************************************)
(* A message is sent by one attempt at a time, through timeouts, retries   *)
(* by hand and restarts: claim_ready never hands out what is in flight.    *)
(***************************************************************************)
OneAttempt == \A id \in Ids : sending[id] <= 1

(***************************************************************************)
(* What the host has stored is not lost: every message of the snapshot is  *)
(* in the queue until it has been reported delivered.                      *)
(***************************************************************************)
KeptUntilDelivered == IdsOf(snapshot) \subseteq IdsOf(items) \union done

(***************************************************************************)
(* The operations find an item by the first match of its id: no id is      *)
(* there twice, in the queue or in what a restart will load.               *)
(***************************************************************************)
UniqueIds ==
  \A q \in {items, snapshot} : \A i, j \in DOMAIN q : q[i].id = q[j].id => i = j

(***************************************************************************)
(* No attempt starts before the policy's delay, doubled after each failure *)
(* up to the longest, has passed, a restart included.                      *)
(***************************************************************************)
BackoffKept == \A id \in Ids : sending[id] > 0 => owed[id] = 0

(***************************************************************************)
(* After max_attempts failures the queue gives up by itself.               *)
(***************************************************************************)
GivesUp == \A id \in Ids : failures[id] <= max_attempts

(***************************************************************************)
(* The queue shows 100 percent only for a message that was delivered.      *)
(***************************************************************************)
FullMeansDelivered ==
  \A i \in DOMAIN items : items[i].progress = 100 => items[i].id \in done

(***************************************************************************)
(* When every attempt is reported once, a delivered item stays delivered   *)
(* until it is removed or the process restarts from an older snapshot.     *)
(***************************************************************************)
DeliveredFinal ==
  [][~setting.late /\ restarts' = restarts =>
       \A i \in DOMAIN items : items[i].state = "Delivered" =>
         \A j \in DOMAIN items' : items'[j].id = items[i].id => items'[j].state = "Delivered"]_vars

(***************************************************************************)
(* Every message in the queue is delivered or given up, unless the process *)
(* restarts: an item that was stored as Sending is then claimed by nobody. *)
(***************************************************************************)
Decided(id) == \A i \in DOMAIN items : items[i].id = id => items[i].state \in {"Delivered", "Failed"}

DecidedEventually ==
  \A id \in AllIds : (id \in IdsOf(items)) ~> (Decided(id) \/ restarts > 0)

(***************************************************************************)
(* The variables keep their types, and a message has one item in the queue *)
(* and one attempt under way.                                              *)
(***************************************************************************)
OneItemOneAttempt == TypeOK /\ UniqueIds /\ OneAttempt

(***************************************************************************)
(* The queue keeps a message until it is delivered, and says that it is,   *)
(* by state or by progress, only then and for good.                        *)
(***************************************************************************)
NothingLost == []KeptUntilDelivered /\ []FullMeansDelivered /\ DeliveredFinal

(***************************************************************************)
(* Attempts are as far apart and as many as the retry policy says.         *)
(***************************************************************************)
AttemptsPaced == BackoffKept /\ GivesUp
=============================================================================
