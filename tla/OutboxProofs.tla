----------------------------- MODULE OutboxProofs -----------------------------
(***************************************************************************)
(* The send queue, for any retry policy, any number of messages and any    *)
(* way the host uses it.                                                   *)
(*                                                                         *)
(* What is in flight is Sending, or was already reported delivered         *)
(* (InFlight); only what was reported delivered says so, in the queue and  *)
(* in the snapshot (Reported), and is dropped from the queue.  A host that *)
(* reports every attempt once has nothing in flight of a delivered item    *)
(* (Prompt).  An item counts at least the failures since it was last       *)
(* started, and is given up at the last one (Tries).                       *)
(***************************************************************************)
EXTENDS Outbox, FiniteSetTheorems, TLAPS

InFlight ==
  /\ \A id \in Ids : sending[id] <= 1 /\ (sending[id] > 0 => id \in IdsOf(items) \union done)
  /\ \A i \in DOMAIN items :
       sending[items[i].id] > 0 => items[i].state \in {"Sending", "Delivered"}

Says(item) == item.state = "Delivered" \/ item.progress = 100

Reported ==
  /\ \A i \in DOMAIN items : Says(items[i]) => items[i].id \in done
  /\ \A i \in DOMAIN snapshot : Says(snapshot[i]) => snapshot[i].id \in done

Prompt ==
  ~setting.late =>
    /\ late = {}
    /\ \A i \in DOMAIN items : items[i].state = "Delivered" => sending[items[i].id] = 0

Tries ==
  /\ \A id \in Ids : failures[id] <= max_attempts
  /\ \A i \in DOMAIN items :
       /\ failures[items[i].id] <= items[i].attempts
       /\ items[i].state = "Queued" \/ sending[items[i].id] > 0
            => failures[items[i].id] < max_attempts

IInv ==
  /\ TypeOK /\ UniqueIds /\ InFlight /\ Reported /\ KeptUntilDelivered /\ Prompt /\ Tries

\* What a step may never do to a delivered item: DeliveredFinal.
StaysDelivered ==
  ~setting.late /\ restarts' = restarts =>
    \A i \in DOMAIN items : items[i].state = "Delivered" =>
      \A j \in DOMAIN items' : items'[j].id = items[i].id => items'[j].state = "Delivered"
-------------------------------------------------------------------------------
(* Sequences, the policy and powers of two.                                *)

LEMMA SeqFacts ==
  ASSUME NEW S, NEW q \in Seq(S)
  PROVE  /\ Len(q) \in Nat /\ DOMAIN q = 1 .. Len(q) /\ q \in [1 .. Len(q) -> S]
         /\ \A i \in DOMAIN q : q[i] \in S
OBVIOUS

\* A counter below its bound may be counted up.
LEMMA OneMore ==
  ASSUME NEW m \in Nat, NEW n \in 0 .. m, n < m
  PROVE  n + 1 \in 0 .. m
OBVIOUS

\* Time that passes shortens a wait.
LEMMA LessBound ==
  ASSUME NEW m \in Nat, NEW w \in 0 .. m
  PROVE  Less(w) \in 0 .. m
BY DEF Less

LEMMA IsSeq ==
  ASSUME NEW S, NEW n \in Nat, NEW q \in [1 .. n -> S]
  PROVE  q \in Seq(S)
OBVIOUS

\* A power of two counts the subsets of a set, so that it is a natural number.
LEMMA PowerOfTwo == \A n \in Nat : 2 ^ n \in Nat
<1> TAKE n \in Nat
<1>1. IsFiniteSet(1 .. n) /\ Cardinality(1 .. n) = n
  BY FS_Interval
<1>2. IsFiniteSet(SUBSET (1 .. n)) /\ Cardinality(SUBSET (1 .. n)) = 2 ^ n
  BY <1>1, FS_SUBSET, ZenonT(30)
<1> QED BY <1>2, FS_CardinalityType

\* The policy of the setting in use.
LEMMA Policy ==
  ASSUME IInv
  PROVE  /\ setting \in Settings /\ max_attempts \in Nat \ {0}
         /\ initial_delay \in Nat /\ max_delay \in Nat
BY OutboxAssumption DEF IInv, TypeOK, max_attempts, initial_delay, max_delay

\* No delay of the backoff is longer than max_delay.
LEMMA DelayBounded ==
  ASSUME IInv, NEW n \in Nat
  PROVE  Delay(n + 1) \in 0 .. max_delay
<1>1. PICK k \in Nat : k = Least(n + 1 - 1, 31)
  BY DEF Least
<1>2. PICK p \in Nat : p = 2 ^ k
  BY PowerOfTwo
<1>3. PICK d \in Nat : d = initial_delay * p
  BY Policy
<1>4. Delay(n + 1) = Least(d, max_delay)
  BY <1>1, <1>2, <1>3 DEF Delay
<1> QED BY <1>4, Policy DEF Least

\* What the policy asks for is not longer either.
LEMMA OwedBounded ==
  ASSUME IInv, NEW id
  PROVE  OwedAfter(id) \in 0 .. max_delay
BY Policy DEF OwedAfter

\* The first item with an id is the only one.
LEMMA First ==
  ASSUME IInv, NEW i \in DOMAIN items, NEW id
  PROVE  IsFirst(i, id) <=> items[i].id = id
<1>1. DOMAIN items = 1 .. Len(items) /\ Len(items) \in Nat
  BY SeqFacts DEF IInv, TypeOK
<1>2. \A j \in 1 .. i - 1 : j \in DOMAIN items /\ j # i
  BY <1>1
<1> QED BY <1>2 DEF IsFirst, IInv, UniqueIds
-------------------------------------------------------------------------------
(* Steps that change the item of one message.                              *)

LEMMA OneItemStep ==
  ASSUME IInv, NEW id \in Ids, setting' = setting, snapshot' = snapshot,
         items' = [i \in DOMAIN items |-> items'[i]],
         \A i \in DOMAIN items : /\ items'[i] \in Item /\ items'[i].id = items[i].id
                                 /\ items[i].id # id => items'[i] = items[i],
         sending' \in [Ids -> Nat], failures' \in [Ids -> Nat],
         \A x \in Ids : x # id => sending'[x] = sending[x] /\ failures'[x] = failures[x],
         done' \in {done, done \union {id}},
         sending'[id] <= 1, sending'[id] > 0 => sending[id] > 0 \/ id \in IdsOf(items),
         failures'[id] <= max_attempts, ~setting.late => late' = {},
         \A i \in DOMAIN items : items[i].id = id =>
           /\ sending'[id] > 0 => items'[i].state \in {"Sending", "Delivered"}
           /\ Says(items'[i]) => id \in done'
           /\ ~setting.late /\ items'[i].state = "Delivered" => sending'[id] = 0
           /\ ~setting.late /\ items[i].state = "Delivered" => items'[i].state = "Delivered"
           /\ failures'[id] <= items'[i].attempts
           /\ items'[i].state = "Queued" \/ sending'[id] > 0 => failures'[id] < max_attempts
  PROVE  /\ items' \in Seq(Item) /\ UniqueIds' /\ InFlight' /\ Reported' /\ KeptUntilDelivered'
         /\ Prompt' /\ Tries' /\ StaysDelivered
<1>0. /\ setting \in Settings /\ items \in Seq(Item) /\ snapshot \in Seq(Item)
      /\ sending \in [Ids -> Nat] /\ done \subseteq Ids /\ failures \in [Ids -> Nat]
  BY DEF IInv, TypeOK
<1>1. DOMAIN items = 1 .. Len(items) /\ Len(items) \in Nat /\ DOMAIN items' = DOMAIN items
      /\ \A i \in DOMAIN items : items[i] \in Item /\ items[i].id \in Ids
  <2>1. DOMAIN items = 1 .. Len(items) /\ Len(items) \in Nat /\ \A i \in DOMAIN items : items[i] \in Item
    BY <1>0, SeqFacts
  <2>2. DOMAIN items' = DOMAIN items
    OBVIOUS
  <2>3. \A i \in DOMAIN items : items[i].id \in Ids
    BY <2>1 DEF Item
  <2> QED BY <2>1, <2>2, <2>3
<1>2. items' \in Seq(Item)
  <2>1. items' \in [1 .. Len(items) -> Item]
    BY <1>1
  <2> QED BY <1>1, <2>1, IsSeq
<1>3. UniqueIds'
  <2>1. \A i, j \in DOMAIN items : items'[i].id = items'[j].id => i = j
    BY DEF IInv, UniqueIds
  <2> QED BY <1>1, <2>1, ZenonT(30) DEF IInv, UniqueIds
<1>4. Ids' = Ids /\ max_attempts' = max_attempts /\ IdsOf(items') = IdsOf(items)
  <2>1. IdsOf(items') = IdsOf(items)
    BY <1>1, ZenonT(30) DEF IdsOf
  <2> QED BY <2>1 DEF Ids, max_attempts
<1>5. InFlight'
  <2>1. \A x \in Ids : sending'[x] <= 1 /\ (sending'[x] > 0 => x \in IdsOf(items') \union done')
    BY <1>4 DEF IInv, InFlight
  <2>2. \A i \in DOMAIN items : sending'[items'[i].id] > 0 => items'[i].state \in {"Sending", "Delivered"}
    <3> TAKE i \in DOMAIN items
    <3>1. CASE items[i].id = id
      BY <3>1, ZenonT(30)
    <3>2. CASE items[i].id # id
      <4>1. sending[items[i].id] > 0 => items[i].state \in {"Sending", "Delivered"}
        BY ZenonT(30) DEF IInv, InFlight
      <4> QED BY <1>1, <3>2, <4>1, ZenonT(30)
    <3> QED BY <3>1, <3>2, ZenonT(30)
  <2> QED BY <1>1, <1>4, <2>1, <2>2 DEF InFlight
<1>6. Reported'
  <2>1. \A i \in DOMAIN items : Says(items'[i]) => items'[i].id \in done'
    BY DEF IInv, Reported
  <2>2. \A i \in DOMAIN snapshot : Says(snapshot[i]) => snapshot[i].id \in done'
    BY DEF IInv, Reported
  <2> QED BY <1>1, <2>1, <2>2 DEF Reported, Says
<1>7. KeptUntilDelivered'
  BY <1>4 DEF IInv, KeptUntilDelivered, IdsOf
<1>8. Prompt'
  <2>1. ~setting.late => \A i \in DOMAIN items : items'[i].state = "Delivered" => sending'[items'[i].id] = 0
    <3> SUFFICES ASSUME ~setting.late, NEW i \in DOMAIN items, items'[i].state = "Delivered"
                 PROVE  sending'[items'[i].id] = 0
      OBVIOUS
    <3>1. CASE items[i].id = id
      BY <3>1, ZenonT(30)
    <3>2. CASE items[i].id # id
      <4>1. items[i].state = "Delivered" => sending[items[i].id] = 0
        BY ZenonT(30) DEF IInv, Prompt
      <4> QED BY <1>1, <3>2, <4>1, ZenonT(30)
    <3> QED BY <3>1, <3>2, ZenonT(30)
  <2> QED BY <1>1, <2>1 DEF Prompt
<1>9. Tries'
  <2>1. \A x \in Ids : failures'[x] <= max_attempts
    BY DEF IInv, Tries
  <2>2. \A i \in DOMAIN items :
          /\ failures'[items'[i].id] <= items'[i].attempts
          /\ items'[i].state = "Queued" \/ sending'[items'[i].id] > 0
               => failures'[items'[i].id] < max_attempts
    <3> TAKE i \in DOMAIN items
    <3>1. CASE items[i].id = id
      BY <3>1
    <3>2. CASE items[i].id # id
      BY <1>1, <3>2, ZenonT(30) DEF IInv, Tries
    <3> QED BY <3>1, <3>2
  <2> QED BY <1>1, <1>4, <2>1, <2>2 DEF Tries
<1>10. StaysDelivered
  <2>1. \A i, j \in DOMAIN items : items'[j].id = items[i].id => i = j
    BY DEF IInv, UniqueIds
  <2> QED BY <1>1, <2>1 DEF StaysDelivered
<1> QED BY <1>2, <1>3, <1>5, <1>6, <1>7, <1>8, <1>9, <1>10

\* The types, once those of the queue are known.
LEMMA TypesStep ==
  ASSUME IInv, setting' = setting, items' \in Seq(Item), snapshot' \in Seq(Item),
         sending' \in [Ids -> Nat], late' \subseteq Ids, done' \subseteq Ids,
         owed' \in [Ids -> 0 .. max_delay], failures' \in [Ids -> Nat],
         retries' \in 0 .. MaxRetries, restarts' \in 0 .. MaxRestarts
  PROVE  TypeOK'
<1>1. Ids' = Ids /\ max_delay' = max_delay /\ MaxRetries' = MaxRetries /\ MaxRestarts' = MaxRestarts
  BY DEF Ids, max_delay, MaxRetries, MaxRestarts
<1>2. Item' = Item
  BY <1>1 DEF Item
<1> QED BY <1>1, <1>2 DEF IInv, TypeOK

\* claim_ready takes an item that is Queued, so that nothing of it is in flight.
LEMMA ClaimStep ==
  ASSUME IInv, claim_ready
  PROVE  IInv' /\ StaysDelivered
<1>0. TypeOK /\ InFlight /\ Tries /\ Prompt /\ Reported
  BY SMTT(30) DEF IInv
<1>1. PICK i \in DOMAIN items :
        /\ items[i].state = "Queued"
        /\ items' = [items EXCEPT ![i].state = "Sending", ![i].progress = Least(@, 99)]
        /\ sending' = [sending EXCEPT ![items[i].id] = @ + 1]
  BY ZenonT(30) DEF claim_ready, Ready
<1>2. /\ snapshot' = snapshot /\ late' = late /\ done' = done /\ owed' = owed
      /\ failures' = failures /\ setting' = setting /\ retries' = retries /\ restarts' = restarts
  BY DEF claim_ready, host
<1>3. \A j \in DOMAIN items : items[j] \in Item
  BY <1>0, SeqFacts DEF TypeOK
<1>4. PICK id \in Ids : id = items[i].id
  BY <1>3 DEF Item
<1>5. /\ items' = [j \in DOMAIN items |-> items'[j]]
      /\ \A j \in DOMAIN items : j # i => items'[j] = items[j]
      /\ items'[i] = [items[i] EXCEPT !.state = "Sending", !.progress = Least(items[i].progress, 99)]
  BY <1>0, <1>1, SeqFacts, ZenonT(30) DEF TypeOK
<1>6. /\ items'[i] \in Item /\ items'[i].id = id /\ items'[i].state = "Sending"
      /\ items'[i].attempts = items[i].attempts /\ items'[i].progress # 100
  <2>1. PICK item \in Item : item = items[i]
    BY <1>3
  <2>2. PICK p \in 0 .. 99 : p = Least(item.progress, 99)
    BY DEF Item, Least
  <2>3. items'[i] = [id |-> item.id, state |-> "Sending", attempts |-> item.attempts,
                     wait |-> item.wait, progress |-> p]
    BY <1>5, <2>1, <2>2, ZenonT(30) DEF Item
  <2> QED BY <1>4, <2>1, <2>3 DEF Item, States
<1>7. \A j \in DOMAIN items : items[j].id = id => j = i
  BY <1>4 DEF IInv, UniqueIds
<1>8. sending[id] = 0 /\ sending' = [sending EXCEPT ![id] = 1]
  <2>1. sending[id] \in Nat /\ ~(sending[id] > 0)
    BY <1>0, <1>1, <1>4, ZenonT(30) DEF InFlight, TypeOK
  <2>2. sending[id] = 0 /\ sending[id] + 1 = 1
    BY <2>1
  <2>3. sending' = [sending EXCEPT ![id] = sending[id] + 1]
    BY <1>1, <1>4
  <2> QED BY <2>2, <2>3
<1>9. sending' \in [Ids -> Nat] /\ sending'[id] = 1 /\ \A x \in Ids : x # id => sending'[x] = sending[x]
  BY <1>0, <1>8 DEF TypeOK
<1>10. failures[id] < max_attempts /\ failures[id] <= items[i].attempts /\ failures[id] <= max_attempts
  BY <1>0, <1>1, <1>4 DEF Tries
<1>11. id \in IdsOf(items) /\ (~setting.late => late' = {})
  BY <1>0, <1>2, <1>4 DEF IdsOf, Prompt
<1>12. \A j \in DOMAIN items : items'[j] \in Item /\ items'[j].id = items[j].id
                               /\ (items[j].id # id => items'[j] = items[j])
  BY <1>3, <1>4, <1>5, <1>6, ZenonT(30)
<1>13. \A j \in DOMAIN items : items[j].id = id =>
         /\ items'[j].state = "Sending" /\ items[j].state = "Queued" /\ ~Says(items'[j])
         /\ failures'[id] <= items'[j].attempts
  BY <1>1, <1>2, <1>6, <1>7, <1>10, ZenonT(30) DEF Says
<1>14. /\ sending'[id] <= 1 /\ failures'[id] <= max_attempts /\ failures'[id] < max_attempts
       /\ failures' \in [Ids -> Nat] /\ done' \in {done, done \union {id}}
       /\ \A x \in Ids : x # id => sending'[x] = sending[x] /\ failures'[x] = failures[x]
  BY <1>0, <1>2, <1>9, <1>10 DEF TypeOK
<1>15. /\ items' \in Seq(Item) /\ UniqueIds' /\ InFlight' /\ Reported' /\ KeptUntilDelivered'
       /\ Prompt' /\ Tries' /\ StaysDelivered
  BY <1>2, <1>5, <1>9, <1>11, <1>12, <1>13, <1>14, OneItemStep, ZenonT(60)
<1>16. TypeOK'
  BY <1>0, <1>2, <1>9, <1>15, TypesStep, ZenonT(30) DEF TypeOK
<1> QED BY <1>15, <1>16 DEF IInv

LEMMA ProgressStep ==
  ASSUME IInv, NEW id \in Ids, update_progress(id)
  PROVE  IInv' /\ StaysDelivered
<1>0. TypeOK /\ InFlight /\ Tries /\ Prompt /\ Reported
  BY DEF IInv
<1>1. PICK percent \in {0, 100}, i \in DOMAIN items :
        /\ items[i].id = id /\ items[i].state = "Sending"
        /\ items' = [items EXCEPT ![i].progress = Least(percent, 99)]
  BY ZenonT(30) DEF update_progress, IsFirst
<1>2. /\ snapshot' = snapshot /\ sending' = sending /\ late' = late /\ done' = done /\ owed' = owed
      /\ failures' = failures /\ setting' = setting /\ retries' = retries /\ restarts' = restarts
  BY DEF update_progress, host
<1>3. \A j \in DOMAIN items : items[j] \in Item
  BY <1>0, SeqFacts DEF TypeOK
<1>4. /\ items' = [j \in DOMAIN items |-> items'[j]]
      /\ \A j \in DOMAIN items : j # i => items'[j] = items[j]
      /\ items'[i] = [items[i] EXCEPT !.progress = Least(percent, 99)]
  BY <1>0, <1>1, SeqFacts, ZenonT(30) DEF TypeOK
<1>5. /\ items'[i] \in Item /\ items'[i].id = id /\ items'[i].state = "Sending"
      /\ items'[i].attempts = items[i].attempts /\ items'[i].progress # 100
  BY <1>1, <1>3, <1>4 DEF Item, Least
<1>6. \A j \in DOMAIN items : items[j].id = id => j = i
  BY <1>1 DEF IInv, UniqueIds
<1>7. \A j \in DOMAIN items : items'[j] \in Item /\ items'[j].id = items[j].id
                              /\ (items[j].id # id => items'[j] = items[j])
  BY <1>1, <1>3, <1>4, <1>5
<1>8. /\ failures[id] <= items[i].attempts /\ failures[id] <= max_attempts
      /\ sending[id] > 0 => failures[id] < max_attempts
  BY <1>0, <1>1 DEF Tries
<1>9. \A j \in DOMAIN items : items[j].id = id =>
        /\ items'[j].state = "Sending" /\ items[j].state = "Sending" /\ ~Says(items'[j])
        /\ failures'[id] <= items'[j].attempts
  BY <1>1, <1>2, <1>5, <1>6, <1>8, ZenonT(30) DEF Says
<1>10. sending[id] <= 1 /\ (~setting.late => late' = {})
  BY <1>0, <1>2 DEF InFlight, Prompt
<1>11. /\ items' \in Seq(Item) /\ UniqueIds' /\ InFlight' /\ Reported' /\ KeptUntilDelivered'
       /\ Prompt' /\ Tries' /\ StaysDelivered
  BY <1>0, <1>2, <1>4, <1>7, <1>8, <1>9, <1>10, OneItemStep, ZenonT(30) DEF TypeOK
<1>12. TypeOK'
  BY <1>0, <1>2, <1>11, TypesStep, ZenonT(30) DEF TypeOK
<1> QED BY <1>11, <1>12 DEF IInv

\* mark_delivered, for an answer in time or late.
LEMMA DeliverStep ==
  ASSUME IInv, NEW id \in Ids, Delivered(id) \/ LateAnswer(id)
  PROVE  IInv' /\ StaysDelivered
<1>0. TypeOK /\ InFlight /\ Tries /\ Prompt /\ Reported
  BY DEF IInv
<1>1. /\ items' = mark_delivered(id) /\ done' = done \union {id}
      /\ snapshot' = snapshot /\ owed' = owed /\ failures' = failures /\ setting' = setting
      /\ retries' = retries /\ restarts' = restarts
  BY DEF Delivered, LateAnswer, host
<1>2. /\ sending' \in [Ids -> Nat] /\ sending'[id] <= 1 /\ (sending'[id] > 0 => sending[id] > 0)
      /\ \A x \in Ids : x # id => sending'[x] = sending[x]
      /\ late' \subseteq Ids /\ (~setting.late => late' = {} /\ sending'[id] = 0)
  <2>1. CASE Delivered(id)
    <3>1. sending[id] \in Nat /\ sending[id] <= 1 /\ sending[id] > 0
      BY <1>0, <2>1 DEF Delivered, TypeOK, InFlight
    <3>2. sending' = [sending EXCEPT ![id] = 0]
      <4>1. sending[id] - 1 = 0
        BY <3>1
      <4> QED BY <2>1, <4>1, ZenonT(30) DEF Delivered
    <3>3. late' = late
      BY <2>1 DEF Delivered
    <3> QED BY <1>0, <3>2, <3>3 DEF TypeOK, Prompt
  <2>2. CASE LateAnswer(id)
    BY <1>0, <2>2 DEF LateAnswer, TypeOK, InFlight, Prompt
  <2> QED BY <2>1, <2>2
<1>3. \A j \in DOMAIN items : items[j] \in Item
  BY <1>0, SeqFacts DEF TypeOK
<1>4. /\ items' = [j \in DOMAIN items |-> items'[j]]
      /\ \A j \in DOMAIN items : items[j].id # id => items'[j] = items[j]
      /\ \A j \in DOMAIN items : items[j].id = id =>
           items'[j] = [items[j] EXCEPT !.state = "Delivered", !.progress = 100]
  BY <1>1, First, ZenonT(30) DEF mark_delivered
<1>5. \A j \in DOMAIN items : items[j].id = id =>
        /\ items'[j] \in Item /\ items'[j].id = id /\ items'[j].state = "Delivered"
        /\ items'[j].attempts = items[j].attempts
  <2> TAKE j \in DOMAIN items
  <2> HAVE items[j].id = id
  <2>1. PICK item \in Item : item = items[j]
    BY <1>3
  <2>2. items'[j] = [id |-> item.id, state |-> "Delivered", attempts |-> item.attempts,
                     wait |-> item.wait, progress |-> 100]
    <3>1. items'[j] = [item EXCEPT !.state = "Delivered", !.progress = 100]
      BY <1>4, <2>1, ZenonT(30)
    <3> QED BY <3>1, ZenonT(30) DEF Item
  <2> QED BY <2>1, <2>2 DEF Item, States
<1>6. \A j \in DOMAIN items : items'[j] \in Item /\ items'[j].id = items[j].id
                              /\ (items[j].id # id => items'[j] = items[j])
  BY <1>3, <1>4, <1>5, ZenonT(30)
<1>7. \A j \in DOMAIN items : items[j].id = id =>
        /\ items'[j].state = "Delivered" /\ failures'[id] <= items'[j].attempts
        /\ sending'[id] > 0 => failures'[id] < max_attempts
  BY <1>0, <1>1, <1>2, <1>5 DEF Tries
<1>8. /\ failures'[id] <= max_attempts /\ failures' \in [Ids -> Nat] /\ id \in done'
      /\ done' \in {done, done \union {id}} /\ done' \subseteq Ids
      /\ \A x \in Ids : x # id => sending'[x] = sending[x] /\ failures'[x] = failures[x]
  BY <1>0, <1>1, <1>2, SMTT(30) DEF TypeOK, Tries
<1>9. /\ items' \in Seq(Item) /\ UniqueIds' /\ InFlight' /\ Reported' /\ KeptUntilDelivered'
      /\ Prompt' /\ Tries' /\ StaysDelivered
  BY <1>1, <1>2, <1>4, <1>6, <1>7, <1>8, OneItemStep, ZenonT(30)
<1>10. TypeOK'
  BY <1>0, <1>1, <1>2, <1>8, <1>9, TypesStep, ZenonT(30) DEF TypeOK
<1> QED BY <1>9, <1>10 DEF IInv

\* mark_failed: the item waits for its next attempt or is given up.
LEMMA FailureStep ==
  ASSUME IInv, NEW id \in Ids, Failed(id) \/ TimesOut(id)
  PROVE  IInv' /\ StaysDelivered
<1>0. TypeOK /\ InFlight /\ Tries /\ Prompt /\ Reported
  BY DEF IInv
<1>1. /\ sending[id] > 0 /\ sending' = [sending EXCEPT ![id] = @ - 1] /\ items' = mark_failed(id)
      /\ failures' = [failures EXCEPT ![id] = IF id \in IdsOf(items) THEN @ + 1 ELSE @]
      /\ owed' = [owed EXCEPT ![id] = OwedAfter(id)]
      /\ done' = done /\ snapshot' = snapshot /\ setting' = setting
      /\ retries' = retries /\ restarts' = restarts
  BY DEF Failed, TimesOut, Failure, host
<1>2. /\ sending' \in [Ids -> Nat] /\ sending'[id] = 0
      /\ \A x \in Ids : x # id => sending'[x] = sending[x]
  <2>1. sending[id] \in Nat /\ sending[id] = 1
    BY <1>0, <1>1 DEF TypeOK, InFlight
  <2>2. sending' = [sending EXCEPT ![id] = 0]
    BY <1>1, <2>1
  <2> QED BY <1>0, <2>2 DEF TypeOK
<1>3. late' \subseteq Ids /\ (~setting.late => late' = {})
  BY <1>0 DEF Failed, TimesOut, TypeOK, Prompt
<1>4. \A j \in DOMAIN items : items[j] \in Item
  BY <1>0, SeqFacts DEF TypeOK
<1>5. /\ items' = [j \in DOMAIN items |-> items'[j]]
      /\ \A j \in DOMAIN items : items[j].id # id => items'[j] = items[j]
      /\ \A j \in DOMAIN items : items[j].id = id => items'[j] = FailedOnce(items[j])
  BY <1>1, First DEF mark_failed
<1>6. /\ failures' \in [Ids -> Nat] /\ failures'[id] <= max_attempts
      /\ \A x \in Ids : x # id => failures'[x] = failures[x]
      /\ \A j \in DOMAIN items : items[j].id = id => failures'[id] = failures[id] + 1
  <2>1. id \in IdsOf(items) => failures[id] < max_attempts
    BY <1>0, <1>1 DEF Tries, IdsOf
  <2>2. failures[id] \in Nat /\ failures[id] <= max_attempts /\ max_attempts \in Nat
    BY <1>0, Policy DEF TypeOK, Tries
  <2>3. \A j \in DOMAIN items : items[j].id = id => id \in IdsOf(items)
    BY DEF IdsOf
  <2> QED BY <1>0, <1>1, <2>1, <2>2, <2>3 DEF TypeOK
<1>7. \A j \in DOMAIN items : items[j].id = id =>
        /\ items'[j] \in Item /\ items'[j].id = id /\ items'[j].state # "Delivered"
        /\ items'[j].progress = items[j].progress
        /\ items'[j].attempts = items[j].attempts + 1
        /\ items'[j].state = "Queued" => items[j].attempts + 1 < max_attempts
  <2> TAKE j \in DOMAIN items
  <2> HAVE items[j].id = id
  <2>1. PICK item \in Item : item = items[j]
    BY <1>4
  <2>2. PICK n \in Nat : n = item.attempts + 1
    BY DEF Item
  <2>3. CASE n >= max_attempts
    <3>1. items'[j] = [id |-> item.id, state |-> "Failed", attempts |-> n, wait |-> 0,
                       progress |-> item.progress]
      BY <1>5, <2>1, <2>2, <2>3, ZenonT(30) DEF FailedOnce, Item
    <3> QED BY <2>1, <2>2, <3>1, Policy, SMTT(30) DEF Item, States
  <2>4. CASE ~(n >= max_attempts)
    <3>1. PICK w \in 0 .. max_delay : w = Delay(n)
      BY <2>2, DelayBounded DEF Item
    <3>2. items'[j] = [id |-> item.id, state |-> "Queued", attempts |-> n, wait |-> w,
                       progress |-> item.progress]
      BY <1>5, <2>1, <2>2, <2>4, <3>1, ZenonT(30) DEF FailedOnce, Item
    <3> QED BY <2>1, <2>2, <2>4, <3>2, Policy DEF Item, States
  <2> QED BY <2>3, <2>4
<1>8. \A j \in DOMAIN items : items'[j] \in Item /\ items'[j].id = items[j].id
                              /\ (items[j].id # id => items'[j] = items[j])
  BY <1>4, <1>5, <1>7
<1>9. \A j \in DOMAIN items : items[j].id = id =>
        /\ items'[j].state # "Delivered" /\ (Says(items'[j]) => id \in done')
        /\ ~setting.late => items[j].state # "Delivered"
        /\ failures'[id] <= items'[j].attempts
        /\ items'[j].state = "Queued" => failures'[id] < max_attempts
  <2> TAKE j \in DOMAIN items
  <2> HAVE items[j].id = id
  <2>1. items[j].attempts \in Nat /\ max_attempts \in Nat /\ failures[id] \in Nat
    BY <1>0, <1>4, Policy DEF Item, TypeOK
  <2>2. failures[id] <= items[j].attempts
    BY <1>0 DEF Tries
  <2>3. Says(items'[j]) => id \in done'
    BY <1>0, <1>1, <1>7 DEF Reported, Says
  <2>4. ~setting.late => items[j].state # "Delivered"
    BY <1>0, <1>1 DEF Prompt
  <2> QED BY <1>6, <1>7, <2>1, <2>2, <2>3, <2>4
<1>10. \A x \in Ids : x # id => sending'[x] = sending[x] /\ failures'[x] = failures[x]
  BY <1>2, <1>6
<1>11. sending'[id] <= 1 /\ ~(sending'[id] > 0) /\ done' \in {done, done \union {id}}
  <2>1. done' \in {done, done \union {id}}
    BY <1>1, ZenonT(30)
  <2>2. sending'[id] = 0
    BY <1>2, ZenonT(30)
  <2>3. sending'[id] <= 1 /\ ~(sending'[id] > 0)
    BY <2>2
  <2> QED BY <2>1, <2>3, ZenonT(30)
<1>12. /\ items' \in Seq(Item) /\ UniqueIds' /\ InFlight' /\ Reported' /\ KeptUntilDelivered'
       /\ Prompt' /\ Tries' /\ StaysDelivered
  BY <1>1, <1>2, <1>3, <1>5, <1>6, <1>8, <1>9, <1>10, <1>11, OneItemStep, ZenonT(60)
<1>13. owed' \in [Ids -> 0 .. max_delay]
  BY <1>0, <1>1, OwedBounded DEF TypeOK
<1>14. TypeOK'
  BY <1>0, <1>1, <1>2, <1>3, <1>6, <1>12, <1>13, TypesStep, ZenonT(30) DEF TypeOK
<1> QED BY <1>12, <1>14 DEF IInv

\* retry_failed: a failed item has nothing in flight, and starts over.
LEMMA RetryStep ==
  ASSUME IInv, NEW id \in Ids, retry_failed(id)
  PROVE  IInv' /\ StaysDelivered
<1>0. TypeOK /\ InFlight /\ Tries /\ Prompt /\ Reported
  BY DEF IInv
<1>1. PICK i \in DOMAIN items :
        /\ items[i].id = id /\ items[i].state = "Failed"
        /\ items' = [items EXCEPT ![i].state = "Queued", ![i].wait = 0]
  BY ZenonT(30) DEF retry_failed, IsFirst
<1>2. /\ snapshot' = snapshot /\ sending' = sending /\ late' = late /\ done' = done
      /\ owed' = [owed EXCEPT ![id] = 0] /\ failures' = [failures EXCEPT ![id] = 0]
      /\ setting' = setting /\ retries < MaxRetries /\ retries' = retries + 1 /\ restarts' = restarts
  BY DEF retry_failed
<1>3. \A j \in DOMAIN items : items[j] \in Item
  BY <1>0, SeqFacts DEF TypeOK
<1>4. /\ items' = [j \in DOMAIN items |-> items'[j]]
      /\ \A j \in DOMAIN items : j # i => items'[j] = items[j]
      /\ items'[i] = [items[i] EXCEPT !.state = "Queued", !.wait = 0]
  BY <1>0, <1>1, SeqFacts, ZenonT(30) DEF TypeOK
<1>5. /\ items'[i] \in Item /\ items'[i].id = id /\ items'[i].state = "Queued"
      /\ items'[i].attempts \in Nat /\ items'[i].progress = items[i].progress
  <2>1. PICK item \in Item : item = items[i]
    BY <1>3
  <2>2. items'[i] = [id |-> item.id, state |-> "Queued", attempts |-> item.attempts,
                     wait |-> 0, progress |-> item.progress]
    <3>1. items'[i] = [item EXCEPT !.state = "Queued", !.wait = 0]
      BY <1>4, <2>1
    <3> QED BY <3>1, ZenonT(30) DEF Item
  <2> QED BY <1>1, <2>1, <2>2, Policy DEF Item, States
<1>6. \A j \in DOMAIN items : items[j].id = id => j = i
  BY <1>1 DEF IInv, UniqueIds
<1>7. \A j \in DOMAIN items : items'[j] \in Item /\ items'[j].id = items[j].id
                              /\ (items[j].id # id => items'[j] = items[j])
  BY <1>1, <1>3, <1>4, <1>5
<1>8. /\ failures' \in [Ids -> Nat] /\ failures'[id] = 0 /\ 0 < max_attempts
      /\ \A x \in Ids : x # id => sending'[x] = sending[x] /\ failures'[x] = failures[x]
  BY <1>0, <1>2, Policy DEF TypeOK
<1>9. sending' \in [Ids -> Nat] /\ sending'[id] = 0 /\ (~setting.late => late' = {})
  <2>1. sending[id] \in Nat /\ ~(sending[id] > 0)
    BY <1>0, <1>1, ZenonT(30) DEF InFlight, TypeOK
  <2> QED BY <1>0, <1>2, <2>1 DEF TypeOK, Prompt
<1>10. \A j \in DOMAIN items : items[j].id = id =>
         /\ items[j].state = "Failed" /\ items'[j].state = "Queued"
         /\ (Says(items'[j]) => id \in done') /\ failures'[id] <= items'[j].attempts
  <2>1. Says(items'[i]) => id \in done'
    BY <1>0, <1>1, <1>2, <1>5 DEF Says, Reported
  <2>2. failures'[id] <= items'[i].attempts
    BY <1>5, <1>8
  <2> QED BY <1>1, <1>5, <1>6, <2>1, <2>2, ZenonT(30)
<1>11. failures'[id] <= max_attempts /\ done' \in {done, done \union {id}} /\ sending'[id] <= 1
       /\ ~(sending'[id] > 0) /\ failures'[id] < max_attempts
  BY <1>2, <1>8, <1>9, Policy
<1>12. /\ items' \in Seq(Item) /\ UniqueIds' /\ InFlight' /\ Reported' /\ KeptUntilDelivered'
       /\ Prompt' /\ Tries' /\ StaysDelivered
  BY <1>2, <1>4, <1>7, <1>8, <1>9, <1>10, <1>11, OneItemStep, ZenonT(30)
<1>13. owed' \in [Ids -> 0 .. max_delay] /\ retries' \in 0 .. MaxRetries
  <2>1. 0 \in 0 .. max_delay
    BY Policy
  <2>2. owed' \in [Ids -> 0 .. max_delay]
    BY <1>0, <1>2, <2>1, ZenonT(30) DEF TypeOK
  <2>3. retries \in 0 .. MaxRetries /\ retries < MaxRetries /\ MaxRetries \in Nat
    <3>1. setting \in Settings
      BY Policy, ZenonT(30)
    <3>2. MaxRetries \in Nat
      BY <3>1, OutboxAssumption DEF MaxRetries
    <3> QED BY <1>0, <1>2, <3>2, ZenonT(30) DEF TypeOK
  <2>4. retries + 1 \in 0 .. MaxRetries
    BY <2>3, OneMore, ZenonT(30)
  <2> QED BY <1>2, <2>2, <2>4, ZenonT(30)
<1>14. TypeOK'
  BY <1>0, <1>2, <1>8, <1>9, <1>12, <1>13, TypesStep, ZenonT(30) DEF TypeOK
<1> QED BY <1>12, <1>14 DEF IInv
-------------------------------------------------------------------------------
(* Steps that change the queue as a whole.                                 *)

\* enqueue: an id that is in flight is in the queue or was delivered.
LEMMA EnqueueStep ==
  ASSUME IInv, NEW id \in Ids, Enqueue(id)
  PROVE  IInv' /\ StaysDelivered
<1>0. TypeOK /\ InFlight /\ Tries /\ Prompt /\ Reported /\ UniqueIds /\ KeptUntilDelivered
  BY DEF IInv
<1>1. /\ id \notin done /\ id \notin IdsOf(items) /\ items' = Append(items, QueueItem(id))
      /\ failures' = [failures EXCEPT ![id] = 0] /\ owed' = [owed EXCEPT ![id] = 0]
      /\ snapshot' = snapshot /\ sending' = sending /\ late' = late /\ done' = done
      /\ setting' = setting /\ retries' = retries /\ restarts' = restarts
  BY DEF Enqueue, host
<1>2. PICK n \in Nat : n = Len(items)
  BY <1>0 DEF TypeOK
<1>3. PICK new \in Item : new = QueueItem(id)
  <2>1. "Queued" \in States /\ 0 \in Nat /\ 0 \in 0 .. max_delay /\ 0 \in 0 .. 100
    BY Policy DEF States
  <2> QED BY <2>1, ZenonT(30) DEF QueueItem, Item
<1>4. /\ DOMAIN items = 1 .. n /\ DOMAIN items' = 1 .. n + 1 /\ items' \in Seq(Item)
      /\ items'[n + 1] = new /\ \A i \in 1 .. n : items'[i] = items[i] /\ items[i] \in Item
  <2>1. items \in Seq(Item) /\ items' = Append(items, new)
    BY <1>0, <1>1, <1>3 DEF TypeOK
  <2>2. items' \in Seq(Item) /\ Len(items') = n + 1 /\ items'[n + 1] = new
    BY <1>2, <2>1
  <2>3. DOMAIN items = 1 .. n /\ \A i \in 1 .. n : items'[i] = items[i] /\ items[i] \in Item
    BY <1>2, <2>1
  <2>4. DOMAIN items' = 1 .. n + 1
    BY <2>2, SeqFacts
  <2> QED BY <2>2, <2>3, <2>4
<1>5. /\ new.id = id /\ new.state = "Queued" /\ new.attempts = 0 /\ new.progress = 0
      /\ \A i \in 1 .. n : items[i].id # id /\ items[i].id \in Ids
  <2>1. new.id = id /\ new.state = "Queued" /\ new.attempts = 0 /\ new.progress = 0
    BY <1>3, ZenonT(30) DEF QueueItem
  <2>2. \A i \in 1 .. n : items[i].id # id
    BY <1>1, <1>4, ZenonT(30) DEF IdsOf
  <2>3. \A i \in 1 .. n : items[i].id \in Ids
    BY <1>4 DEF Item
  <2> QED BY <2>1, <2>2, <2>3
<1>6. \A i \in 1 .. n + 1 : i \in 1 .. n \/ i = n + 1
  OBVIOUS
<1>7. UniqueIds'
  <2>1. \A i, j \in 1 .. n + 1 : items'[i].id = items'[j].id => i = j
    BY <1>0, <1>4, <1>5, <1>6 DEF UniqueIds
  <2>2. \A i, j \in DOMAIN snapshot : snapshot[i].id = snapshot[j].id => i = j
    BY <1>0 DEF UniqueIds
  <2> QED BY <1>1, <1>4, <2>1, <2>2, ZenonT(30) DEF UniqueIds
<1>8. Ids' = Ids /\ max_attempts' = max_attempts /\ IdsOf(items) \subseteq IdsOf(items')
  <2>1. IdsOf(items) \subseteq IdsOf(items')
    BY <1>4 DEF IdsOf
  <2> QED BY <1>1, <2>1 DEF Ids, max_attempts
<1>9. sending[id] \in Nat /\ ~(sending[id] > 0)
  BY <1>0, <1>1 DEF TypeOK, InFlight
<1>10. InFlight'
  <2>1. \A x \in Ids : sending'[x] <= 1 /\ (sending'[x] > 0 => x \in IdsOf(items') \union done')
    BY <1>0, <1>1, <1>8 DEF InFlight
  <2>2. \A i \in 1 .. n + 1 : sending'[items'[i].id] > 0 => items'[i].state \in {"Sending", "Delivered"}
    BY <1>0, <1>1, <1>4, <1>5, <1>6, <1>9, ZenonT(30) DEF InFlight
  <2> QED BY <1>4, <1>8, <2>1, <2>2 DEF InFlight
<1>11. Reported'
  <2>1. \A i \in 1 .. n + 1 : Says(items'[i]) => items'[i].id \in done'
    <3>1. \A i \in 1 .. n : Says(items'[i]) => items'[i].id \in done'
      BY <1>0, <1>1, <1>4, ZenonT(30) DEF Reported
    <3>2. ~Says(items'[n + 1])
      <4>1. items'[n + 1].state = "Queued" /\ items'[n + 1].progress = 0
        BY <1>4, <1>5, ZenonT(30)
      <4> QED BY <4>1 DEF Says
    <3> QED BY <1>6, <3>1, <3>2, ZenonT(30)
  <2> QED BY <1>0, <1>1, <1>4, <2>1, ZenonT(30) DEF Reported, Says
<1>12. KeptUntilDelivered'
  BY <1>0, <1>1, <1>8, ZenonT(30) DEF KeptUntilDelivered
<1>13. Prompt'
  BY <1>0, <1>1, <1>4, <1>5, <1>6, ZenonT(30) DEF Prompt
<1>14. Tries'
  <2>1. 0 < max_attempts /\ failures'[id] = 0 /\ \A x \in Ids : x # id => failures'[x] = failures[x]
    BY <1>0, <1>1, Policy DEF TypeOK
  <2>2. \A x \in Ids : failures'[x] <= max_attempts
    BY <1>0, <2>1, Policy DEF Tries
  <2>3. \A i \in 1 .. n + 1 :
          /\ failures'[items'[i].id] <= items'[i].attempts
          /\ items'[i].state = "Queued" \/ sending'[items'[i].id] > 0
               => failures'[items'[i].id] < max_attempts
    <3> TAKE i \in 1 .. n + 1
    <3>1. CASE i \in 1 .. n
      <4>1. /\ failures[items[i].id] <= items[i].attempts
            /\ items[i].state = "Queued" \/ sending[items[i].id] > 0
                 => failures[items[i].id] < max_attempts
        BY <1>0, <1>4, <3>1, ZenonT(30) DEF Tries
      <4> QED BY <1>1, <1>4, <1>5, <2>1, <3>1, <4>1, ZenonT(30)
    <3>2. CASE i = n + 1
      <4>1. items'[i].id = id /\ items'[i].attempts = 0
        BY <1>4, <1>5, <3>2, ZenonT(30)
      <4>2. failures'[id] <= 0 /\ failures'[id] < max_attempts
        BY <2>1
      <4> QED BY <4>1, <4>2, ZenonT(30)
    <3> QED BY <1>6, <3>1, <3>2, ZenonT(30)
  <2> QED BY <1>4, <1>8, <2>2, <2>3 DEF Tries
<1>15. StaysDelivered
  BY <1>0, <1>4, <1>5, <1>6, ZenonT(30) DEF StaysDelivered, UniqueIds
<1>16. failures' \in [Ids -> Nat] /\ owed' \in [Ids -> 0 .. max_delay]
  <2>1. 0 \in Nat /\ 0 \in 0 .. max_delay
    BY Policy
  <2> QED BY <1>0, <1>1, <2>1, ZenonT(30) DEF TypeOK
<1>17. TypeOK'
  BY <1>0, <1>1, <1>4, <1>16, TypesStep, ZenonT(30) DEF TypeOK
<1> QED BY <1>7, <1>10, <1>11, <1>12, <1>13, <1>14, <1>15, <1>17 DEF IInv

\* remove_delivered: what goes was reported delivered.
LEMMA RemoveStep ==
  ASSUME IInv, remove_delivered
  PROVE  IInv' /\ StaysDelivered
<1>0. TypeOK /\ InFlight /\ Tries /\ Prompt /\ Reported /\ UniqueIds /\ KeptUntilDelivered
  BY DEF IInv
<1>1. PICK n \in 0 .. Len(items) : \E at \in [1 .. n -> DOMAIN items] :
        /\ \A j, k \in 1 .. n : j < k => at[j] < at[k]
        /\ {at[k] : k \in 1 .. n} = {i \in DOMAIN items : items[i].state # "Delivered"}
        /\ items' = [k \in 1 .. n |-> items[at[k]]]
  BY ZenonT(30) DEF remove_delivered
<1>2. PICK at \in [1 .. n -> DOMAIN items] :
        /\ \A j, k \in 1 .. n : j < k => at[j] < at[k]
        /\ {at[k] : k \in 1 .. n} = {i \in DOMAIN items : items[i].state # "Delivered"}
        /\ items' = [k \in 1 .. n |-> items[at[k]]]
  BY <1>1, ZenonT(30)
<1>3. /\ snapshot' = snapshot /\ sending' = sending /\ late' = late /\ done' = done /\ owed' = owed
      /\ failures' = failures /\ setting' = setting /\ retries' = retries /\ restarts' = restarts
  BY DEF remove_delivered, host
<1>4. /\ n \in Nat /\ DOMAIN items = 1 .. Len(items) /\ Len(items) \in Nat
      /\ \A i \in DOMAIN items : items[i] \in Item /\ items[i].id \in Ids
  <2>1. DOMAIN items = 1 .. Len(items) /\ Len(items) \in Nat /\ \A i \in DOMAIN items : items[i] \in Item
    BY <1>0, SeqFacts DEF TypeOK
  <2> QED BY <2>1 DEF Item
<1>5. /\ DOMAIN items' = 1 .. n
      /\ \A k \in 1 .. n : at[k] \in DOMAIN items /\ items'[k] = items[at[k]]
  BY <1>2
<1>6. \A j, k \in 1 .. n : at[j] = at[k] => j = k
  <2>1. \A j, k \in 1 .. n : at[j] \in Nat /\ at[k] \in Nat /\ (j < k \/ k < j \/ j = k)
    BY <1>4, <1>5
  <2>2. \A j, k \in 1 .. n : j < k => at[j] < at[k]
    BY <1>2, ZenonT(30)
  <2>3. \A a, b \in Nat : a < b => a # b
    OBVIOUS
  <2> QED BY <2>1, <2>2, <2>3, ZenonT(30)
<1>7. /\ \A k \in 1 .. n : items'[k].state # "Delivered"
      /\ \A i \in DOMAIN items : items[i].state # "Delivered" => \E k \in 1 .. n : at[k] = i
  <2>1. \A k \in 1 .. n : at[k] \in {i \in DOMAIN items : items[i].state # "Delivered"}
    BY <1>2
  <2>2. \A i \in {j \in DOMAIN items : items[j].state # "Delivered"} : \E k \in 1 .. n : at[k] = i
    BY <1>2
  <2> QED BY <1>5, <2>1, <2>2
<1>8. items' \in Seq(Item)
  <2>1. items' \in [1 .. n -> Item]
    BY <1>2, <1>4, <1>5
  <2> QED BY <1>4, <2>1, IsSeq
<1>9. Ids' = Ids /\ max_attempts' = max_attempts
  BY <1>3 DEF Ids, max_attempts
<1>10. IdsOf(items) \subseteq IdsOf(items') \union done
  <2> SUFFICES ASSUME NEW i \in DOMAIN items
               PROVE  items[i].id \in IdsOf(items') \union done
    BY DEF IdsOf
  <2>1. CASE items[i].state = "Delivered"
    BY <1>0, <2>1 DEF Reported, Says
  <2>2. CASE items[i].state # "Delivered"
    <3>1. PICK k \in 1 .. n : at[k] = i
      BY <1>7, <2>2, ZenonT(30)
    <3>2. k \in DOMAIN items' /\ items'[k].id = items[i].id
      BY <1>5, <3>1, ZenonT(30)
    <3> QED BY <3>2, ZenonT(30) DEF IdsOf
  <2> QED BY <2>1, <2>2
<1>11. UniqueIds'
  <2>1. \A j, k \in 1 .. n : items'[j].id = items'[k].id => j = k
    BY <1>0, <1>5, <1>6 DEF UniqueIds
  <2>2. \A i, j \in DOMAIN snapshot : snapshot[i].id = snapshot[j].id => i = j
    BY <1>0 DEF UniqueIds
  <2> QED BY <1>3, <1>5, <2>1, <2>2 DEF UniqueIds
<1>12. InFlight'
  <2>1. \A x \in Ids : sending[x] <= 1 /\ (sending[x] > 0 => x \in IdsOf(items') \union done)
    BY <1>0, <1>10 DEF InFlight
  <2>2. \A k \in 1 .. n : sending[items'[k].id] > 0 => items'[k].state \in {"Sending", "Delivered"}
    BY <1>0, <1>5 DEF InFlight
  <2> QED BY <1>3, <1>5, <1>9, <2>1, <2>2, ZenonT(30) DEF InFlight
<1>13. Reported'
  <2>1. \A k \in 1 .. n : Says(items'[k]) => items'[k].id \in done
    BY <1>0, <1>5 DEF Reported
  <2> QED BY <1>0, <1>3, <1>5, <2>1 DEF Reported, Says
<1>14. KeptUntilDelivered'
  BY <1>0, <1>3, <1>10 DEF KeptUntilDelivered, IdsOf
<1>15. Prompt'
  BY <1>0, <1>3, <1>5, <1>7, ZenonT(30) DEF Prompt
<1>16. Tries'
  <2>1. \A k \in 1 .. n :
          /\ failures[items'[k].id] <= items'[k].attempts
          /\ items'[k].state = "Queued" \/ sending[items'[k].id] > 0
               => failures[items'[k].id] < max_attempts
    BY <1>0, <1>5 DEF Tries
  <2> QED BY <1>0, <1>3, <1>5, <1>9, <2>1, ZenonT(30) DEF Tries
<1>17. StaysDelivered
  <2>1. \A i \in DOMAIN items, k \in 1 .. n : items'[k].id = items[i].id => at[k] = i
    BY <1>0, <1>5 DEF UniqueIds
  <2>2. \A k \in 1 .. n : items[at[k]].state # "Delivered"
    BY <1>5, <1>7
  <2> QED BY <1>5, <2>1, <2>2 DEF StaysDelivered
<1>18. TypeOK'
  BY <1>0, <1>3, <1>8, TypesStep DEF TypeOK
<1> QED BY <1>11, <1>12, <1>13, <1>14, <1>15, <1>16, <1>17, <1>18 DEF IInv

\* to_json, and steps that change nothing.
LEMMA StoreStep ==
  ASSUME IInv, to_json \/ UNCHANGED vars
  PROVE  IInv' /\ StaysDelivered
<1>0. TypeOK /\ InFlight /\ Tries /\ Prompt /\ Reported /\ UniqueIds /\ KeptUntilDelivered
  BY DEF IInv
<1>1. /\ snapshot' \in {items, snapshot}
      /\ items' = items /\ sending' = sending /\ late' = late /\ done' = done /\ owed' = owed
      /\ failures' = failures /\ setting' = setting /\ retries' = retries /\ restarts' = restarts
  BY DEF to_json, host, vars
<1>2. TypeOK'
  BY <1>0, <1>1, TypesStep DEF TypeOK
<1>3. Ids' = Ids /\ max_attempts' = max_attempts /\ IdsOf(items') = IdsOf(items)
  BY <1>1 DEF Ids, max_attempts
<1>4. UniqueIds'
  BY <1>0, <1>1, ZenonT(30) DEF UniqueIds
<1>5. InFlight' /\ Prompt' /\ Tries'
  BY <1>0, <1>1, <1>3 DEF InFlight, Prompt, Tries
<1>6. Reported'
  BY <1>0, <1>1 DEF Reported, Says
<1>7. KeptUntilDelivered'
  BY <1>0, <1>1 DEF KeptUntilDelivered, IdsOf
<1>8. StaysDelivered
  BY <1>0, <1>1 DEF StaysDelivered, UniqueIds
<1> QED BY <1>2, <1>4, <1>5, <1>6, <1>7, <1>8 DEF IInv

\* from_json: the queue is the snapshot, and nothing is in flight.
LEMMA RestartStep ==
  ASSUME IInv, from_json
  PROVE  IInv' /\ StaysDelivered
<1>0. TypeOK /\ InFlight /\ Tries /\ Prompt /\ Reported /\ UniqueIds /\ KeptUntilDelivered
  BY DEF IInv
<1>1. /\ items' = snapshot /\ sending' = [id \in Ids |-> 0] /\ late' = {}
      /\ failures' = [id \in Ids |-> 0] /\ restarts < MaxRestarts /\ restarts' = restarts + 1
      /\ setting' = setting /\ snapshot' = snapshot /\ done' = done /\ retries' = retries
  BY DEF from_json
<1>2. \A i \in DOMAIN snapshot :
        /\ snapshot[i].id \in Ids /\ snapshot[i].attempts \in Nat /\ snapshot[i].wait \in 0 .. max_delay
  <2>1. \A i \in DOMAIN snapshot : snapshot[i] \in Item
    BY <1>0, SeqFacts DEF TypeOK
  <2> QED BY <2>1 DEF Item
<1>3. Ids' = Ids /\ max_attempts' = max_attempts
  BY <1>1 DEF Ids, max_attempts
<1>4. owed' \in [Ids -> 0 .. max_delay]
  <2>1. 0 \in 0 .. max_delay
    BY Policy
  <2>2. \A id \in Ids :
          (IF \E i \in DOMAIN snapshot : snapshot[i].id = id
             THEN snapshot[CHOOSE i \in DOMAIN snapshot : snapshot[i].id = id].wait
             ELSE 0) \in 0 .. max_delay
    BY <1>2, <2>1
  <2> QED BY <2>2 DEF from_json
<1>5. restarts' \in 0 .. MaxRestarts /\ restarts' # restarts
  BY <1>0, <1>1, OutboxAssumption DEF TypeOK, MaxRestarts
<1>6. sending' \in [Ids -> Nat] /\ failures' \in [Ids -> Nat]
  BY <1>1
<1>7. TypeOK'
  BY <1>0, <1>1, <1>4, <1>5, <1>6, TypesStep, ZenonT(30) DEF TypeOK
<1>8. UniqueIds' /\ Reported' /\ KeptUntilDelivered'
  BY <1>0, <1>1 DEF UniqueIds, Reported, Says, KeptUntilDelivered, IdsOf
<1>9. InFlight' /\ Prompt'
  BY <1>1, <1>2, <1>3 DEF InFlight, Prompt
<1>10. Tries'
  BY <1>1, <1>2, <1>3, Policy DEF Tries
<1>11. StaysDelivered
  BY <1>5 DEF StaysDelivered
<1> QED BY <1>7, <1>8, <1>9, <1>10, <1>11 DEF IInv

\* The clock only shortens the waits.
LEMMA TickedSeq ==
  ASSUME IInv, NEW q \in Seq(Item)
  PROVE  /\ Ticked(q) \in Seq(Item) /\ DOMAIN Ticked(q) = DOMAIN q
         /\ \A i \in DOMAIN q : /\ Ticked(q)[i].id = q[i].id /\ Ticked(q)[i].state = q[i].state
                                /\ Ticked(q)[i].attempts = q[i].attempts
                                /\ Ticked(q)[i].progress = q[i].progress
<1>1. DOMAIN q = 1 .. Len(q) /\ Len(q) \in Nat /\ \A i \in DOMAIN q : q[i] \in Item
  BY SeqFacts
<1>2. DOMAIN Ticked(q) = DOMAIN q /\ Ticked(q) = [i \in DOMAIN q |-> Ticked(q)[i]]
  BY ZenonT(30) DEF Ticked
<1>3. \A i \in DOMAIN q :
        /\ Ticked(q)[i] \in Item /\ Ticked(q)[i].id = q[i].id /\ Ticked(q)[i].state = q[i].state
        /\ Ticked(q)[i].attempts = q[i].attempts /\ Ticked(q)[i].progress = q[i].progress
  <2> TAKE i \in DOMAIN q
  <2>1. PICK item \in Item : item = q[i]
    BY <1>1
  <2>2. PICK w \in 0 .. max_delay : w = Less(item.wait)
    <3>1. max_delay \in Nat /\ item.wait \in 0 .. max_delay
      BY Policy, ZenonT(30) DEF Item
    <3> QED BY <3>1, LessBound, ZenonT(30)
  <2>3. Ticked(q)[i] = [item EXCEPT !.wait = w]
    BY <2>1, <2>2 DEF Ticked
  <2>4. Ticked(q)[i] = [id |-> item.id, state |-> item.state, attempts |-> item.attempts,
                        wait |-> w, progress |-> item.progress]
    BY <2>3, ZenonT(30) DEF Item
  <2> QED BY <2>1, <2>4 DEF Item
<1>4. Ticked(q) \in [1 .. Len(q) -> Item]
  BY <1>1, <1>2, <1>3
<1> QED BY <1>1, <1>2, <1>3, <1>4, IsSeq

LEMMA TickStep ==
  ASSUME IInv, Tick
  PROVE  IInv' /\ StaysDelivered
<1>0. /\ TypeOK /\ InFlight /\ Tries /\ Prompt /\ Reported /\ UniqueIds /\ KeptUntilDelivered
      /\ items \in Seq(Item) /\ snapshot \in Seq(Item)
  BY DEF IInv, TypeOK
<1>1. /\ items' = Ticked(items) /\ snapshot' = Ticked(snapshot)
      /\ owed' = [id \in Ids |-> Less(owed[id])]
      /\ sending' = sending /\ late' = late /\ done' = done
      /\ failures' = failures /\ setting' = setting /\ retries' = retries /\ restarts' = restarts
  BY ZenonT(30) DEF Tick, host
<1>2. /\ items' \in Seq(Item) /\ DOMAIN items' = DOMAIN items
      /\ \A i \in DOMAIN items : /\ items'[i].id = items[i].id /\ items'[i].state = items[i].state
                                 /\ items'[i].attempts = items[i].attempts
                                 /\ items'[i].progress = items[i].progress
  BY <1>0, <1>1, TickedSeq, ZenonT(30)
<1>3. /\ snapshot' \in Seq(Item) /\ DOMAIN snapshot' = DOMAIN snapshot
      /\ \A i \in DOMAIN snapshot : /\ snapshot'[i].id = snapshot[i].id
                                    /\ snapshot'[i].state = snapshot[i].state
                                    /\ snapshot'[i].progress = snapshot[i].progress
  BY <1>0, <1>1, TickedSeq
<1>4. owed' \in [Ids -> 0 .. max_delay]
  <2>1. \A id \in Ids : Less(owed[id]) \in 0 .. max_delay
    <3>1. max_delay \in Nat /\ \A id \in Ids : owed[id] \in 0 .. max_delay
      BY <1>0, Policy, ZenonT(30) DEF TypeOK
    <3> QED BY <3>1, LessBound, ZenonT(30)
  <2> QED BY <1>1, <2>1
<1>5. TypeOK'
  BY <1>0, <1>1, <1>2, <1>3, <1>4, TypesStep, ZenonT(30) DEF TypeOK
<1>6. Ids' = Ids /\ max_attempts' = max_attempts
  BY <1>1, ZenonT(30) DEF Ids, max_attempts
<1>7. IdsOf(items') = IdsOf(items) /\ IdsOf(snapshot') = IdsOf(snapshot)
  BY <1>2, <1>3 DEF IdsOf
<1>8. UniqueIds'
  <2>1. \A i, j \in DOMAIN items' : items'[i].id = items'[j].id => i = j
    BY <1>0, <1>2 DEF UniqueIds
  <2>2. \A i, j \in DOMAIN snapshot' : snapshot'[i].id = snapshot'[j].id => i = j
    BY <1>0, <1>3, ZenonT(30) DEF UniqueIds
  <2> QED BY <2>1, <2>2 DEF UniqueIds
<1>9. InFlight'
  <2>1. \A x \in Ids : sending[x] <= 1 /\ (sending[x] > 0 => x \in IdsOf(items') \union done)
    BY <1>0, <1>7 DEF InFlight
  <2>2. \A i \in DOMAIN items' : sending[items'[i].id] > 0 => items'[i].state \in {"Sending", "Delivered"}
    BY <1>0, <1>2, ZenonT(30) DEF InFlight
  <2> QED BY <1>1, <1>6, <2>1, <2>2, ZenonT(30) DEF InFlight
<1>10. Reported'
  <2>1. \A i \in DOMAIN items' : Says(items'[i]) => items'[i].id \in done
    BY <1>0, <1>2, ZenonT(30) DEF Reported, Says
  <2>2. \A i \in DOMAIN snapshot' : Says(snapshot'[i]) => snapshot'[i].id \in done
    BY <1>0, <1>3, ZenonT(30) DEF Reported, Says
  <2> QED BY <1>1, <2>1, <2>2, ZenonT(30) DEF Reported, Says
<1>11. KeptUntilDelivered'
  BY <1>0, <1>1, <1>7 DEF KeptUntilDelivered
<1>12. Prompt'
  BY <1>0, <1>1, <1>2, ZenonT(30) DEF Prompt
<1>13. Tries'
  <2>1. \A i \in DOMAIN items' :
          /\ failures[items'[i].id] <= items'[i].attempts
          /\ items'[i].state = "Queued" \/ sending[items'[i].id] > 0
               => failures[items'[i].id] < max_attempts
    BY <1>0, <1>2 DEF Tries
  <2> QED BY <1>0, <1>1, <1>6, <2>1, ZenonT(30) DEF Tries
<1>14. StaysDelivered
  BY <1>0, <1>2 DEF StaysDelivered, UniqueIds
<1> QED BY <1>5, <1>8, <1>9, <1>10, <1>11, <1>12, <1>13, <1>14 DEF IInv
-------------------------------------------------------------------------------
(* The theorems.                                                           *)

LEMMA InitInv == Init => IInv
<1> SUFFICES ASSUME Init PROVE IInv
  OBVIOUS
<1>1. /\ setting \in Settings /\ items = <<>> /\ snapshot = <<>> /\ sending = [id \in Ids |-> 0]
      /\ late = {} /\ done = {} /\ owed = [id \in Ids |-> 0] /\ failures = [id \in Ids |-> 0]
      /\ retries = 0 /\ restarts = 0
  BY DEF Init
<1>2. /\ max_attempts \in Nat \ {0} /\ max_delay \in Nat /\ MaxRetries \in Nat /\ MaxRestarts \in Nat
  BY <1>1, OutboxAssumption DEF max_attempts, max_delay, MaxRetries, MaxRestarts
<1>3. DOMAIN items = {} /\ DOMAIN snapshot = {} /\ <<>> \in Seq(Item)
  BY <1>1
<1>4. TypeOK
  BY <1>1, <1>2, <1>3 DEF TypeOK
<1>5. UniqueIds /\ Reported /\ KeptUntilDelivered
  BY <1>3 DEF UniqueIds, Reported, KeptUntilDelivered, IdsOf
<1>6. InFlight /\ Prompt
  BY <1>1, <1>3 DEF InFlight, Prompt
<1>7. Tries
  BY <1>1, <1>2, <1>3 DEF Tries
<1> QED BY <1>4, <1>5, <1>6, <1>7 DEF IInv

LEMMA Inductive == IInv /\ [Next]_vars => IInv' /\ StaysDelivered
<1> SUFFICES ASSUME IInv, [Next]_vars PROVE IInv' /\ StaysDelivered
  OBVIOUS
<1>1. ASSUME NEW id \in Ids,
             \/ Enqueue(id) \/ update_progress(id) \/ Delivered(id) \/ Failed(id)
             \/ TimesOut(id) \/ LateAnswer(id) \/ retry_failed(id)
      PROVE  IInv' /\ StaysDelivered
  BY <1>1, EnqueueStep, ProgressStep, DeliverStep, FailureStep, RetryStep, ZenonT(30)
<1>2. CASE claim_ready \/ remove_delivered \/ to_json \/ from_json \/ Tick \/ UNCHANGED vars
  BY <1>2, ClaimStep, RemoveStep, StoreStep, RestartStep, TickStep, ZenonT(30)
<1> QED BY <1>1, <1>2 DEF Next

\* The inductive invariant holds in every reachable state.
THEOREM OutboxInvariance == Spec => []IInv
BY InitInv, Inductive, PTL DEF Spec

\* claim_ready never hands out a message that is in flight, and enqueue never
\* takes an id twice, whatever the policy, the host's reports and its restarts.
THEOREM OneAttemptAtATime == Spec => []OneItemOneAttempt
<1>1. IInv => OneItemOneAttempt
  BY DEF IInv, InFlight, OneAttempt, OneItemOneAttempt
<1> QED BY <1>1, OutboxInvariance, PTL

\* remove_delivered and from_json lose no stored message that was not reported
\* delivered, progress says 100 only for one that was, and mark_failed does not
\* undo mark_delivered when every attempt is reported once.
THEOREM MessagesAreKept == Spec => NothingLost
<1>1. IInv => KeptUntilDelivered /\ FullMeansDelivered
  BY DEF IInv, Reported, Says, FullMeansDelivered
<1>2. Spec => []KeptUntilDelivered /\ []FullMeansDelivered
  BY <1>1, OutboxInvariance, PTL
<1>3. Spec => DeliveredFinal
  <2>1. IInv /\ [Next]_vars =>
          [~setting.late /\ restarts' = restarts =>
             \A i \in DOMAIN items : items[i].state = "Delivered" =>
               \A j \in DOMAIN items' :
                 items'[j].id = items[i].id => items'[j].state = "Delivered"]_vars
    BY Inductive DEF StaysDelivered
  <2> QED BY <2>1, OutboxInvariance, PTL DEF Spec, DeliveredFinal
<1> QED BY <1>2, <1>3 DEF NothingLost

\* mark_failed gives a message up after max_attempts failures at the latest.
THEOREM FailuresAreBounded == Spec => []GivesUp
<1>1. IInv => GivesUp
  BY DEF IInv, Tries, GivesUp
<1> QED BY <1>1, OutboxInvariance, PTL
===============================================================================
