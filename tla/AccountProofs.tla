---------------------------- MODULE AccountProofs -----------------------------
(***************************************************************************)
(* The account, for any number of calls, tokens, connections and attempts. *)
(*                                                                         *)
(* connect_lock is held from the second look at current until the new      *)
(* client is installed, and all that time current is not live (Locked).    *)
(* The generations of installed clients are all different and only grow,   *)
(* and the current one is newer than the last change of credentials        *)
(* (Generations).  After close, a call that has sent its request is on its *)
(* way to the closed check at the head of the loop (Late).                 *)
(***************************************************************************)
EXTENDS Account, TLAPS

Locked ==
  /\ \A r \in Requests : pc[r] \in {"connect", "auth"} <=> lock = r
  /\ \A r \in Requests : pc[r] = "auth" => mine[r] # 0 /\ generation < clients
  /\ lock # Free => ~Live(current)

\* The tasks that hold a client which has been installed.
Using == {"send", "wait", "invalidate"}

Newer(k, r) == floor[r] = 0 \/ genOf[k] > floor[r]

Generations ==
  /\ \A j, k \in Clients : genOf[j] = genOf[k] /\ genOf[j] # 0 => j = k
  /\ current # 0 => genOf[current] # 0 /\ \A r \in Requests : Newer(current, r)
  /\ \A r \in Requests : pc[r] \in Using => mine[r] # 0 /\ genOf[mine[r]] # 0 /\ Newer(mine[r], r)

\* Where a call may be that has sent its request after close.
AfterSend == {"wait", "invalidate", "drop_failed", "retry", "check", "ok", "error", "dropped"}

Late == \A r \in Requests : late[r] # 0 => late[r] = 1 /\ closed /\ pc[r] \in AfterSend

\* The server has executed a command once for the one nonce it has.
Effects ==
  /\ \A m \in inflight : m[3] = Nonce(m[1])
  /\ \A r \in Requests : effects[r] = IF Nonce(r) \in seen THEN 1 ELSE 0

IInv ==
  /\ TypeOK /\ attempt \in [Requests -> Nat]
  /\ Locked /\ Generations /\ Late /\ Effects

\* The types of what the account and the tasks share.
SharedTypes ==
  /\ pc \in [Tasks -> States] /\ mine \in [Tasks -> 0 .. clients] /\ lock \in Tasks
  /\ clients \in 0 .. MaxClients /\ current \in 0 .. clients /\ open \subseteq 1 .. clients
  /\ generation \in 0 .. clients
  /\ genOf \in [Clients -> 0 .. generation] /\ floor \in [Requests -> 0 .. generation]

\* The types of the credentials, the server and the counters of the calls.
OtherTypes ==
  /\ credentials \in Tokens /\ closed \in BOOLEAN
  /\ attempt \in [Requests -> Nat] /\ \A r \in Requests : attempt[r] \in 0 .. MaxAttempts[r] - 1
  /\ inflight \subseteq Requests \X Clients \X Nonces /\ answered \subseteq Requests \X Clients
  /\ seen \subseteq Nonces /\ effects \in [Requests -> Nat] /\ late \in [Requests -> Nat]

LEMMA Types == (TypeOK /\ attempt \in [Requests -> Nat]) <=> (SharedTypes /\ OtherTypes)
BY DEF TypeOK, SharedTypes, OtherTypes

\* What a step may never do to current: NeverReplacesLive and FailureTakesOwn.
KeepsLive == current' # current /\ current' # 0 => ~Live(current)

TakesOwn ==
  \A r \in Requests :
    pc[r] = "invalidate" /\ pc'[r] # "invalidate" /\ current' # current => current = mine[r]

Shared == SharedTypes /\ Locked /\ Generations /\ Late
-------------------------------------------------------------------------------
(* Steps that install nothing.                                             *)

\* A step of one task, which may let go of the lock, take current and close
\* clients.
LEMMA OwnStep ==
  ASSUME IInv, NEW t \in Tasks, NEW to \in States, NEW m \in 0 .. clients,
         pc' = [pc EXCEPT ![t] = to], mine' = [mine EXCEPT ![t] = m],
         to \notin {"connect", "auth"}, lock' = IF lock = t THEN Free ELSE lock,
         to \in Using => m # 0 /\ genOf[m] # 0 /\ (t \in Requests => Newer(m, t)),
         current' \in {current, 0}, open' \subseteq open,
         pc[t] = "invalidate" /\ current' # current => current = mine[t],
         t \in Requests /\ late[t] # 0 => to \in AfterSend,
         closed => closed',
         \/ late' = late
         \/ t \in Requests /\ late[t] = 0 /\ late' = [late EXCEPT ![t] = 1] /\ closed /\ to \in AfterSend,
         clients' = clients, generation' = generation, genOf' = genOf,
         \/ floor' = floor
         \/ t \in Requests /\ current' = 0 /\ to \notin Using /\ floor' = [floor EXCEPT ![t] = generation]
  PROVE  Shared' /\ KeepsLive /\ TakesOwn
<1>0. SharedTypes /\ OtherTypes /\ Locked /\ Generations /\ Late
  BY Types DEF IInv
<1>1. /\ \A u \in Tasks : u # t => pc'[u] = pc[u] /\ mine'[u] = mine[u]
      /\ pc'[t] = to /\ mine'[t] = m
      /\ Requests \subseteq Tasks /\ closer \notin Requests
  BY <1>0, AccountAssumption DEF SharedTypes, Tasks
<1>2. SharedTypes'
  <2>1. floor' \in [Requests -> 0 .. generation]
    BY <1>0 DEF SharedTypes
  <2> QED BY <1>0, <2>1 DEF SharedTypes, Tasks, Free
<1>3. Locked'
  <2>1. \A r \in Requests : pc'[r] \in {"connect", "auth"} <=> lock' = r
    BY <1>0, <1>1 DEF Locked, Free
  <2>2. \A r \in Requests : pc'[r] = "auth" => mine'[r] # 0 /\ generation' < clients'
    BY <1>0, <1>1 DEF Locked
  <2>3. lock' # Free => ~Live(current)'
    BY <1>0 DEF Locked, Live, Free
  <2> QED BY <2>1, <2>2, <2>3 DEF Locked
<1>4. Generations'
  <2>1. current' # 0 => genOf'[current'] # 0 /\ \A r \in Requests : Newer(current, r)'
    BY <1>0 DEF Generations, Newer
  <2>2. \A r \in Requests :
          pc'[r] \in Using => mine'[r] # 0 /\ genOf'[mine'[r]] # 0 /\ (floor'[r] = 0 \/ genOf'[mine'[r]] > floor'[r])
    <3> SUFFICES ASSUME NEW r \in Requests, pc'[r] \in Using
                 PROVE  mine'[r] # 0 /\ genOf'[mine'[r]] # 0 /\ (floor'[r] = 0 \/ genOf'[mine'[r]] > floor'[r])
      OBVIOUS
    <3>1. floor'[r] = floor[r]
      BY <1>0, <1>1 DEF SharedTypes
    <3> QED BY <1>0, <1>1, <3>1 DEF Generations, Newer
  <2> QED BY <1>0, <2>1, <2>2 DEF Generations, Newer
<1>5. Late'
  BY <1>0, <1>1 DEF Late, OtherTypes
<1>6. KeepsLive
  BY DEF KeepsLive
<1>7. TakesOwn
  BY <1>1 DEF TakesOwn
<1> QED BY <1>2, <1>3, <1>4, <1>5, <1>6, <1>7 DEF Shared

\* A step with the server, the counters and what was sent as they were.
LEMMA Quiet ==
  ASSUME IInv, Shared', credentials' \in Tokens, closed' \in BOOLEAN,
         attempt' \in [Requests -> Nat], \A r \in Requests : attempt'[r] \in 0 .. MaxAttempts[r] - 1,
         inflight' = inflight, answered' = answered, seen' = seen, effects' = effects, late' = late
  PROVE  IInv'
<1>1. OtherTypes'
  BY Types DEF IInv, OtherTypes
<1>2. Effects'
  BY DEF IInv, Effects, Nonce
<1> QED BY <1>1, <1>2 DEF IInv, TypeOK, Shared, SharedTypes, OtherTypes

\* Steps that only lead the call to another place.
LEMMA MoveStep ==
  ASSUME IInv, NEW r \in Requests,
         SetCredentials(r) \/ CheckClosed(r) \/ RequestFails(r) \/ Elapsed(r) \/ Backoff(r)
  PROVE  IInv' /\ KeepsLive /\ TakesOwn
<1>0. SharedTypes /\ OtherTypes /\ Late /\ Generations /\ Locked /\ r \in Tasks /\ r # closer
  BY Types, AccountAssumption DEF IInv, Tasks
<1>1. PICK to \in {"check", "changed", "error", "look", "invalidate"} :
        /\ pc' = [pc EXCEPT ![r] = to]
        /\ \/ pc[r] = "start" /\ to \in {"check", "changed"}
           \/ pc[r] = "check" /\ to = IF closed THEN "error" ELSE "look"
           \/ pc[r] = "wait" /\ to = "invalidate"
           \/ pc[r] = "retry" /\ to \in {"error", "check"}
  BY DEF SetCredentials, CheckClosed, RequestFails, Elapsed, Backoff, Goto
<1>2. /\ mine' = mine /\ current' = current /\ lock' = lock /\ generation' = generation
      /\ closed' = closed /\ clients' = clients /\ open' = open /\ genOf' = genOf
      /\ inflight' = inflight /\ answered' = answered /\ seen' = seen /\ effects' = effects
      /\ floor' = floor /\ late' = late
  BY DEF SetCredentials, CheckClosed, RequestFails, Elapsed, Backoff, accountVars, clientVars,
         serverVars, historyVars
<1>3. credentials' \in Tokens
  BY <1>0, AccountAssumption
     DEF SetCredentials, CheckClosed, RequestFails, Elapsed, Backoff, accountVars, OtherTypes
<1>4. attempt' \in [Requests -> Nat] /\ \A q \in Requests : attempt'[q] \in 0 .. MaxAttempts[q] - 1
  <2>1. attempt' = attempt \/ (attempt[r] + 1 < MaxAttempts[r] /\ attempt' = [attempt EXCEPT ![r] = @ + 1])
    BY DEF SetCredentials, CheckClosed, RequestFails, Elapsed, Backoff
  <2> QED BY <1>0, <2>1, AccountAssumption DEF OtherTypes
<1>5. Shared' /\ KeepsLive /\ TakesOwn
  <2>1. PICK m : m = mine[r]
    OBVIOUS
  <2>2. mine' = [mine EXCEPT ![r] = m] /\ m \in 0 .. clients
    BY <1>0, <1>2, <2>1 DEF SharedTypes
  <2>3. lock' = IF lock = r THEN Free ELSE lock
    BY <1>0, <1>1, <1>2 DEF Locked
  <2>4. to \in Using => m # 0 /\ genOf[m] # 0 /\ Newer(m, r)
    BY <1>0, <1>1, <2>1 DEF Generations, Using
  <2>5. late[r] # 0 => to \in AfterSend
    BY <1>0, <1>1 DEF Late, AfterSend
  <2>6. to \in States /\ to \notin {"connect", "auth"}
    BY DEF States
  <2> QED BY <1>0, <1>1, <1>2, <2>2, <2>3, <2>4, <2>5, <2>6, OwnStep, ZenonT(30)
<1>6. closed' \in BOOLEAN
  BY <1>0, <1>2 DEF OtherTypes
<1> QED BY <1>2, <1>3, <1>4, <1>5, <1>6, Quiet

\* Steps that let go of the client, which may be closed by them.
LEMMA ForgetStep ==
  ASSUME IInv, NEW t \in Tasks,
         \/ t \in Requests /\ (Reply(t) \/ AuthError(t) \/ CloseChanged(t) \/ CloseFailed(t)
                               \/ ConnectFails(t) \/ AuthRejected(t) \/ DropCall(t))
         \/ t = closer /\ CloseCurrent
  PROVE  IInv' /\ KeepsLive /\ TakesOwn
<1>0. SharedTypes /\ OtherTypes /\ Late /\ Generations /\ Locked
  BY Types DEF IInv
<1>1. PICK to \in {"ok", "error", "check", "retry", "dropped", "closed"} :
        /\ pc' = [pc EXCEPT ![t] = to] /\ (t \in Requests => to # "closed")
  BY AccountAssumption DEF Reply, AuthError, CloseChanged, CloseFailed, CloseTaken, ConnectFails, AuthRejected,
     DropCall, CloseCurrent, Goto
<1>2. /\ mine' = [mine EXCEPT ![t] = 0] /\ current' = current /\ generation' = generation
      /\ closed' = closed /\ clients' = clients /\ genOf' = genOf
      /\ inflight' = inflight /\ answered' = answered /\ seen' = seen /\ effects' = effects
      /\ floor' = floor /\ late' = late /\ attempt' = attempt /\ credentials' = credentials
  BY DEF Reply, AuthError, CloseChanged, CloseFailed, CloseTaken, ConnectFails, AuthRejected,
     DropCall, CloseCurrent, Forget, accountVars, clientVars, serverVars, historyVars
<1>3. open' \subseteq open
  BY DEF Reply, AuthError, CloseChanged, CloseFailed, CloseTaken, ConnectFails, AuthRejected,
     DropCall, CloseCurrent, clientVars
<1>4. lock' = IF lock = t THEN Free ELSE lock
  <2>1. CASE t = closer /\ CloseCurrent
    BY <2>1, ZenonT(30) DEF CloseCurrent, CloseTaken, accountVars, Free
  <2>2. CASE t \in Requests /\ (Reply(t) \/ AuthError(t) \/ CloseChanged(t) \/ CloseFailed(t))
    BY <1>0, <2>2 DEF Reply, AuthError, CloseChanged, CloseFailed, CloseTaken, Goto, accountVars, Locked
  <2>3. CASE t \in Requests /\ (ConnectFails(t) \/ AuthRejected(t))
    BY <1>0, <2>3 DEF ConnectFails, AuthRejected, Goto, Locked
  <2>4. CASE t \in Requests /\ DropCall(t)
    BY <2>4 DEF DropCall
  <2> QED BY <2>1, <2>2, <2>3, <2>4
<1>5. Shared' /\ KeepsLive /\ TakesOwn
  <2>1. t \in Requests /\ late[t] # 0 => to \in AfterSend
    BY <1>1 DEF AfterSend
  <2>2. to \in States /\ to \notin {"connect", "auth"} /\ to \notin Using /\ 0 \in 0 .. clients
    BY <1>0 DEF States, Using, SharedTypes
  <2> QED BY <1>1, <1>2, <1>3, <1>4, <2>1, <2>2, OwnStep, ZenonT(30)
<1>6. credentials' \in Tokens /\ closed' \in BOOLEAN /\ attempt' \in [Requests -> Nat]
      /\ \A q \in Requests : attempt'[q] \in 0 .. MaxAttempts[q] - 1
  BY <1>0, <1>2 DEF OtherTypes
<1> QED BY <1>2, <1>5, <1>6, Quiet

\* Looking at current, before the lock and under it.
LEMMA LookStep ==
  ASSUME IInv, NEW r \in Requests, LookCurrent(r) \/ (LockConnect(r) /\ Live(current))
  PROVE  IInv' /\ KeepsLive /\ TakesOwn
<1>0. SharedTypes /\ OtherTypes /\ Late /\ Generations /\ Locked /\ r \in Tasks /\ r # closer
  BY Types, AccountAssumption DEF IInv, Tasks
<1>1. PICK m : m = IF Live(current) THEN current ELSE 0
  OBVIOUS
<1>2. PICK to : to = IF Live(current) THEN "send" ELSE "lock"
  OBVIOUS
<1>3. /\ pc' = [pc EXCEPT ![r] = to] /\ pc[r] \in {"look", "lock"} /\ mine' = [mine EXCEPT ![r] = m]
      /\ current' = current /\ generation' = generation
      /\ closed' = closed /\ clients' = clients /\ open' = open /\ genOf' = genOf
      /\ inflight' = inflight /\ answered' = answered /\ seen' = seen /\ effects' = effects
      /\ floor' = floor /\ late' = late /\ attempt' = attempt /\ credentials' = credentials
  BY <1>1, <1>2 DEF LookCurrent, LockConnect, Goto, accountVars, clientVars, serverVars, historyVars
<1>4. lock' = IF lock = r THEN Free ELSE lock
  BY <1>0, <1>3 DEF LookCurrent, LockConnect, accountVars, Locked, Free
<1>5. Shared' /\ KeepsLive /\ TakesOwn
  <2>1. to \in States /\ to \notin {"connect", "auth"} /\ m \in 0 .. clients
    BY <1>0, <1>1, <1>2 DEF States, SharedTypes
  <2>2. to \in Using => m # 0 /\ genOf[m] # 0 /\ Newer(m, r)
    BY <1>0, <1>1, <1>2 DEF Generations, Live, Using
  <2>3. late[r] = 0
    BY <1>0, <1>3 DEF Late, AfterSend
  <2> QED BY <1>0, <1>3, <1>4, <2>1, <2>2, <2>3, OwnStep, ZenonT(30)
<1>6. credentials' \in Tokens /\ closed' \in BOOLEAN /\ attempt' \in [Requests -> Nat]
      /\ \A q \in Requests : attempt'[q] \in 0 .. MaxAttempts[q] - 1
  BY <1>0, <1>3 DEF OtherTypes
<1> QED BY <1>3, <1>5, <1>6, Quiet

\* take_current, for new credentials, after a failure and for close.
LEMMA TakeStep ==
  ASSUME IInv, NEW t \in Tasks,
         \/ t \in Requests /\ (InvalidateChanged(t) \/ InvalidateFailed(t))
         \/ t = closer /\ (CloseTake \/ CloseFlag)
  PROVE  IInv' /\ KeepsLive /\ TakesOwn
<1>0. SharedTypes /\ OtherTypes /\ Late /\ Generations /\ Locked
  BY Types DEF IInv
<1>1. PICK m : m = mine'[t]
  OBVIOUS
<1>2. PICK to \in {"drop_changed", "check", "drop_failed", "retry", "drop_closed", "closed", "take"} :
        /\ pc' = [pc EXCEPT ![t] = to]
        /\ t \in Requests /\ pc[t] = "invalidate" => to \in {"drop_failed", "retry"}
        /\ t \in Requests => pc[t] \in {"changed", "invalidate"}
  BY AccountAssumption
     DEF InvalidateChanged, InvalidateFailed, CloseTake, CloseFlag, Take, Goto
<1>3. /\ lock' = lock /\ generation' = generation /\ (closed => closed') /\ closed' \in BOOLEAN
      /\ clients' = clients /\ open' = open /\ genOf' = genOf
      /\ inflight' = inflight /\ answered' = answered /\ seen' = seen /\ effects' = effects
      /\ late' = late /\ attempt' = attempt /\ credentials' = credentials
  BY <1>0, ZenonT(30) DEF InvalidateChanged, InvalidateFailed, CloseTake, CloseFlag, clientVars, serverVars,
              historyVars, OtherTypes
<1>4. mine' = [mine EXCEPT ![t] = m] /\ m \in 0 .. clients /\ current' \in {current, 0}
  BY <1>0, <1>1 DEF InvalidateChanged, InvalidateFailed, CloseTake, CloseFlag, Take, Forget, SharedTypes
<1>5. pc[t] = "invalidate" /\ current' # current => current = mine[t]
  <2>1. CASE t \in Requests /\ InvalidateChanged(t)
    BY <2>1 DEF InvalidateChanged, Take, Goto
  <2>2. CASE t = closer /\ (CloseTake \/ CloseFlag)
    BY <2>2 DEF CloseTake, CloseFlag, Take, Goto
  <2>3. CASE t \in Requests /\ InvalidateFailed(t)
    <3>1. pc[t] = "invalidate" /\ (current' # current => current # 0 /\ genOf[current] = genOf[mine[t]])
      BY <2>3 DEF InvalidateFailed, Take
    <3>2. current # 0 => current \in Clients
      BY <1>0, AccountAssumption DEF SharedTypes, Clients
    <3>3. mine[t] \in Clients
      BY <1>0, <2>3, <3>1, AccountAssumption DEF SharedTypes, Generations, Using, Clients
    <3> QED BY <1>0, <3>1, <3>2, <3>3 DEF Generations
  <2> QED BY <2>1, <2>2, <2>3
<1>6. \/ floor' = floor
      \/ t \in Requests /\ current' = 0 /\ floor' = [floor EXCEPT ![t] = generation]
  BY DEF InvalidateChanged, InvalidateFailed, CloseTake, CloseFlag, Take, historyVars
<1>7. Shared' /\ KeepsLive /\ TakesOwn
  <2>1. to \in States /\ to \notin {"connect", "auth"} /\ to \notin Using
    BY ZenonT(30) DEF States, Using
  <2>2. lock' = IF lock = t THEN Free ELSE lock
    BY <1>0, <1>2, <1>3, AccountAssumption DEF Locked, Free, Tasks
  <2>3. t \in Requests /\ late[t] # 0 => to \in AfterSend
    BY <1>0, <1>2 DEF Late, AfterSend
  <2> QED BY <1>2, <1>3, <1>4, <1>5, <1>6, <2>1, <2>2, <2>3, OwnStep, ZenonT(30)
<1>8. credentials' \in Tokens /\ attempt' \in [Requests -> Nat]
      /\ \A q \in Requests : attempt'[q] \in 0 .. MaxAttempts[q] - 1
  BY <1>0, <1>3 DEF OtherTypes
<1> QED BY <1>3, <1>7, <1>8, Quiet

\* A request goes out, under the call's one nonce; after close, the last one.
LEMMA SendStep ==
  ASSUME IInv, NEW r \in Requests, Send(r)
  PROVE  IInv' /\ KeepsLive /\ TakesOwn
<1>0. SharedTypes /\ OtherTypes /\ Late /\ Generations /\ Locked /\ Effects /\ r \in Tasks /\ r # closer
  BY Types, AccountAssumption DEF IInv, Tasks
<1>1. PICK m : m = mine[r]
  OBVIOUS
<1>2. PICK to : to = IF Live(m) THEN "wait" ELSE "invalidate"
  BY SMTT(30)
<1>3. /\ pc[r] = "send" /\ pc' = [pc EXCEPT ![r] = to] /\ mine' = mine
      /\ inflight' = IF Live(m) THEN inflight \union {<<r, m, Nonce(r)>>} ELSE inflight
      /\ late' = [late EXCEPT ![r] = IF closed THEN late[r] + 1 ELSE late[r]]
      /\ attempt' = attempt /\ credentials' = credentials /\ current' = current /\ lock' = lock
      /\ generation' = generation /\ closed' = closed /\ clients' = clients /\ open' = open
      /\ genOf' = genOf /\ answered' = answered /\ seen' = seen /\ effects' = effects /\ floor' = floor
  BY <1>1, <1>2, ZenonT(30) DEF Send, Goto, accountVars, clientVars
<1>4. m \in Clients /\ m \in 0 .. clients /\ genOf[m] # 0 /\ Newer(m, r) /\ late[r] = 0
  <2>1. late[r] = 0
    BY <1>0, <1>3 DEF Late, AfterSend
  <2>2. m # 0 /\ genOf[m] # 0 /\ Newer(m, r)
    BY <1>0, <1>1, <1>3 DEF Generations, Using, Newer
  <2>3. m \in Clients /\ m \in 0 .. clients
    BY <1>0, <1>1, <2>2, AccountAssumption DEF SharedTypes, Clients
  <2> QED BY <2>1, <2>2, <2>3
<1>5. late' = late \/ (late' = [late EXCEPT ![r] = 1] /\ closed)
  <2>1. CASE closed
    BY <1>3, <1>4, <2>1
  <2>2. CASE ~closed
    BY <1>0, <1>3, <2>2 DEF OtherTypes
  <2> QED BY <2>1, <2>2
<1>6. Shared' /\ KeepsLive /\ TakesOwn
  <2>1. to \in States /\ to \notin {"connect", "auth"} /\ to \in AfterSend
    BY <1>2 DEF States, AfterSend
  <2>2. lock' = IF lock = r THEN Free ELSE lock
    BY <1>0, <1>3 DEF Locked
  <2>3. mine' = [mine EXCEPT ![r] = m] /\ m # 0
    BY <1>0, <1>1, <1>3, <1>4 DEF SharedTypes, Clients
  <2> QED BY <1>0, <1>3, <1>4, <1>5, <2>1, <2>2, <2>3, OwnStep, ZenonT(30)
<1>7. OtherTypes'
  <2>1. Nonce(r) \in Nonces
    BY DEF Nonce, Nonces
  <2>2. inflight' \subseteq Requests \X Clients \X Nonces
    BY <1>0, <1>3, <1>4, <2>1 DEF OtherTypes
  <2>3. late' \in [Requests -> Nat]
    BY <1>0, <1>5 DEF OtherTypes
  <2> QED BY <1>0, <1>3, <2>2, <2>3 DEF OtherTypes
<1>8. Effects'
  BY <1>0, <1>3 DEF Effects, Nonce
<1> QED BY <1>6, <1>7, <1>8 DEF IInv, TypeOK, Shared, SharedTypes, OtherTypes

-------------------------------------------------------------------------------
(* Opening and installing a client.                                        *)

\* The second look under connect_lock has found no live client.
LEMMA LockStep ==
  ASSUME IInv, NEW r \in Requests, LockConnect(r), ~Live(current)
  PROVE  IInv' /\ KeepsLive /\ TakesOwn
<1>0. SharedTypes /\ OtherTypes /\ Late /\ Generations /\ Locked /\ r \in Tasks /\ r # closer
  BY Types, AccountAssumption DEF IInv, Tasks
<1>1. /\ lock = Free /\ lock' = r /\ pc[r] = "lock" /\ pc' = [pc EXCEPT ![r] = "connect"]
      /\ mine' = [mine EXCEPT ![r] = 0] /\ current' = current /\ generation' = generation
      /\ closed' = closed /\ clients' = clients /\ open' = open /\ genOf' = genOf
      /\ inflight' = inflight /\ answered' = answered /\ seen' = seen /\ effects' = effects
      /\ floor' = floor /\ late' = late /\ attempt' = attempt /\ credentials' = credentials
  BY DEF LockConnect, Goto, clientVars, serverVars, historyVars
<1>2. /\ \A q \in Requests : q # r => pc'[q] = pc[q] /\ mine'[q] = mine[q]
      /\ pc'[r] = "connect"
  BY <1>0, <1>1 DEF SharedTypes, Tasks
<1>3. SharedTypes'
  BY <1>0, <1>1 DEF SharedTypes, States
<1>4. Locked'
  <2>1. \A q \in Requests : pc'[q] \in {"connect", "auth"} <=> lock' = q
    <3>1. \A q \in Requests : pc[q] \notin {"connect", "auth"}
      BY <1>0, <1>1, AccountAssumption DEF Locked, Free
    <3> QED BY <1>1, <1>2, <3>1
  <2>2. \A q \in Requests : pc'[q] = "auth" => mine'[q] # 0 /\ generation' < clients'
    BY <1>0, <1>1, <1>2 DEF Locked
  <2> QED BY <1>1, <2>1, <2>2 DEF Locked, Live
<1>5. Generations'
  BY <1>0, <1>1, <1>2 DEF Generations, Newer, Using
<1>6. Late'
  BY <1>0, <1>1, <1>2 DEF Late, AfterSend
<1>7. KeepsLive /\ TakesOwn
  BY <1>1 DEF KeepsLive, TakesOwn
<1>8. credentials' \in Tokens /\ closed' \in BOOLEAN /\ attempt' \in [Requests -> Nat]
      /\ \A q \in Requests : attempt'[q] \in 0 .. MaxAttempts[q] - 1
  BY <1>0, <1>1 DEF OtherTypes
<1> QED BY <1>1, <1>3, <1>4, <1>5, <1>6, <1>7, <1>8, Quiet DEF Shared

\* The new client is not current yet.
LEMMA ConnectStep ==
  ASSUME IInv, NEW r \in Requests, Connect(r)
  PROVE  IInv' /\ KeepsLive /\ TakesOwn
<1>0. SharedTypes /\ OtherTypes /\ Late /\ Generations /\ Locked /\ r \in Tasks /\ r # closer
  BY Types, AccountAssumption DEF IInv, Tasks
<1>1. PICK k : k = clients + 1
  OBVIOUS
<1>2. /\ clients < MaxClients /\ clients' = k /\ open' = open \union {k}
      /\ mine' = [mine EXCEPT ![r] = k] /\ pc[r] = "connect" /\ pc' = [pc EXCEPT ![r] = "auth"]
      /\ current' = current /\ generation' = generation /\ lock' = lock
      /\ closed' = closed /\ genOf' = genOf
      /\ inflight' = inflight /\ answered' = answered /\ seen' = seen /\ effects' = effects
      /\ floor' = floor /\ late' = late /\ attempt' = attempt /\ credentials' = credentials
  BY <1>1 DEF Connect, Goto, accountVars, serverVars, historyVars
<1>3. /\ \A q \in Requests : q # r => pc'[q] = pc[q] /\ mine'[q] = mine[q]
      /\ pc'[r] = "auth" /\ mine'[r] = k
  BY <1>0, <1>2 DEF SharedTypes, Tasks
<1>4. clients \in Nat /\ k \in 0 .. MaxClients /\ 0 .. clients \subseteq 0 .. k /\ 1 .. clients \subseteq 1 .. k
      /\ k \in 1 .. k /\ current # k
  BY <1>0, <1>1, <1>2, AccountAssumption DEF SharedTypes
<1>5. SharedTypes'
  <2>1. mine' \in [Tasks -> 0 .. k]
    BY <1>0, <1>2, <1>4 DEF SharedTypes
  <2>2. open' \subseteq 1 .. k /\ generation \in 0 .. k /\ current \in 0 .. k
    BY <1>0, <1>2, <1>4 DEF SharedTypes
  <2>3. pc' \in [Tasks -> States]
    BY <1>0, <1>2 DEF SharedTypes, States
  <2> QED BY <1>0, <1>2, <1>4, <2>1, <2>2, <2>3 DEF SharedTypes
<1>6. Locked'
  <2>1. \A q \in Requests : pc'[q] \in {"connect", "auth"} <=> lock' = q
    BY <1>0, <1>2, <1>3 DEF Locked
  <2>2. generation < k /\ k # 0
    BY <1>0, <1>1 DEF SharedTypes
  <2>3. \A q \in Requests : pc'[q] = "auth" => mine'[q] # 0 /\ generation' < clients'
    BY <1>0, <1>2, <1>3, <2>2 DEF Locked
  <2>4. ~Live(current)
    BY <1>0, <1>2, ZenonT(30) DEF Locked, Free
  <2> QED BY <1>2, <1>4, <2>1, <2>3, <2>4, ZenonT(30) DEF Locked, Live
<1>7. Generations'
  BY <1>0, <1>2, <1>3 DEF Generations, Newer, Using
<1>8. Late'
  BY <1>0, <1>2, <1>3 DEF Late, AfterSend
<1>9. KeepsLive /\ TakesOwn
  BY <1>2 DEF KeepsLive, TakesOwn
<1>10. credentials' \in Tokens /\ closed' \in BOOLEAN /\ attempt' \in [Requests -> Nat]
       /\ \A q \in Requests : attempt'[q] \in 0 .. MaxAttempts[q] - 1
  BY <1>0, <1>2 DEF OtherTypes
<1> QED BY <1>2, <1>5, <1>6, <1>7, <1>8, <1>9, <1>10, Quiet DEF Shared

\* The client gets a generation of its own, newer than every change of the
\* credentials so far, and replaces none that is live.
LEMMA InstallStep ==
  ASSUME IInv, NEW r \in Requests, Install(r)
  PROVE  IInv' /\ KeepsLive /\ TakesOwn
<1>0. SharedTypes /\ OtherTypes /\ Late /\ Generations /\ Locked /\ r \in Tasks /\ r # closer
  BY Types, AccountAssumption DEF IInv, Tasks
<1>1. PICK k : k = mine[r]
  OBVIOUS
<1>2. PICK g : g = generation + 1
  OBVIOUS
<1>3. /\ pc[r] = "auth" /\ pc' = [pc EXCEPT ![r] = "send"] /\ generation' = g
      /\ genOf' = [genOf EXCEPT ![k] = g] /\ current' = k /\ lock' = Free
      /\ mine' = mine /\ closed' = closed /\ clients' = clients /\ open' = open
      /\ inflight' = inflight /\ answered' = answered /\ seen' = seen /\ effects' = effects
      /\ floor' = floor /\ late' = late /\ attempt' = attempt /\ credentials' = credentials
  BY <1>1, <1>2 DEF Install, Goto, serverVars, historyVars
<1>4. pc'[r] = "send" /\ \A q \in Requests : q # r => pc'[q] = pc[q]
  BY <1>0, <1>3 DEF SharedTypes, Tasks
<1>5. lock = r /\ k # 0 /\ generation < clients /\ ~Live(current)
  BY <1>0, <1>1, <1>3 DEF Locked, Free
<1>6. /\ k \in Clients /\ k \in 0 .. clients /\ g \in 0 .. clients /\ g # 0
      /\ 0 .. generation \subseteq 0 .. g /\ clients \in Nat
  BY <1>0, <1>1, <1>2, <1>5, AccountAssumption DEF SharedTypes, Clients
<1>7. genOf'[k] = g /\ \A j \in Clients : (j # k => genOf'[j] = genOf[j]) /\ genOf[j] \in 0 .. generation
  BY <1>0, <1>3, <1>6 DEF SharedTypes
<1>8. SharedTypes'
  <2>1. genOf' \in [Clients -> 0 .. g]
    BY <1>0, <1>2, <1>3, <1>6 DEF SharedTypes
  <2>2. floor' \in [Requests -> 0 .. g]
    BY <1>0, <1>3, <1>6 DEF SharedTypes
  <2>3. pc' \in [Tasks -> States] /\ lock' \in Tasks
    BY <1>0, <1>3 DEF SharedTypes, States, Tasks, Free
  <2> QED BY <1>0, <1>3, <1>6, <2>1, <2>2, <2>3 DEF SharedTypes
<1>9. Locked'
  <2>1. \A q \in Requests : pc'[q] \notin {"connect", "auth"}
    BY <1>0, <1>4, <1>5 DEF Locked
  <2> QED BY <1>3, <2>1, AccountAssumption DEF Locked, Free
<1>10. Generations'
  <2>1. \A i, j \in Clients : genOf'[i] = genOf'[j] /\ genOf'[i] # 0 => i = j
    <3>1. \A i \in Clients : i # k => genOf'[i] # g
      BY <1>0, <1>2, <1>7 DEF SharedTypes
    <3> QED BY <1>0, <1>7, <3>1 DEF Generations
  <2>2. \A q \in Requests : g > floor[q]
    BY <1>0, <1>2 DEF SharedTypes
  <2>3. current' # 0 => genOf'[current'] # 0 /\ \A q \in Requests : Newer(current, q)'
    BY <1>3, <1>6, <1>7, <2>2 DEF Newer
  <2>4. \A q \in Requests : pc'[q] \in Using =>
          mine'[q] # 0 /\ genOf'[mine'[q]] # 0 /\ (floor'[q] = 0 \/ genOf'[mine'[q]] > floor'[q])
    <3> SUFFICES ASSUME NEW q \in Requests, pc'[q] \in Using
                 PROVE  mine[q] # 0 /\ genOf'[mine[q]] # 0 /\ (floor[q] = 0 \/ genOf'[mine[q]] > floor[q])
      BY <1>3
    <3>1. CASE mine[q] = k
      BY <1>6, <1>7, <2>2, <3>1, <1>5
    <3>2. CASE mine[q] # k
      <4>1. mine[q] # 0 /\ genOf[mine[q]] # 0 /\ Newer(mine[q], q)
        <5>1. q # r /\ pc[q] \in Using
          BY <1>1, <1>4, <3>2
        <5> QED BY <1>0, <5>1 DEF Generations, Newer
      <4>2. mine[q] \in Clients
        <5>1. mine[q] \in 0 .. clients /\ clients \in 0 .. MaxClients
          BY <1>0 DEF SharedTypes, Tasks
        <5> QED BY <4>1, <5>1, AccountAssumption DEF Clients
      <4> QED BY <1>7, <3>2, <4>1, <4>2, ZenonT(30) DEF Newer
    <3> QED BY <3>1, <3>2, ZenonT(30)
  <2> QED BY <2>1, <2>3, <2>4 DEF Generations, Newer
<1>11. Late'
  BY <1>0, <1>3, <1>4 DEF Late, AfterSend
<1>12. KeepsLive /\ TakesOwn
  BY <1>3, <1>4, <1>5 DEF KeepsLive, TakesOwn
<1>13. credentials' \in Tokens /\ closed' \in BOOLEAN /\ attempt' \in [Requests -> Nat]
       /\ \A q \in Requests : attempt'[q] \in 0 .. MaxAttempts[q] - 1
  BY <1>0, <1>3 DEF OtherTypes
<1> QED BY <1>3, <1>8, <1>9, <1>10, <1>11, <1>12, <1>13, Quiet DEF Shared

-------------------------------------------------------------------------------
(* The server and the network.                                             *)

\* The server executes a nonce it has not seen, and no other.
LEMMA ServerStep ==
  ASSUME IInv, NEW r \in Requests, ServerExecutes(r)
  PROVE  IInv' /\ KeepsLive /\ TakesOwn
<1>0. SharedTypes /\ OtherTypes /\ Late /\ Generations /\ Locked /\ Effects
  BY Types DEF IInv
<1>1. PICK m \in inflight :
        /\ m[1] = r /\ inflight' = inflight \ {m} /\ answered' = answered \union {<<r, m[2]>>}
        /\ seen' = seen \union {m[3]}
        /\ effects' = [effects EXCEPT ![r] = IF m[3] \in seen THEN effects[r] ELSE effects[r] + 1]
  BY ZenonT(30) DEF ServerExecutes
<1>2. /\ pc' = pc /\ mine' = mine /\ attempt' = attempt /\ credentials' = credentials
      /\ current' = current /\ lock' = lock /\ generation' = generation /\ closed' = closed
      /\ clients' = clients /\ open' = open /\ genOf' = genOf /\ floor' = floor /\ late' = late
  BY DEF ServerExecutes, accountVars, clientVars, historyVars
<1>3. m[3] = Nonce(r) /\ m[2] \in Clients /\ Nonce(r) \in Nonces
  BY <1>0, <1>1 DEF Effects, OtherTypes, Nonces, Nonce
<1>4. Effects'
  <2>1. \A q \in Requests : q # r => Nonce(q) # Nonce(r)
    BY DEF Nonce
  <2>2. \A q \in Requests : effects'[q] = IF Nonce(q) \in seen' THEN 1 ELSE 0
    BY <1>0, <1>1, <1>3, <2>1 DEF Effects, OtherTypes
  <2>3. \A n \in inflight' : n[3] = Nonce(n[1])
    BY <1>0, <1>1 DEF Effects
  <2> QED BY <2>2, <2>3 DEF Effects, Nonce
<1>5. OtherTypes'
  BY <1>0, <1>1, <1>2, <1>3 DEF OtherTypes
<1>6. SharedTypes' /\ Locked' /\ Generations' /\ Late'
  BY <1>0, <1>2, ZenonT(30) DEF SharedTypes, Locked, Live, Generations, Newer, Late
<1>7. KeepsLive /\ TakesOwn
  BY <1>2 DEF KeepsLive, TakesOwn
<1> QED BY <1>4, <1>5, <1>6, <1>7 DEF IInv, TypeOK, SharedTypes, OtherTypes

\* A client that dies is not live any more; nothing else changes.
LEMMA DiesStep ==
  ASSUME IInv, UNCHANGED vars \/ \E k \in Clients : ClientDies(k)
  PROVE  IInv' /\ KeepsLive /\ TakesOwn
<1>0. SharedTypes /\ OtherTypes /\ Late /\ Generations /\ Locked /\ Effects
  BY Types DEF IInv
<1>1. /\ open' \subseteq open
      /\ pc' = pc /\ mine' = mine /\ attempt' = attempt /\ credentials' = credentials
      /\ current' = current /\ lock' = lock /\ generation' = generation /\ closed' = closed
      /\ clients' = clients /\ genOf' = genOf /\ floor' = floor /\ late' = late
      /\ inflight' = inflight /\ answered' = answered /\ seen' = seen /\ effects' = effects
  BY ZenonT(30) DEF ClientDies, vars, accountVars, clientVars, serverVars, historyVars
<1>2. SharedTypes' /\ Locked' /\ Generations' /\ Late'
  BY <1>0, <1>1, ZenonT(30) DEF SharedTypes, Locked, Live, Generations, Newer, Late
<1>3. KeepsLive /\ TakesOwn
  BY <1>1 DEF KeepsLive, TakesOwn
<1>4. credentials' \in Tokens /\ closed' \in BOOLEAN /\ attempt' \in [Requests -> Nat]
      /\ \A q \in Requests : attempt'[q] \in 0 .. MaxAttempts[q] - 1
  BY <1>0, <1>1 DEF OtherTypes
<1> QED BY <1>1, <1>2, <1>3, <1>4, Quiet DEF Shared

-------------------------------------------------------------------------------
(* The theorems.                                                           *)

\* The account may start with a client, of the first generation.
LEMMA InitInv == Init => IInv
<1> SUFFICES ASSUME Init PROVE IInv
  OBVIOUS
<1>1. /\ pc = [t \in Tasks |-> IF t = closer THEN "idle" ELSE "start"] /\ credentials = FirstToken
      /\ current \in {0, 1} /\ current <= MaxClients /\ lock = Free /\ generation = current
      /\ closed = FALSE /\ clients = current /\ open = 1 .. current
      /\ genOf = [k \in Clients |-> IF k <= current THEN k ELSE 0] /\ mine = [t \in Tasks |-> 0]
      /\ attempt = [r \in Requests |-> 0] /\ inflight = {} /\ answered = {} /\ seen = {}
      /\ effects = [r \in Requests |-> 0] /\ floor = [r \in Requests |-> 0]
      /\ late = [r \in Requests |-> 0]
  BY DEF Init
<1>2. SharedTypes
  <2>1. genOf \in [Clients -> 0 .. generation]
    BY <1>1, AccountAssumption DEF Clients
  <2>2. pc \in [Tasks -> States] /\ lock \in Tasks
    BY <1>1 DEF States, Tasks, Free
  <2> QED BY <1>1, <2>1, <2>2, AccountAssumption DEF SharedTypes
<1>3. OtherTypes
  <2>1. attempt \in [Requests -> Nat] /\ \A r \in Requests : attempt[r] \in 0 .. MaxAttempts[r] - 1
    BY <1>1, AccountAssumption
  <2>2. effects \in [Requests -> Nat] /\ late \in [Requests -> Nat]
    BY <1>1
  <2> QED BY <1>1, <2>1, <2>2, AccountAssumption, ZenonT(30) DEF OtherTypes
<1>4. \A r \in Requests : pc[r] = "start" /\ r # closer
  BY <1>1, AccountAssumption DEF Tasks
<1>5. Locked
  BY <1>1, <1>4 DEF Locked, Free
<1>6. Generations
  <2>1. \A j, k \in Clients : genOf[j] = genOf[k] /\ genOf[j] # 0 => j = k
    BY <1>1, AccountAssumption DEF Clients
  <2>2. current # 0 => genOf[current] # 0
    BY <1>1, AccountAssumption DEF Clients
  <2> QED BY <1>1, <1>4, <2>1, <2>2 DEF Generations, Newer, Using
<1>7. Late /\ Effects
  BY <1>1 DEF Late, Effects
<1> QED BY <1>2, <1>3, <1>5, <1>6, <1>7, Types DEF IInv

LEMMA Inductive == IInv /\ [Next]_vars => IInv' /\ KeepsLive /\ TakesOwn
<1> SUFFICES ASSUME IInv, [Next]_vars PROVE IInv' /\ KeepsLive /\ TakesOwn
  OBVIOUS
<1>0. Requests \subseteq Tasks /\ closer \in Tasks
  BY DEF Tasks
<1>1. ASSUME NEW r \in Requests, Work(r) \/ LockConnect(r) \/ ServerExecutes(r) \/ DropCall(r)
      PROVE  IInv' /\ KeepsLive /\ TakesOwn
  BY <1>0, <1>1, MoveStep, ForgetStep, LookStep, TakeStep, SendStep, LockStep, ConnectStep,
     InstallStep, ServerStep, ZenonT(30) DEF Work
<1>2. CASE CloseFlag \/ CloseTake \/ CloseCurrent
  BY <1>0, <1>2, ForgetStep, TakeStep
<1>3. CASE UNCHANGED vars \/ \E k \in Clients : ClientDies(k)
  BY <1>3, DiesStep
<1> QED BY <1>1, <1>2, <1>3 DEF Next

\* The inductive invariant holds in every reachable state.
THEOREM AccountInvariance == Spec => []IInv
BY InitInv, Inductive, PTL DEF Spec

\* However many calls and attempts there are, request_cbor has a command
\* executed at most once, and sends it at most once more after close.
THEOREM CommandsAreBounded == Spec => []CommandsBounded
<1>1. IInv => CommandsBounded
  BY DEF IInv, TypeOK, Effects, Late, CommandsBounded, EffectOnce, OneSendAfterClose
<1> QED BY <1>1, AccountInvariance, PTL

\* The connection of the account changes only as it should: set_credentials
\* ends the one in use, connected replaces none that is live, and invalidate
\* takes only the one that the request has failed on.
THEOREM ConnectionStaysCurrent == Spec => CurrentConnection
<1>1. IInv => FreshAfterChange
  BY DEF IInv, Generations, Newer, Using, FreshAfterChange
<1>2. Spec => []FreshAfterChange
  BY <1>1, AccountInvariance, PTL
<1>3. Spec => NeverReplacesLive
  <2>1. IInv /\ [Next]_vars => [current' # current /\ current' # 0 => ~Live(current)]_vars
    BY Inductive DEF KeepsLive
  <2> QED BY <2>1, AccountInvariance, PTL DEF Spec, NeverReplacesLive
<1>4. Spec => FailureTakesOwn
  <2>1. IInv /\ [Next]_vars =>
          [\A r \in Requests :
             pc[r] = "invalidate" /\ pc'[r] # "invalidate" /\ current' # current
               => current = mine[r]]_vars
    BY Inductive DEF TakesOwn
  <2> QED BY <2>1, AccountInvariance, PTL DEF Spec, FailureTakesOwn
<1> QED BY <1>2, <1>3, <1>4 DEF CurrentConnection
===============================================================================
