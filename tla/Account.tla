------------------------------- MODULE Account -------------------------------
(***************************************************************************)
(* AccountClient of account.rs, driven by MessengerCore::request_cbor of   *)
(* messenger.rs: every call first sets the credentials and then sends its  *)
(* request on the one shared connection, which the account opens when it   *)
(* is missing, throws away when a request on it fails, and replaces.       *)
(*                                                                         *)
(* Calls run as concurrent tasks, and any of them may be dropped where it  *)
(* awaits.  The connection itself is the subject of module Connection;     *)
(* here a client is open or not, and a request on it is in flight,         *)
(* answered or lost.                                                       *)
(***************************************************************************)
EXTENDS Naturals

CONSTANTS
  Requests,      \* calls of MessengerCore::request_cbor
  Tokens,        \* credentials
  TokenOf,       \* the token each call passes
  FirstToken,    \* the token in the account's configuration
  closer,        \* the task that calls AccountClient::close
  MaxClients,    \* bound on the connections opened
  MaxAttempts    \* attempts of each call that fit into reconnect_max

ASSUME AccountAssumption ==
  /\ TokenOf \in [Requests -> Tokens]
  /\ FirstToken \in Tokens
  /\ closer \notin Requests
  /\ MaxClients \in Nat
  /\ MaxAttempts \in [Requests -> Nat \ {0}]

VARIABLES
  pc,           \* where each task is
  credentials,  \* AccountInner.credentials
  current,      \* AccountInner.current: a client, or 0
  lock,         \* who holds connect_lock, or closer for nobody
  generation,   \* AccountInner.generation
  closed,       \* AccountInner.closed
  clients,      \* how many clients have been connected
  open,         \* the clients that are not closed
  genOf,        \* the generation each client was installed with
  mine,         \* the client a task works with: connecting, sending or closing
  attempt,      \* failed attempts of each call
  inflight,     \* requests sent and not yet seen by the server
  answered,     \* requests the server has answered
  seen,         \* nonces the server has executed
  effects,      \* how often the server executed each call's command
  floor,        \* history: generation at the credentials change of each call
  late          \* history: requests each call has sent after close

accountVars == <<credentials, current, lock, generation, closed>>
clientVars == <<clients, open, genOf>>
serverVars == <<inflight, answered, seen, effects>>
historyVars == <<floor, late>>
vars == <<pc, mine, attempt, accountVars, clientVars, serverVars, historyVars>>

Tasks == Requests \union {closer}
Clients == 1 .. MaxClients
Free == closer
Nonces == Requests \X Nat

States == {"start", "changed", "check", "look", "lock", "connect", "auth", "send",
           "wait", "invalidate", "retry", "ok", "error", "dropped",
           "idle", "take", "drop_changed", "drop_failed", "drop_closed", "closed"}

Live(k) == k # 0 /\ k \in open

(***************************************************************************)
(* The account has been used before: a client with the first token may be  *)
(* current.                                                                *)
(***************************************************************************)
Init ==
  /\ pc = [t \in Tasks |-> IF t = closer THEN "idle" ELSE "start"]
  /\ credentials = FirstToken
  /\ current \in {k \in {0, 1} : k <= MaxClients}
  /\ lock = Free
  /\ generation = current
  /\ closed = FALSE
  /\ clients = current
  /\ open = 1 .. current
  /\ genOf = [k \in Clients |-> IF k <= current THEN k ELSE 0]
  /\ mine = [t \in Tasks |-> 0]
  /\ attempt = [r \in Requests |-> 0]
  /\ inflight = {}
  /\ answered = {}
  /\ seen = {}
  /\ effects = [r \in Requests |-> 0]
  /\ floor = [r \in Requests |-> 0]
  /\ late = [r \in Requests |-> 0]

Goto(t, from, to) == pc[t] = from /\ pc' = [pc EXCEPT ![t] = to]

(***************************************************************************)
(* The task lets go of its handle to the client.                           *)
(***************************************************************************)
Forget(t) == mine' = [mine EXCEPT ![t] = 0]

-----------------------------------------------------------------------------
(***************************************************************************)
(* set_credentials: store the credentials under their lock.  If they were  *)
(* different, the current client is taken next, under another lock.        *)
(***************************************************************************)
SetCredentials(r) ==
  /\ Goto(r, "start", IF credentials = TokenOf[r] THEN "check" ELSE "changed")
  /\ credentials' = TokenOf[r]
  /\ UNCHANGED <<mine, attempt, current, lock, generation, closed, clientVars, serverVars,
                 historyVars>>

(***************************************************************************)
(* take_current: out of the shared slot, to be closed by the taker.        *)
(***************************************************************************)
Take(t, from, taken, none) ==
  /\ Goto(t, from, IF current = 0 THEN none ELSE taken)
  /\ current' = 0
  /\ mine' = [mine EXCEPT ![t] = current]

InvalidateChanged(r) ==
  /\ Take(r, "changed", "drop_changed", "check")
  /\ floor' = [floor EXCEPT ![r] = generation]
  /\ UNCHANGED <<attempt, credentials, lock, generation, closed, clientVars, serverVars, late>>

(***************************************************************************)
(* Client::close sets the connection's closed flag in its first poll.      *)
(***************************************************************************)
CloseTaken(t, from, to) ==
  /\ Goto(t, from, to)
  /\ open' = open \ {mine[t]}
  /\ Forget(t)
  /\ UNCHANGED <<attempt, accountVars, clients, genOf, serverVars, historyVars>>

CloseChanged(r) == CloseTaken(r, "drop_changed", "check")

CloseFailed(r) == CloseTaken(r, "drop_failed", "retry")

-----------------------------------------------------------------------------
(***************************************************************************)
(* Each pass of request_cbor's loop begins with the closed flag.           *)
(***************************************************************************)
CheckClosed(r) ==
  /\ Goto(r, "check", IF closed THEN "error" ELSE "look")
  /\ UNCHANGED <<mine, attempt, accountVars, clientVars, serverVars, historyVars>>

(***************************************************************************)
(* connected: the current client if it is open, otherwise the lock.        *)
(***************************************************************************)
LookCurrent(r) ==
  /\ Goto(r, "look", IF Live(current) THEN "send" ELSE "lock")
  /\ mine' = [mine EXCEPT ![r] = IF Live(current) THEN current ELSE 0]
  /\ UNCHANGED <<attempt, accountVars, clientVars, serverVars, historyVars>>

\* Mutant: no second look once the lock is held.
LockWithoutRecheck(r) ==
  /\ lock = Free
  /\ Goto(r, "lock", "connect")
  /\ lock' = r
  /\ UNCHANGED <<mine, attempt, credentials, current, generation, closed, clientVars,
                 serverVars, historyVars>>

(***************************************************************************)
(* connect_lock, and a second look at current under it.                    *)
(***************************************************************************)
LockConnect(r) ==
  /\ lock = Free
  /\ Goto(r, "lock", IF Live(current) THEN "send" ELSE "connect")
  /\ lock' = IF Live(current) THEN Free ELSE r
  /\ mine' = [mine EXCEPT ![r] = IF Live(current) THEN current ELSE 0]
  /\ UNCHANGED <<attempt, credentials, current, generation, closed, clientVars, serverVars,
                 historyVars>>

(***************************************************************************)
(* connect_with_options has succeeded; the credentials are read, and the   *)
(* new client authenticates with them.                                     *)
(***************************************************************************)
Connect(r) ==
  /\ clients < MaxClients
  /\ Goto(r, "connect", "auth")
  /\ clients' = clients + 1
  /\ open' = open \union {clients + 1}
  /\ mine' = [mine EXCEPT ![r] = clients + 1]
  /\ UNCHANGED <<attempt, accountVars, genOf, serverVars, historyVars>>

(***************************************************************************)
(* Mutant: an error keeps the lock.                                        *)
(***************************************************************************)
ConnectFailsLocked(r) ==
  /\ pc[r] \in {"connect", "auth"}
  /\ pc' = [pc EXCEPT ![r] = "retry"]
  /\ open' = open \ {mine[r]}
  /\ Forget(r)
  /\ UNCHANGED <<attempt, accountVars, clients, genOf, serverVars, historyVars>>

(***************************************************************************)
(* Connecting or authenticating fails: the lock guard is dropped, and with *)
(* it the client that never became current.                                *)
(***************************************************************************)
ConnectFails(r) ==
  /\ pc[r] \in {"connect", "auth"}
  /\ pc' = [pc EXCEPT ![r] = "retry"]
  /\ lock' = Free
  /\ open' = open \ {mine[r]}
  /\ Forget(r)
  /\ UNCHANGED <<attempt, credentials, current, generation, closed, clients, genOf, serverVars, historyVars>>

(***************************************************************************)
(* The server refuses the credentials: no retry.                           *)
(***************************************************************************)
AuthRejected(r) ==
  /\ Goto(r, "auth", "error")
  /\ lock' = Free
  /\ open' = open \ {mine[r]}
  /\ Forget(r)
  /\ UNCHANGED <<attempt, credentials, current, generation, closed, clients, genOf, serverVars, historyVars>>

(***************************************************************************)
(* Authenticated: the client gets the next generation and becomes current. *)
(* Nothing looks at the closed flag or at the credentials again.           *)
(***************************************************************************)
Install(r) ==
  /\ Goto(r, "auth", "send")
  /\ generation' = generation + 1
  /\ genOf' = [genOf EXCEPT ![mine[r]] = generation + 1]
  /\ current' = mine[r]
  /\ lock' = Free
  /\ UNCHANGED <<mine, attempt, credentials, closed, clients, open, serverVars,
                 historyVars>>

-----------------------------------------------------------------------------
\* Mutant: every attempt draws a nonce of its own.
FreshNonce(r) == <<r, attempt[r]>>

(***************************************************************************)
(* The nonce of a command is drawn once, before the loop, and stays the    *)
(* same over its attempts; no two calls draw the same one.                 *)
(***************************************************************************)
Nonce(r) == <<r, 0>>

(***************************************************************************)
(* The request goes out on the client; a closed one refuses it.            *)
(***************************************************************************)
Send(r) ==
  /\ Goto(r, "send", IF Live(mine[r]) THEN "wait" ELSE "invalidate")
  /\ inflight' = IF Live(mine[r]) THEN inflight \union {<<r, mine[r], Nonce(r)>>} ELSE inflight
  /\ late' = [late EXCEPT ![r] = IF closed THEN @ + 1 ELSE @]
  /\ UNCHANGED <<mine, attempt, accountVars, clientVars, answered, seen, effects, floor>>

(***************************************************************************)
(* The server reads a request, which may be long after the client gave up  *)
(* on it, and executes it unless its nonce was executed before.            *)
(***************************************************************************)
ServerExecutes(r) ==
  \E m \in inflight :
    /\ m[1] = r
    /\ inflight' = inflight \ {m}
    /\ answered' = answered \union {<<r, m[2]>>}
    /\ seen' = seen \union {m[3]}
    /\ effects' = [effects EXCEPT ![r] = IF m[3] \in seen THEN @ ELSE @ + 1]
    /\ UNCHANGED <<pc, mine, attempt, accountVars, clientVars, historyVars>>

Reply(r) ==
  /\ Goto(r, "wait", "ok")
  /\ <<r, mine[r]>> \in answered
  /\ Live(mine[r])
  /\ Forget(r)
  /\ UNCHANGED <<attempt, accountVars, clientVars, serverVars, historyVars>>

(***************************************************************************)
(* A timeout, a lost connection or an error other than authentication.     *)
(***************************************************************************)
RequestFails(r) ==
  /\ Goto(r, "wait", "invalidate")
  /\ UNCHANGED <<mine, attempt, accountVars, clientVars, serverVars, historyVars>>

AuthError(r) ==
  /\ Goto(r, "wait", "error")
  /\ <<r, mine[r]>> \in answered
  /\ Forget(r)
  /\ UNCHANGED <<attempt, accountVars, clientVars, serverVars, historyVars>>

(***************************************************************************)
(* invalidate(Some(generation)): only the connection the request failed on *)
(* is thrown away, and only while it is the current one.                   *)
(***************************************************************************)
InvalidateFailed(r) ==
  /\ pc[r] = "invalidate"
  /\ IF current # 0 /\ genOf[current] = genOf[mine[r]]
     THEN Take(r, "invalidate", "drop_failed", "retry")
     ELSE Goto(r, "invalidate", "retry") /\ Forget(r) /\ UNCHANGED current
  /\ UNCHANGED <<attempt, credentials, lock, generation, closed, clientVars, serverVars,
                 historyVars>>

(***************************************************************************)
(* reconnect_max has elapsed, or the call sleeps and starts over.          *)
(***************************************************************************)
Elapsed(r) ==
  /\ Goto(r, "retry", "error")
  /\ UNCHANGED <<mine, attempt, accountVars, clientVars, serverVars, historyVars>>

Backoff(r) ==
  /\ attempt[r] + 1 < MaxAttempts[r]
  /\ Goto(r, "retry", "check")
  /\ attempt' = [attempt EXCEPT ![r] = @ + 1]
  /\ UNCHANGED <<mine, accountVars, clientVars, serverVars, historyVars>>

(***************************************************************************)
(* The future is dropped where it awaits; the lock guard goes with it.     *)
(***************************************************************************)
DropCall(r) ==
  /\ pc[r] \in {"lock", "connect", "auth", "wait", "retry"}
  /\ pc' = [pc EXCEPT ![r] = "dropped"]
  /\ lock' = IF lock = r THEN Free ELSE lock
  /\ open' = IF lock = r THEN open \ {mine[r]} ELSE open
  /\ Forget(r)
  /\ UNCHANGED <<attempt, credentials, current, generation, closed, clients, genOf, serverVars, historyVars>>

-----------------------------------------------------------------------------
(***************************************************************************)
(* AccountClient::close: the flag, then the current client.                *)
(***************************************************************************)
CloseFlag ==
  /\ Goto(closer, "idle", "take")
  /\ closed' = TRUE
  /\ UNCHANGED <<mine, attempt, credentials, current, lock, generation, clientVars,
                 serverVars, historyVars>>

CloseTake ==
  /\ Take(closer, "take", "drop_closed", "closed")
  /\ UNCHANGED <<attempt, credentials, lock, generation, closed, clientVars, serverVars,
                 historyVars>>

CloseCurrent == CloseTaken(closer, "drop_closed", "closed")

(***************************************************************************)
(* The peer or the network ends a connection.                              *)
(***************************************************************************)
ClientDies(k) ==
  /\ k \in open
  /\ open' = open \ {k}
  /\ UNCHANGED <<pc, mine, attempt, accountVars, clients, genOf, serverVars,
                 historyVars>>

Work(r) ==
  \/ SetCredentials(r) \/ InvalidateChanged(r) \/ CloseChanged(r) \/ CheckClosed(r)
  \/ LookCurrent(r) \/ Connect(r) \/ ConnectFails(r) \/ AuthRejected(r)
  \/ Install(r) \/ Send(r) \/ Reply(r) \/ RequestFails(r) \/ AuthError(r)
  \/ InvalidateFailed(r) \/ CloseFailed(r) \/ Elapsed(r) \/ Backoff(r)

Next ==
  \/ \E r \in Requests : Work(r) \/ LockConnect(r) \/ ServerExecutes(r) \/ DropCall(r)
  \/ CloseFlag \/ CloseTake \/ CloseCurrent
  \/ \E k \in Clients : ClientDies(k)

Spec == Init /\ [][Next]_vars

(***************************************************************************)
(* Every task goes on; connect and request end, by a timeout at the latest; *)
(* tokio's Mutex is first come, first served.                              *)
(***************************************************************************)
Fairness == \A r \in Requests : WF_vars(Work(r)) /\ SF_vars(LockConnect(r))

FairSpec == Spec /\ Fairness

-----------------------------------------------------------------------------
(***************************************************************************)
(* The types of the account, its clients, the server and the calls.        *)
(***************************************************************************)
TypeOK ==
  /\ pc \in [Tasks -> States]
  /\ credentials \in Tokens
  /\ current \in 0 .. clients
  /\ lock \in Tasks
  /\ generation \in 0 .. clients
  /\ closed \in BOOLEAN
  /\ clients \in 0 .. MaxClients
  /\ open \subseteq 1 .. clients
  /\ genOf \in [Clients -> 0 .. generation]
  /\ mine \in [Tasks -> 0 .. clients]
  /\ \A r \in Requests : attempt[r] \in 0 .. MaxAttempts[r] - 1
  /\ inflight \subseteq Requests \X Clients \X Nonces
  /\ answered \subseteq Requests \X Clients
  /\ seen \subseteq Nonces
  /\ effects \in [Requests -> Nat]
  /\ floor \in [Requests -> 0 .. generation]
  /\ late \in [Requests -> Nat]

(***************************************************************************)
(* A command takes effect at most once, however often request_cbor retries *)
(* it and however late the server reads the earlier attempts.              *)
(***************************************************************************)
EffectOnce == \A r \in Requests : effects[r] <= 1

(***************************************************************************)
(* A call that changed the credentials never uses a connection that was    *)
(* current before the change (set_credentials invalidates it).             *)
(***************************************************************************)
FreshAfterChange ==
  \A r \in Requests :
    pc[r] \in {"send", "wait"} => genOf[mine[r]] > floor[r] \/ floor[r] = 0

(***************************************************************************)
(* connected opens at most one connection at a time: it never replaces a   *)
(* current client that is still open, which nobody would close any more.   *)
(***************************************************************************)
NeverReplacesLive ==
  [][current' # current /\ current' # 0 => ~Live(current)]_vars

(***************************************************************************)
(* A request that fails on an old connection leaves a newer one alone:     *)
(* the client it takes out of the account is the one it failed on.         *)
(***************************************************************************)
FailureTakesOwn ==
  [][\A r \in Requests :
       pc[r] = "invalidate" /\ pc'[r] # "invalidate" /\ current' # current
         => current = mine[r]]_vars

(***************************************************************************)
(* After close has set the flag each call sends at most one more request:  *)
(* the loop's closed check ends the retries.                               *)
(***************************************************************************)
OneSendAfterClose == \A r \in Requests : late[r] <= 1

(***************************************************************************)
(* Every call comes to an end.                                             *)
(***************************************************************************)
Ended == {"ok", "error", "dropped"}

CallsEnd == \A r \in Requests : <>(pc[r] \in Ended)

(***************************************************************************)
(* The variables keep their types, and the retries of request_cbor stay    *)
(* within bounds: a command has its effect once, and is sent at most once  *)
(* more after close.                                                       *)
(***************************************************************************)
CommandsBounded == TypeOK /\ EffectOnce /\ OneSendAfterClose

(***************************************************************************)
(* The connection of the account changes only as it should: a new token    *)
(* ends the old one, a live one is never replaced, and a failure takes     *)
(* away only the one it happened on.                                       *)
(***************************************************************************)
CurrentConnection == []FreshAfterChange /\ NeverReplacesLive /\ FailureTakesOwn
=============================================================================
