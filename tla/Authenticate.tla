----------------------------- MODULE Authenticate -----------------------------
(***************************************************************************)
(* What follows connect: connect_authenticated, connect_media,             *)
(* connect_voice and connect_media_internal present a credential on the    *)
(* connection they opened and give it up if that fails; later calls        *)
(* authenticate, log in and query on the connected Client, from any task.  *)
(*                                                                         *)
(* Call 0 is the entry that connects, the others are made on its Client.   *)
(* config.calls[t + 1] is call t: what it does and as whom.                *)
(***************************************************************************)
EXTENDS Connect

CONSTANTS
  MEDIA, VOICE,  \* FEATURE_MEDIA_STREAMS and FEATURE_VOICE_STREAMS
  Who            \* principals, "anonymous" among them

None == "none"

Entries == {"connect", "token", "media", "voice", "internal"}

ASSUME AuthenticateAssumption ==
  /\ None \notin Who /\ "anonymous" \in Who
  /\ \A c \in Configs :
       /\ c.calls \in Seq([do : Entries \cup {"authenticate", "login", "query"}, who : Who])
       /\ c.calls # <<>>
       /\ \A i \in DOMAIN c.calls : c.calls[i].do \in Entries <=> i = 1
       /\ c.overlap \in BOOLEAN

VARIABLES
  task,       \* where every call is
  answer,     \* the answer the reader has put into a call's channel
  wire,       \* requests on their way to the node
  principal,  \* Client.principal
  seat,       \* whom the node takes this session for
  socket      \* the connection that connect returned

calls == <<task, answer, wire, principal, seat, socket>>

allvars == <<vars, calls>>

Tasks == 0 .. Len(config.calls) - 1

Do(t) == config.calls[t + 1].do

AuthInit ==
  /\ Init
  /\ task = [t \in Tasks |-> "idle"]
  /\ answer = [t \in Tasks |-> None]
  /\ wire = <<>>
  /\ principal = None
  /\ seat = None
  /\ socket = None

Waiting == {"auth", "login", "join", "query"}

\* Whom a request speaks for; a login first opens an anonymous session.
Speaker(t, kind) ==
  IF Do(t) = "login" /\ kind = "auth" THEN "anonymous" ELSE config.calls[t + 1].who

Send(t, kind) ==
  /\ wire' = Append(wire, [task |-> t, kind |-> kind])
  /\ task' = [task EXCEPT ![t] = kind]
  /\ answer' = [answer EXCEPT ![t] = None]
  /\ UNCHANGED <<vars, principal, seat, socket>>

Goto(t, where) ==
  /\ task' = [task EXCEPT ![t] = where]
  /\ UNCHANGED <<vars, answer, wire, seat>>

\* Mutant: the guard is let go of before the answer is looked at.
FailedKept(t) == Goto(t, "error") /\ UNCHANGED <<principal, socket>>

\* A call returns an error.  An entry drops its Client, the last handle of the
\* connection, and connect_media's guard has it closed.
Failed(t) ==
  /\ Goto(t, "error")
  /\ socket' = IF t = 0 /\ socket = "open" THEN "closing" ELSE socket
  /\ UNCHANGED principal

\* The Client of an entry that succeeds goes to the caller, out of the guard.
Keeps(t) == UNCHANGED socket

Returned(t) == Goto(t, "ok") /\ UNCHANGED principal /\ Keeps(t)

(***************************************************************************)
(* The entry                                                               *)
(***************************************************************************)

\* Self::connect returns.
Connected ==
  /\ task[0] = "idle"
  /\ \/ /\ pc = "connected"
        /\ Goto(0, "begin")
        /\ socket' = "open"
        /\ UNCHANGED principal
     \/ /\ pc = "failed"
        /\ Failed(0)

Needs(do) ==
  IF do \in {"media", "internal"} THEN {MEDIA}
  ELSE IF do = "voice" THEN {VOICE} ELSE {}

Begin ==
  /\ task[0] = "begin"
  /\ IF Do(0) = "connect" THEN Returned(0)
     ELSE IF ~(Needs(Do(0)) \subseteq Node.offer.features) THEN Failed(0)
     ELSE Send(0, "auth")

\* connect_voice opens its stream.
Join ==
  /\ task[0] = "joining"
  /\ Send(0, "join")

(***************************************************************************)
(* Calls on the Client                                                     *)
(***************************************************************************)

Active(t) == t \in Tasks /\ task[t] \notin {"idle", "ok", "error"}

\* Mutant: a query does not ask whether there is a principal.
GatePassed == TRUE

has_principal == principal # None

\* request_cbor_with_options; a nonce or a deadline it refuses before sending
\* ends the call the same way as the missing principal.
request_cbor(t, kind) ==
  IF has_principal THEN Send(t, kind) ELSE Failed(t)

Call(t) ==
  /\ t # 0
  /\ task[t] = "idle"
  /\ task[0] = "ok"
  /\ config.overlap \/ \A u \in Tasks : ~Active(u)
  /\ CASE Do(t) = "authenticate" -> Send(t, "auth")
       [] Do(t) = "query" -> request_cbor(t, "query")
       [] Do(t) = "login" ->
            IF has_principal THEN Goto(t, "command") /\ UNCHANGED <<principal, socket>>
            ELSE Send(t, "auth")

\* The command of register, login or verify_email_auth.
Command(t) ==
  /\ task[t] = "command"
  /\ request_cbor(t, "login")

set_principal(who) == principal' = who

\* Mutant: the answer of login leaves the principal as it was.
PromotesNobody(t) ==
  /\ task[t] \in Waiting
  /\ answer[t] # None
  /\ IF answer[t] = "yes" /\ task[t] = "auth"
     THEN /\ Goto(t, IF Do(t) = "voice" THEN "joining"
                     ELSE IF Do(t) = "login" THEN "command" ELSE "ok")
          /\ set_principal(Speaker(t, "auth"))
          /\ Keeps(t)
     ELSE IF answer[t] = "yes" THEN Returned(t) ELSE Failed(t)

\* A call takes its answer: into_result, and, for AUTH and the commands that
\* log in, set_principal with whom the answer names.
Answered(t) ==
  /\ task[t] \in Waiting
  /\ answer[t] # None
  /\ IF answer[t] # "yes" THEN Failed(t)
     ELSE IF task[t] \in {"auth", "login"}
     THEN /\ Goto(t, IF Do(t) = "voice" THEN "joining"
                     ELSE IF Do(t) = "login" /\ task[t] = "auth" THEN "command" ELSE "ok")
          /\ set_principal(Speaker(t, task[t]))
          /\ Keeps(t)
     ELSE Returned(t)

\* Mutant: JOIN of connect_voice is waited for without a limit.
GivesUpButJoin(t) ==
  /\ task[t] \in Waiting \ {"join"}
  /\ Failed(t)

\* The time of a request is up, or the connection has failed under it.
RequestFails(t) ==
  /\ task[t] \in Waiting
  /\ Failed(t)

\* The host drops the future of the entry.
Cancel ==
  /\ task[0] \in Waiting
  /\ Failed(0)

\* The spawned close, or the connection's own tasks after the last handle.
Closes ==
  /\ socket = "closing"
  /\ socket' = "closed"
  /\ UNCHANGED <<vars, task, answer, wire, principal, seat>>

(***************************************************************************)
(* The node, external                                                      *)
(***************************************************************************)

\* The node takes the next request.  What it accepts makes the session that
\* principal's, even if the client cannot read the answer or has given up.
NodeServes ==
  /\ wire # <<>>
  /\ socket \in {"open", "closing"}
  /\ LET m == Head(wire)
     IN \E verdict \in {"yes", "no"} \cup IF m.kind = "join" THEN {} ELSE {"odd"} :
          /\ seat' = IF verdict # "no" /\ m.kind \in {"auth", "login"}
                     THEN Speaker(m.task, m.kind) ELSE seat
          /\ answer' = IF task[m.task] = m.kind
                       THEN [answer EXCEPT ![m.task] = verdict] ELSE answer
  /\ wire' = Tail(wire)
  /\ UNCHANGED <<vars, task, principal, socket>>

\* The connection fails.
Lose ==
  /\ socket = "open"
  /\ socket' = "lost"
  /\ wire' = <<>>
  /\ UNCHANGED <<vars, task, answer, principal, seat>>

Step(t) == Command(t) \/ Answered(t) \/ RequestFails(t)

Entry == Connected \/ Begin \/ Join

AuthNext ==
  \/ Next /\ UNCHANGED calls
  \/ Entry
  \/ \E t \in Tasks : Call(t) \/ Step(t)
  \/ Cancel
  \/ Closes
  \/ NodeServes
  \/ Lose

AuthSpec == AuthInit /\ [][AuthNext]_allvars

\* The runtime goes on polling every task, and its timers fire; that the host
\* makes a call, or the node answers, is not assumed.
AuthFairSpec ==
  /\ AuthSpec
  /\ WF_allvars((Client /\ UNCHANGED calls) \/ Entry \/ Step(0))
  /\ \A t \in 1 .. 2 : WF_allvars(t \in Tasks /\ Step(t))
  /\ WF_allvars(Closes)

(***************************************************************************)
(* Properties                                                              *)
(***************************************************************************)

\* Type: and a request of a call is on the wire at most once.
AuthTypeOK ==
  /\ task \in [Tasks -> Waiting \cup {"idle", "begin", "joining", "command", "ok", "error"}]
  /\ answer \in [Tasks -> {None, "yes", "no", "odd"}]
  /\ wire \in Seq([task : Tasks, kind : Waiting])
  /\ \A i, j \in DOMAIN wire : wire[i] = wire[j] => i = j
  /\ principal \in Who \cup {None}
  /\ seat \in Who \cup {None}
  /\ socket \in {None, "open", "closing", "closed", "lost"}

\* A credential leaves the client only for a node that holds the pinned key,
\* shares the session it is sealed in, and has the feature that connect_media,
\* connect_media_internal or connect_voice is about to use.
CredentialToPinned ==
  \A i \in DOMAIN wire :
    /\ Node.static = Pins[pin]
    /\ session.seal.key = peer.session.open.key
    /\ Needs(Do(0)) \subseteq Node.offer.features

\* No query, no command and no JOIN reaches the node on a session for which it
\* has not accepted a credential: request_cbor refuses without a principal, and
\* set_principal comes only after the answer.
QueriesAuthenticated ==
  \A i \in DOMAIN wire : wire[i].kind # "auth" => seat # None

\* "the principal established by the latest successful AUTH exchange": calls
\* made one after the other, none of which failed, leave Client.principal at
\* whom the node takes the session for.
PrincipalLatest ==
  /\ ~config.overlap
  /\ \A t \in Tasks : ~Active(t) /\ task[t] # "error"
  => principal = seat

\* The connection is the caller's exactly when the entry succeeded: the one
\* connect_media or another entry returned is not closed behind the caller.
ReturnedOpen == task[0] = "ok" => socket \in {"open", "lost"}

\* "A connected socket must be closed if media authentication fails or its
\* future is cancelled": an entry that fails leaves no open connection behind.
FailedCloses == <>[](task[0] = "error" => socket # "open")

\* Every call that began ends, with a result or an error, whatever the node
\* does; each is made once.
AuthCallsEnd == <>[](\A t \in Tasks : ~Active(t))

\* The variables keep their types, and what is on its way to a node may be: a
\* credential to the pinned node, anything else only after the node accepted
\* one.
RequestsJustified == AuthTypeOK /\ CredentialToPinned /\ QueriesAuthenticated

\* A connection belongs to the caller of an entry that succeeded, and to
\* nobody after one that failed.
ConnectionOwned == []ReturnedOpen /\ FailedCloses

\* Connecting, presenting a credential and every later call end, whatever the
\* node does.
EntriesEnd == ConnectEnds /\ AuthCallsEnd
===============================================================================
