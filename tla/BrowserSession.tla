---------------------------- MODULE BrowserSession ----------------------------
(***************************************************************************)
(* The browser binding's client, Mst5Web: one session behind a RefCell,    *)
(* one command at a time, carried over numbered HTTP requests without      *)
(* repetition.  A command keeps the RefCell borrowed across its awaits, so *)
(* another call in the meantime panics in borrow_mut and changes nothing.  *)
(* The cipher is reduced to its nonces (module RecordLayer) and a record   *)
(* to a length followed by its body, which the router may cut anywhere.    *)
(* The router and the server are external, as in module M5ohBridge.        *)
(***************************************************************************)
EXTENDS Naturals, Sequences

CONSTANTS
  MaxCalls,    \* calls of command
  MaxFaults,   \* HTTP requests that fail, and commands too large to send
  MaxEvents,   \* frames the server sends unasked
  MaxEmpty     \* a poll with a number below this may be answered empty

ASSUME BrowserAssumption ==
  /\ MaxCalls \in Nat /\ MaxFaults \in Nat /\ MaxEvents \in Nat /\ MaxEmpty \in Nat

VARIABLES
  borrowed,   \* the call that holds the RefCell
  present,    \* whether there is a session in it
  pc, result, \* each call
  idOf,       \* the request id of each call
  session,    \* BrowserSession: numbers, nonces and the bytes received
  router,     \* external: what it has applied and last answered
  server,     \* external: its nonces, what it executed and has to answer
  stream,     \* external: bytes on their way down
  events, faults

world == <<router, server, stream, events>>
vars == <<borrowed, present, pc, result, idOf, session, world, faults>>

\* Calls are numbered in the order they are made; 0 is nobody.
Calls == 1 .. MaxCalls
NoCall == 0
Called(c) == pc[c] = "idle" /\ \A d \in 1 .. c - 1 : pc[d] # "idle"

BODY == 2                                     \* bytes of a record's body
Record(nonce) == <<<<"length", nonce, 0>>, <<"body", nonce, 1>>, <<"body", nonce, 2>>>>
Take(s, n) == SubSeq(s, 1, n)
Drop(s, n) == SubSeq(s, n + 1, Len(s))

(***************************************************************************)
(* Handshake, HELLO and AUTH have used the first numbers and nonces alike  *)
(* on both sides; counting starts after them.                              *)
(***************************************************************************)
Init ==
  /\ borrowed = NoCall
  /\ present = TRUE
  /\ pc = [c \in Calls |-> "idle"]
  /\ result = [c \in Calls |-> <<"none">>]
  /\ idOf = [c \in Calls |-> 0]
  /\ session = [next_request |-> 1, seal |-> 0, open |-> 0, upstream_seq |-> 0, downstream_seq |-> 0,
                received |-> <<>>]
  /\ router = [up |-> 0, down |-> 0, last |-> <<>>]
  /\ server = [open |-> 0, seal |-> 0, executed |-> <<>>, todo |-> {}, frames |-> <<>>, alive |-> TRUE]
  /\ stream = <<>>
  /\ events = 0
  /\ faults = 0

\* A call ends and gives the RefCell back.
Return(c, how) ==
  /\ borrowed' = NoCall
  /\ pc' = [pc EXCEPT ![c] = "done"]
  /\ result' = [result EXCEPT ![c] = how]

(***************************************************************************)
(* command(): borrow_mut panics while another call holds the session.      *)
(* The id is taken and the record sealed before anything is sent.          *)
(***************************************************************************)
BorrowFails(c) ==
  /\ Called(c)
  /\ borrowed # NoCall
  /\ pc' = [pc EXCEPT ![c] = "done"]
  /\ result' = [result EXCEPT ![c] = <<"panic">>]
  /\ UNCHANGED <<borrowed, present, idOf, session, world, faults>>

NotConnected(c) ==
  /\ Called(c)
  /\ borrowed = NoCall /\ ~present
  /\ pc' = [pc EXCEPT ![c] = "done"]
  /\ result' = [result EXCEPT ![c] = <<"error">>]
  /\ UNCHANGED <<borrowed, present, idOf, session, world, faults>>

Begin(c) ==
  /\ Called(c)
  /\ borrowed = NoCall /\ present
  /\ borrowed' = c
  /\ idOf' = [idOf EXCEPT ![c] = session.next_request]
  /\ session' = [session EXCEPT !.next_request = @ + 1, !.seal = @ + 1]
  /\ pc' = [pc EXCEPT ![c] = "upload"]
  /\ UNCHANGED <<present, result, world, faults>>

(***************************************************************************)
(* The router applies an upload with the next number and answers any other *)
(* as one it has already applied; the server opens what reaches it.        *)
(***************************************************************************)
Apply(c) ==
  IF session.upstream_seq # router.up
  THEN UNCHANGED <<router, server>>
  ELSE /\ router' = [router EXCEPT !.up = @ + 1]
       /\ server' = IF server.alive /\ session.seal = server.open + 1
                    THEN [server EXCEPT !.open = @ + 1, !.executed = Append(@, idOf[c]),
                                        !.todo = @ \union {idOf[c]}]
                    ELSE [server EXCEPT !.alive = FALSE]

Uploaded(c) ==
  /\ pc[c] = "upload"
  /\ Apply(c)
  /\ session' = [session EXCEPT !.upstream_seq = @ + 1]
  /\ pc' = [pc EXCEPT ![c] = "length"]
  /\ UNCHANGED <<borrowed, present, result, idOf, stream, events, faults>>

(***************************************************************************)
(* The upload fails: too large for a GET, or the request or its answer is  *)
(* lost.  The nonce has been used, the number has not.                     *)
(***************************************************************************)
UploadFails(c) ==
  /\ pc[c] = "upload"
  /\ faults < MaxFaults
  /\ faults' = faults + 1
  /\ Apply(c) \/ UNCHANGED <<router, server>>
  /\ Return(c, <<"error">>)
  /\ UNCHANGED <<present, idOf, session, stream, events>>

-----------------------------------------------------------------------------
(***************************************************************************)
(* read_exact polls until there are enough bytes, without a bound.         *)
(***************************************************************************)
Needs(c) == IF pc[c] = "length" THEN 1 ELSE BODY

Polled(n) ==
  IF session.downstream_seq = router.down
  THEN /\ router' = [router EXCEPT !.down = @ + 1, !.last = Take(stream, n)]
       /\ stream' = Drop(stream, n)
  ELSE UNCHANGED <<router, stream>>

\* Mutant: polling stops as soon as anything has come.
PollOnlyWhenEmpty(c) ==
  /\ pc[c] \in {"length", "body"}
  /\ session.received = <<>>
  /\ \E n \in 0 .. Len(stream) :
       /\ n = 0 => router.down < MaxEmpty \/ session.downstream_seq # router.down
       /\ Polled(n)
       /\ session' = [session EXCEPT !.downstream_seq = @ + 1, !.received = @ \o router'.last]
  /\ UNCHANGED <<borrowed, present, pc, result, idOf, server, events, faults>>

Poll(c) ==
  /\ pc[c] \in {"length", "body"}
  /\ Len(session.received) < Needs(c)
  /\ \E n \in 0 .. Len(stream) :
       /\ n = 0 => router.down < MaxEmpty \/ session.downstream_seq # router.down
       /\ Polled(n)
       /\ session' = [session EXCEPT !.downstream_seq = @ + 1, !.received = @ \o router'.last]
  /\ UNCHANGED <<borrowed, present, pc, result, idOf, server, events, faults>>

\* The poll fails, before or after the router counted it.  A length that was
\* taken off the bytes received is not put back.
PollFails(c) ==
  /\ pc[c] \in {"length", "body"}
  /\ Len(session.received) < Needs(c)
  /\ faults < MaxFaults
  /\ faults' = faults + 1
  /\ (\E n \in 1 .. Len(stream) : Polled(n)) \/ UNCHANGED <<router, stream>>
  /\ Return(c, <<"error">>)
  /\ UNCHANGED <<present, idOf, session, server, events>>

(***************************************************************************)
(* read_record: the length, then the body.  After a lost length a body     *)
(* byte is read as one: it is refused, or taken for the length of a body   *)
(* that cannot be opened.                                                  *)
(***************************************************************************)
ReadLength(c) ==
  /\ pc[c] = "length"
  /\ Len(session.received) >= 1
  /\ session' = [session EXCEPT !.received = Tail(@)]
  /\ \/ pc' = [pc EXCEPT ![c] = "body"] /\ UNCHANGED <<borrowed, result>>
     \/ Head(session.received)[1] = "body" /\ Return(c, <<"error">>)
  /\ UNCHANGED <<present, idOf, world, faults>>

Opens == Take(session.received, BODY) = Tail(Record(session.open))
Frame == server.frames[session.open + 1]

\* Mutant: the first frame is the answer.
TakesAnyFrame(c) ==
  /\ pc[c] = "body"
  /\ Len(session.received) >= BODY
  /\ session' = [session EXCEPT !.received = Drop(@, BODY), !.open = @ + IF Opens THEN 1 ELSE 0]
  /\ IF ~Opens THEN Return(c, <<"error">>) ELSE Return(c, Frame)
  /\ UNCHANGED <<present, idOf, world, faults>>

ReadBody(c) ==
  /\ pc[c] = "body"
  /\ Len(session.received) >= BODY
  /\ session' = [session EXCEPT !.received = Drop(@, BODY), !.open = @ + IF Opens THEN 1 ELSE 0]
  /\ IF ~Opens THEN Return(c, <<"error">>)
     ELSE IF Frame[2] = idOf[c] THEN Return(c, Frame)
     ELSE pc' = [pc EXCEPT ![c] = "length"] /\ UNCHANGED <<borrowed, result>>
  /\ UNCHANGED <<present, idOf, world, faults>>

(***************************************************************************)
(* close() drops the session; while a command holds it, close panics.      *)
(***************************************************************************)
Close ==
  /\ borrowed = NoCall /\ present
  /\ present' = FALSE
  /\ UNCHANGED <<borrowed, pc, result, idOf, session, world, faults>>

-----------------------------------------------------------------------------
(***************************************************************************)
(* The server answers what it executed, in any order, and sends events.    *)
(***************************************************************************)
Push(frame) ==
  /\ server' = [server EXCEPT !.seal = @ + 1, !.frames = Append(@, frame),
                              !.todo = @ \ {frame[2]}]
  /\ stream' = stream \o Record(server.seal)

ServerAnswers ==
  /\ server.alive
  /\ \E id \in server.todo : Push(<<"answer", id>>)
  /\ UNCHANGED <<borrowed, present, pc, result, idOf, session, router, events, faults>>

ServerEvent ==
  /\ server.alive
  /\ events < MaxEvents
  /\ events' = events + 1
  /\ Push(<<"event", 0>>)
  /\ UNCHANGED <<borrowed, present, pc, result, idOf, session, router, faults>>

Step(c) == Begin(c) \/ Uploaded(c) \/ Poll(c) \/ ReadLength(c) \/ ReadBody(c)

Next ==
  \/ \E c \in Calls : Step(c) \/ BorrowFails(c) \/ NotConnected(c) \/ UploadFails(c) \/ PollFails(c)
  \/ Close \/ ServerAnswers \/ ServerEvent

Spec == Init /\ [][Next]_vars

\* The browser runs what is ready, fetches are answered, the server answers.
FairSpec == Spec /\ (\A c \in Calls : WF_vars(Step(c))) /\ WF_vars(ServerAnswers)

-----------------------------------------------------------------------------
(***************************************************************************)
(* Types.                                                                  *)
(***************************************************************************)
TypeOK ==
  /\ borrowed \in Calls \union {NoCall}
  /\ present \in BOOLEAN
  /\ pc \in [Calls -> {"idle", "upload", "length", "body", "done"}]
  /\ \A c \in Calls : pc[c] \in {"upload", "length", "body"} <=> borrowed = c
  /\ session.open <= server.seal
  /\ Len(server.frames) = server.seal
  /\ session.next_request \in Nat

(***************************************************************************)
(* A command that succeeds got the answer to itself, and the server        *)
(* executed it once: also after commands that failed half-way left their   *)
(* answers, or parts of them, in the stream.                               *)
(***************************************************************************)
OwnAnswer ==
  \A c \in Calls :
    result[c] \notin {<<"none">>, <<"error">>, <<"panic">>} =>
      /\ result[c] = <<"answer", idOf[c]>>
      /\ \E i \in DOMAIN server.executed : server.executed[i] = idOf[c]

(***************************************************************************)
(* Commands are executed in the order they were called in, none twice.     *)
(***************************************************************************)
ExecutedInOrder ==
  \A i, j \in DOMAIN server.executed : i < j => server.executed[i] < server.executed[j]

(***************************************************************************)
(* As long as every HTTP request succeeds the two sides stay in step: the  *)
(* server never meets a wrong nonce, no number is answered as old, and no  *)
(* record is cut in the wrong place.                                       *)
(***************************************************************************)
InStep ==
  faults = 0 =>
    /\ server.alive
    /\ session.upstream_seq = router.up
    /\ session.downstream_seq = router.down
    /\ present => \A c \in Calls : result[c] # <<"error">>

(***************************************************************************)
(* As long as every HTTP request succeeds, a command that has begun ends.  *)
(***************************************************************************)
CommandsEnd == \A c \in Calls : pc[c] = "upload" ~> pc[c] = "done" \/ faults > 0

(***************************************************************************)
(* The variables keep their types, and commands, executions and answers    *)
(* match: in order, none twice, each command its own answer, both sides in *)
(* step while no request fails.                                            *)
(***************************************************************************)
Matched == TypeOK /\ OwnAnswer /\ ExecutedInOrder /\ InStep
=============================================================================
