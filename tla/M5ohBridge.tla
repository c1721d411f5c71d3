------------------------------ MODULE M5ohBridge ------------------------------
(***************************************************************************)
(* The loopback bridge of m5oh.rs, which carries a TCP connection over     *)
(* HTTP requests: an upload loop and a download loop, each with its own    *)
(* HTTP connection, numbering its requests and repeating a failed one      *)
(* once.  The router at the other end is not in this repository; it is     *)
(* modelled as the loops use it: it applies a sequence number once and     *)
(* answers a repeated one as before.  A request whose HTTP connection      *)
(* broke may still be on its way.                                          *)
(***************************************************************************)
EXTENDS Naturals, Sequences

CONSTANTS
  UPLOAD_CHUNK,  \* the most bytes one upload request carries
  MaxUp,         \* bytes the local client writes
  MaxDown,       \* bytes the remote end writes
  MaxEmpty,      \* a poll with a number below this may be answered empty
  MaxFaults      \* HTTP connections that break, and refused requests

ASSUME BridgeAssumption ==
  /\ UPLOAD_CHUNK \in Nat \ {0}
  /\ MaxUp \in Nat /\ MaxDown \in Nat /\ MaxEmpty \in Nat /\ MaxFaults \in Nat

VARIABLES
  bridge,      \* the task: creating, running, ended
  pc,          \* where each loop is
  seq,         \* the sequence number each loop is at
  retried,     \* whether the current request has been repeated
  written, localEof,   \* what the local client writes, and whether it ends
  read,        \* how much of it the upload loop has read
  chunk,       \* the upload request's payload: first byte, length, eof
  delivered,   \* what the download loop has written to the local client
  shut,        \* x-mst5-eof came: the local socket is shut down
  flight,      \* requests on their way; alive when their connection is
  replies,     \* answers on their way
  upNext, got, gotEof,        \* router: next upload number, bytes passed on
  downNext, last, taken,      \* router: next download number, its last answer
  out, outEof,                \* what the remote end writes
  faults

ends == <<written, localEof, out, outEof>>
router == <<upNext, got, gotEof, downNext, last, taken>>
net == <<flight, replies>>
vars == <<bridge, pc, seq, retried, ends, read, chunk, delivered, shut, net, router, faults>>

Channels == {"up", "down"}
Bytes(from, len) == [k \in 1 .. len |-> from + k]
Upto(n) == Bytes(0, n)
NoChunk == [from |-> 0, len |-> 0, eof |-> FALSE]

(***************************************************************************)
(* The local client and the remote end write some bytes and then close, or *)
(* keep the connection open; how long they take shows in how much a read   *)
(* or an answer finds.  bridge() first sends upload number 0, without a    *)
(* payload and without a repetition; only then are the loops spawned.      *)
(***************************************************************************)
Init ==
  /\ bridge = "creating"
  /\ pc = [c \in Channels |-> "off"]
  /\ seq = [up |-> 1, down |-> 0]
  /\ retried = [c \in Channels |-> FALSE]
  /\ written \in 0 .. MaxUp /\ localEof \in BOOLEAN
  /\ out \in 0 .. MaxDown /\ outEof \in BOOLEAN
  /\ read = 0 /\ chunk = NoChunk
  /\ delivered = <<>> /\ shut = FALSE
  /\ flight = {} /\ replies = {}
  /\ upNext = 1 /\ got = <<>> /\ gotEof = FALSE
  /\ downNext = 0 /\ last = NoChunk /\ taken = 0
  /\ faults = 0

Create(works) ==
  /\ bridge = "creating"
  /\ bridge' = IF works THEN "running" ELSE "ended"
  /\ pc' = IF works THEN [up |-> "reading", down |-> "ready"] ELSE [c \in Channels |-> "ended"]
  /\ UNCHANGED <<seq, retried, ends, read, chunk, delivered, shut, net, router, faults>>

(***************************************************************************)
(* upload_loop reads what is there, coalescing, and notices the end.       *)
(***************************************************************************)
Read ==
  /\ pc["up"] = "reading"
  /\ \E len \in 0 .. UPLOAD_CHUNK, eof \in BOOLEAN :
       /\ len <= written - read
       /\ eof => localEof /\ read + len = written
       /\ len = 0 => eof
       /\ chunk' = [from |-> read, len |-> len, eof |-> eof]
       /\ read' = read + len
  /\ pc' = [pc EXCEPT !["up"] = "ready"]
  /\ UNCHANGED <<bridge, seq, retried, ends, delivered, shut, net, router, faults>>

(***************************************************************************)
(* request_on writes the request; the loop then waits for the answer on    *)
(* the same HTTP connection, without a timeout.                            *)
(***************************************************************************)
SendRequest(c) ==
  /\ pc[c] = "ready"
  /\ flight' = flight \union
       {[channel |-> c, seq |-> seq[c], alive |-> TRUE,
         body |-> IF c = "up" THEN chunk ELSE NoChunk]}
  /\ pc' = [pc EXCEPT ![c] = "waiting"]
  /\ UNCHANGED <<bridge, seq, retried, ends, read, chunk, delivered, shut, replies, router, faults>>

(***************************************************************************)
(* An error: once, the loop connects again and repeats the same request;   *)
(* the second time, or when it cannot connect, it ends.                    *)
(***************************************************************************)
\* Mutant: a repeated upload gets a new number.
RetryRenumbered(c) ==
  IF retried[c]
  THEN /\ pc' = [pc EXCEPT ![c] = "ended"]
       /\ UNCHANGED <<seq, retried>>
  ELSE \/ /\ pc' = [pc EXCEPT ![c] = "ended"]
          /\ UNCHANGED <<seq, retried>>
       \/ /\ pc' = [pc EXCEPT ![c] = "ready"]
          /\ retried' = [retried EXCEPT ![c] = TRUE]
          /\ seq' = [seq EXCEPT !["up"] = IF c = "up" THEN @ + 1 ELSE @]

Retry(c) ==
  /\ UNCHANGED seq
  /\ IF retried[c]
     THEN /\ pc' = [pc EXCEPT ![c] = "ended"]
          /\ UNCHANGED retried
     ELSE \/ /\ pc' = [pc EXCEPT ![c] = "ended"]
             /\ UNCHANGED retried
          \/ /\ pc' = [pc EXCEPT ![c] = "ready"]
             /\ retried' = [retried EXCEPT ![c] = TRUE]
   
\* The HTTP connection breaks; its request may be lost or still arrive.
Breaks(c) ==
  /\ pc[c] = "waiting"
  /\ faults < MaxFaults
  /\ faults' = faults + 1
  /\ \/ flight' = {IF q.channel = c THEN [q EXCEPT !.alive = FALSE] ELSE q : q \in flight}
     \/ flight' = {q \in flight : q.channel # c}
  /\ replies' = {a \in replies : a.channel # c}
  /\ Retry(c)
  /\ UNCHANGED <<bridge, ends, read, chunk, delivered, shut, router>>

(***************************************************************************)
(* A 200 answer.  The number advances, an end ends the loop, and           *)
(* "connection: close" makes it connect again, which may fail.             *)
(***************************************************************************)
Advance(c, after) ==
  /\ seq' = [seq EXCEPT ![c] = @ + 1]
  /\ retried' = [retried EXCEPT ![c] = FALSE]
  /\ pc' \in {[pc EXCEPT ![c] = after], [pc EXCEPT ![c] = "ended"]}

Awaited(c) == {a \in replies : a.channel = c}

UploadReply ==
  /\ pc["up"] = "waiting"
  /\ \E a \in Awaited("up") :
       /\ replies' = replies \ {a}
       /\ IF a.ok THEN Advance("up", IF chunk.eof THEN "ended" ELSE "reading") ELSE Retry("up")
  /\ UNCHANGED <<bridge, ends, read, chunk, delivered, shut, flight, router, faults>>

DownloadReply ==
  /\ pc["down"] = "waiting"
  /\ \E a \in Awaited("down") :
       /\ replies' = replies \ {a}
       /\ IF ~a.ok
          THEN Retry("down") /\ UNCHANGED <<delivered, shut>>
          ELSE /\ delivered' = delivered \o Bytes(a.body.from, a.body.len)
               /\ shut' = a.body.eof
               /\ IF a.body.eof
                  THEN /\ pc' = [pc EXCEPT !["down"] = "ended"]
                       /\ seq' = [seq EXCEPT !["down"] = @ + 1]
                       /\ UNCHANGED retried
                  ELSE Advance("down", "ready")
  /\ UNCHANGED <<bridge, ends, read, chunk, flight, router, faults>>

(***************************************************************************)
(* select!: the loop that ends first decides; the other one is aborted,    *)
(* wherever it is, and both halves of the local socket are dropped.        *)
(***************************************************************************)
\* Mutant: the bridge waits for both loops.
JoinBoth ==
  /\ bridge = "running"
  /\ \A c \in Channels : pc[c] = "ended"
  /\ bridge' = "ended"
  /\ UNCHANGED <<pc, seq, retried, ends, read, chunk, delivered, shut, net, router, faults>>

Join ==
  /\ bridge = "running"
  /\ \E c \in Channels : pc[c] = "ended"
  /\ bridge' = "ended"
  /\ pc' = [c \in Channels |-> "ended"]
  /\ UNCHANGED <<seq, retried, ends, read, chunk, delivered, shut, net, router, faults>>

-----------------------------------------------------------------------------
(***************************************************************************)
(* The router (external).  It may refuse a request it has not applied.     *)
(***************************************************************************)
Answer(q, ok, body) ==
  replies' = replies \union
    IF q.alive THEN {[channel |-> q.channel, ok |-> ok, body |-> body]} ELSE {}

RouterUp ==
  \E q \in flight :
    /\ q.channel = "up"
    /\ flight' = flight \ {q}
    /\ IF q.seq = upNext
       THEN /\ upNext' = upNext + 1
            /\ got' = got \o Bytes(q.body.from, q.body.len)
            /\ gotEof' = q.body.eof
            /\ Answer(q, TRUE, NoChunk)
       ELSE Answer(q, q.seq < upNext, NoChunk) /\ UNCHANGED <<upNext, got, gotEof>>
    /\ UNCHANGED <<bridge, pc, seq, retried, ends, read, chunk, delivered, shut, downNext, last,
                   taken, faults>>

RouterDown ==
  \E q \in flight :
    /\ q.channel = "down"
    /\ flight' = flight \ {q}
    /\ IF q.seq = downNext
       THEN \E len \in 0 .. out - taken :
              LET body == [from |-> taken, len |-> len, eof |-> outEof /\ taken + len = out]
              IN  /\ downNext' = downNext + 1
                  /\ taken' = taken + len
                  /\ last' = body
                  /\ len = 0 => body.eof \/ downNext < MaxEmpty
                  /\ Answer(q, TRUE, body)
       ELSE /\ Answer(q, q.seq + 1 = downNext, IF q.seq + 1 = downNext THEN last ELSE NoChunk)
            /\ UNCHANGED <<downNext, last, taken>>
    /\ UNCHANGED <<bridge, pc, seq, retried, ends, read, chunk, delivered, shut, upNext, got,
                   gotEof, faults>>

Refuses ==
  \E q \in flight :
    /\ faults < MaxFaults
    /\ faults' = faults + 1
    /\ flight' = flight \ {q}
    /\ Answer(q, FALSE, NoChunk)
    /\ UNCHANGED <<bridge, pc, seq, retried, ends, read, chunk, delivered, shut, router>>

Loops ==
  \/ Read \/ UploadReply \/ DownloadReply
  \/ \E c \in Channels : SendRequest(c)

Next ==
  \/ Create(TRUE) \/ Create(FALSE)
  \/ Loops \/ Join
  \/ \E c \in Channels : Breaks(c)
  \/ RouterUp \/ RouterDown \/ Refuses

Spec == Init /\ [][Next]_vars

\* Tasks are polled, and the router answers what reaches it.
FairSpec == Spec /\ WF_vars(Loops) /\ WF_vars(Join) /\ WF_vars(RouterUp) /\ WF_vars(RouterDown)

-----------------------------------------------------------------------------
(***************************************************************************)
(* Types.                                                                  *)
(***************************************************************************)
TypeOK ==
  /\ bridge \in {"creating", "running", "ended"}
  /\ pc \in [Channels -> {"off", "reading", "ready", "waiting", "ended"}]
  /\ seq \in [Channels -> Nat]
  /\ retried \in [Channels -> BOOLEAN]
  /\ read \in 0 .. written /\ taken \in 0 .. out
  /\ chunk.len <= UPLOAD_CHUNK

(***************************************************************************)
(* The remote end receives exactly what the local client wrote, in order,  *)
(* up to some point: no request repeated after a broken connection, and no *)
(* old one that arrives late, doubles or skips bytes.                      *)
(***************************************************************************)
UpPrefix == Len(got) <= written /\ got = Upto(Len(got))

(***************************************************************************)
(* The local client receives exactly what the remote end wrote.            *)
(***************************************************************************)
DownPrefix == Len(delivered) <= out /\ delivered = Upto(Len(delivered))

(***************************************************************************)
(* An end passed on is the end: the remote sees it only after every byte   *)
(* the local client wrote, and the local socket is shut down on            *)
(* x-mst5-eof only after every byte of the remote end.                     *)
(***************************************************************************)
EndsComplete ==
  /\ gotEof => localEof /\ Len(got) >= written
  /\ shut => outEof /\ Len(delivered) >= out

(***************************************************************************)
(* One loop never runs on without the other: once one of them has ended,   *)
(* the bridge ends, which closes the local socket.                         *)
(***************************************************************************)
BridgeEnds == (\E c \in Channels : pc[c] = "ended") ~> bridge = "ended"

(***************************************************************************)
(* The local client's shutdown is noticed and ends the bridge, whatever    *)
(* breaks on the way.                                                      *)
(***************************************************************************)
ShutdownEnds == bridge = "running" /\ localEof ~> bridge = "ended"

(***************************************************************************)
(* The variables keep their types, and repeated, late and lost HTTP        *)
(* requests leave both byte streams as they were written, their ends       *)
(* included.                                                               *)
(***************************************************************************)
StreamsKept == TypeOK /\ UpPrefix /\ DownPrefix /\ EndsComplete

(***************************************************************************)
(* The bridge does not outlive either of its loops, nor the local client   *)
(* that has shut down.                                                     *)
(***************************************************************************)
AlwaysEnds == BridgeEnds /\ ShutdownEnds
=============================================================================
