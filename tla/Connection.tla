----------------------------- MODULE Connection -----------------------------
(***************************************************************************)
(* The multiplexed connection of src/src/connection.rs: many calls share   *)
(* one encrypted socket.  A call takes an in-flight slot, takes the        *)
(* request_order lock, draws an id, registers a response channel under it, *)
(* hands its frame to the writer task and waits for frames that the reader *)
(* task dispatches by id.  Calls time out, are dropped at any await, and   *)
(* the connection is failed or closed underneath them.                     *)
(*                                                                         *)
(* The calls are the users of a connection in src/src/lib.rs: Rpc calls    *)
(* (request), Upload and Download (begin plus a stream), and Voice         *)
(* (begin_stream), whose handle is shared with the senders in Talk.        *)
(* Permits (in-flight slots, writer budget) and the request_order guard    *)
(* are owned values in the code, released when their owner is dropped;     *)
(* they are derived here from where each owner is.                         *)
(***************************************************************************)
EXTENDS Naturals, Sequences, FiniteSets

CONSTANTS
    Rpc, Upload, Download, Voice,  \* the calls, by the function that makes them
    Talk,                          \* tasks that send on a voice stream
    TalkOf,                        \* the stream each of them sends on
    MAX_IN_FLIGHT,
    RESPONSE_QUEUE,                \* capacity of a call's response channel
    CONTROL_WRITER_QUEUE,
    WRITER_QUEUE,
    WriterBudget,                  \* units of WRITER_BUDGET_UNIT bytes
    DataUnits,                     \* units a STREAM_DATA frame takes
    IdLimit,                       \* u64::MAX: this id is never given out
    MaxChunks,                     \* bound: STREAM_DATA frames of one transfer
    Scenarios,                     \* the situations a run looks at
    Nobody                         \* no process

Calls == Rpc \cup Upload \cup Download \cup Voice
Tasks == {"reader", "writer", "keepalive", "closer"}
Procs == Calls \cup Talk \cup Tasks

ASSUME CallsAssumption ==
    /\ Rpc \cap (Upload \cup Download \cup Voice) = {}
    /\ Upload \cap (Download \cup Voice) = {}
    /\ Download \cap Voice = {}
    /\ Talk \cap Calls = {}
    /\ Tasks \cap (Calls \cup Talk) = {}
    /\ TalkOf \in [Talk -> Voice]
    /\ Nobody \notin Procs

ASSUME BoundsAssumption ==
    /\ MAX_IN_FLIGHT \in Nat \ {0}
    /\ RESPONSE_QUEUE \in Nat \ {0}
    /\ CONTROL_WRITER_QUEUE \in Nat \ {0}
    /\ WRITER_QUEUE \in Nat \ {0}
    /\ DataUnits \in Nat \ {0}
    /\ WriterBudget \in Nat
    /\ IdLimit \in Nat \ {0}
    /\ MaxChunks \in Nat
    /\ \A s \in Scenarios : s.first \in Nat \ {0}

VARIABLES
    pc,       \* where each process is
    at,       \* how far its enqueue_frame (or enqueue_close) has come
    id,       \* request id a call has drawn, 0 before
    nextId,   \* the counter under request_order
    pending,  \* the map from id to response sender, as a set of pairs
    inbox,    \* what each call's response channel holds
    hand,     \* the frame the reader is sending to a channel (0 or 1)
    drain,    \* senders fail_pending has taken and not served yet
    closed,   \* the closed flag
    ctl, med, \* the writer's control and media queue
    writing,  \* the command the writer has taken (0 or 1)
    wire,     \* records written to the socket, without PING and PONG
    shut,     \* the write half is shut down
    handle,   \* the application still holds the client
    chunks,   \* STREAM_DATA frames a transfer has moved
    out,      \* what a call returned
    scenario  \* who may call, what may happen, ids given out so far: never changes

callVars == <<id, nextId, chunks, out>>
wireVars == <<writing, wire, shut>>
queueVars == <<ctl, med>>
respVars == <<pending, inbox, hand, drain>>
vars == <<pc, at, callVars, respVars, closed, queueVars, wireVars, handle, scenario>>

\* What the environment may do: let timers expire, fall silent, fail, ...
Inputs == scenario.inputs
-----------------------------------------------------------------------------
(* Frames.  Of a server frame only what dispatch tells apart is kept: a    *)
(* part (ACK, STREAM_DATA) leaves the request open, a final frame (RESULT, *)
(* EVENT_BATCH, ERROR, PONG, STREAM_END, STREAM_ABORT) ends it.  "err" is  *)
(* the message fail_pending puts in a channel.                             *)

OutKinds == {"OPEN", "DATA", "END", "ABORT", "CANCEL", "PING", "PONG", "CLOSE"}
InKinds  == {"part", "final", "err"}
Response == [kind : InKinds, id : Nat]
Delivery == [call : Calls, kind : InKinds, id : Nat]
Written  == [kind : OutKinds, id : Nat]
Command  == [kind : OutKinds, id : Nat, owner : Procs \cup {Nobody}]

\* The frame a process is writing while it is inside enqueue_frame.
KindAt ==
    [open |-> "OPEN", data |-> "DATA", end |-> "END", abort |-> "ABORT",
     handleabort |-> "ABORT", cancelling |-> "CANCEL", tasking |-> "CANCEL",
     ping |-> "PING", pong |-> "PONG", closewait |-> "CLOSE"]

WritingStates ==
    {"open", "data", "end", "abort", "handleabort", "cancelling", "tasking",
     "ping", "pong", "closewait"}

KindOf(p) == KindAt[pc[p]]

IdOf(p) ==
    IF p \in Calls THEN id[p] ELSE IF p \in Talk THEN id[TalkOf[p]] ELSE 0

Cost(k) == IF k = "DATA" THEN DataUnits ELSE IF k = "CLOSE" THEN 0 ELSE 1

-----------------------------------------------------------------------------
(* Owned resources, by the place of their owner.                           *)

\* From the slot on, a call owns its permit and its response receiver; both
\* go with the PendingRequest or StreamHandle.
SlotStates ==
    {"order", "register", "open", "fail", "take", "drain", "recv", "accept",
     "feed", "fetch", "final", "data", "end", "abort", "cancel", "cancelling",
     "live", "ended"}
HoldsSlot(c) == pc[c] \in SlotStates

\* begin keeps the request_order guard until its frame is written, and while
\* it fails the connection after a write that did not succeed.
OrderStates == {"register", "open", "fail", "take", "drain"}
OrderFree == \A c \in Calls : pc[c] \notin OrderStates

SlotFree == Cardinality({c \in Calls : HoldsSlot(c)}) < MAX_IN_FLIGHT

\* Budget permits live in the commands, and in the enqueuers that have the
\* permit and wait for room in a queue.
Held(k) ==
    Cardinality({i \in DOMAIN ctl : ctl[i].kind = k})
      + Cardinality({i \in DOMAIN med : med[i].kind = k})
      + Cardinality({i \in DOMAIN writing : writing[i].kind = k})
      + Cardinality({p \in Procs : at[p] = "queue" /\ KindOf(p) = k})

BudgetUsed ==
    Held("DATA") * DataUnits + Held("OPEN") + Held("END") + Held("ABORT")
      + Held("CANCEL") + Held("PING") + Held("PONG")

Failing == {"fail", "take", "drain"}

\* Someone holds a strong reference, so that the tasks' Weak::upgrade works.
Alive ==
    \/ handle
    \/ \E c \in Calls : pc[c] \notin {"idle", "done"}
    \/ pc["reader"] \in Failing \cup {"deliver", "pong"}
    \/ pc["keepalive"] \in Failing \cup {"ping"}
    \/ pc["writer"] \in Failing
-----------------------------------------------------------------------------
Init ==
    /\ pc = [p \in Procs |-> IF p = "reader" THEN "read"
                             ELSE IF p = "writer" THEN "select"
                             ELSE IF p = "keepalive" THEN "tick" ELSE "idle"]
    /\ at = [p \in Procs |-> "none"]
    /\ id = [c \in Calls |-> 0]
    /\ scenario \in Scenarios
    /\ nextId = scenario.first
    /\ pending = {}
    /\ inbox = [c \in Calls |-> <<>>]
    /\ hand = <<>>
    /\ drain = <<>>
    /\ closed = FALSE
    /\ ctl = <<>>
    /\ med = <<>>
    /\ writing = <<>>
    /\ wire = <<>>
    /\ shut = FALSE
    /\ handle = TRUE
    /\ chunks = [c \in Calls |-> 0]
    /\ out = [c \in Calls |-> "none"]

Goto(p, s) == pc' = [pc EXCEPT ![p] = s]

\* p calls write_control: nothing is enqueued on a closed connection.
WriteControl(p, s) ==
    /\ Goto(p, s)
    /\ at' = [at EXCEPT ![p] = IF closed THEN "closed" ELSE "budget"]

\* c's call (or handle) is over: its receiver goes, and its result is o.
Leave(c, s, o) ==
    /\ Goto(c, s)
    /\ at' = [at EXCEPT ![c] = "none"]
    /\ inbox' = [inbox EXCEPT ![c] = <<>>]
    /\ out' = [out EXCEPT ![c] = IF @ = "none" THEN o ELSE @]

\* What an action leaves alone: all but the process's place; but also what
\* ends a call; but also the pending map.
OnlyStep == UNCHANGED <<callVars, respVars, closed, queueVars, wireVars, handle, scenario>>
OnlyCallAndMap ==
    UNCHANGED <<id, nextId, chunks, hand, drain, closed, queueVars, wireVars, handle, scenario>>
OnlyCall == OnlyCallAndMap /\ UNCHANGED pending

Without(c) == {e \in pending : e.id # id[c]}
-----------------------------------------------------------------------------
(* enqueue_frame, the three awaits of any process that writes a frame.     *)

Result == {"ok", "timeout", "closed", "failed"}
Refused(p) == at[p] \in Result \ {"ok"}

BudgetAvailable(p) == BudgetUsed + Cost(KindOf(p)) <= WriterBudget
QueueFull(p) ==
    IF KindOf(p) = "DATA" THEN Len(med) >= WRITER_QUEUE
                          ELSE Len(ctl) >= CONTROL_WRITER_QUEUE

AcquireBudget(p) ==
    /\ at[p] = "budget"
    /\ BudgetAvailable(p)
    /\ at' = [at EXCEPT ![p] = "queue"]
    /\ OnlyStep /\ UNCHANGED pc

\* Mutant: requests travel with the media.
OpensToMedia(p) ==
    /\ at[p] = "queue"
    /\ pc["writer"] # "exited"
    /\ ~QueueFull(p)
    /\ LET cmd == [kind |-> KindOf(p), id |-> IdOf(p), owner |-> p]
       IN \/ /\ KindOf(p) \in {"DATA", "OPEN"}
             /\ med' = Append(med, cmd)
             /\ UNCHANGED ctl
          \/ /\ KindOf(p) \notin {"DATA", "OPEN"}
             /\ ctl' = Append(ctl, cmd)
             /\ UNCHANGED med
    /\ at' = [at EXCEPT ![p] = "await"]
    /\ UNCHANGED <<pc, callVars, respVars, closed, wireVars, handle, scenario>>

\* STREAM_DATA goes to the media queue, everything else to the control queue.
SendToWriter(p) ==
    /\ at[p] = "queue"
    /\ pc["writer"] # "exited"
    /\ ~QueueFull(p)
    /\ LET cmd == [kind |-> KindOf(p), id |-> IdOf(p), owner |-> p]
       IN \/ /\ KindOf(p) = "DATA"
             /\ med' = Append(med, cmd)
             /\ UNCHANGED ctl
          \/ /\ KindOf(p) # "DATA"
             /\ ctl' = Append(ctl, cmd)
             /\ UNCHANGED med
    /\ at' = [at EXCEPT ![p] = "await"]
    /\ UNCHANGED <<pc, callVars, respVars, closed, wireVars, handle, scenario>>

\* The writer task is gone and its receivers with it.
WriterGone(p) ==
    /\ at[p] = "queue"
    /\ pc["writer"] = "exited"
    /\ at' = [at EXCEPT ![p] = "closed"]
    /\ OnlyStep /\ UNCHANGED pc

\* Mutant: a command still completes for who has given up on it.
NeverOrphaned(q, p) == q

\* p no longer waits for its command; the command stays where it is.
Orphaned(q, p) ==
    [i \in DOMAIN q |-> [q[i] EXCEPT !.owner = IF @ = p THEN Nobody ELSE @]]

Orphan(p) ==
    /\ ctl' = Orphaned(ctl, p)
    /\ med' = Orphaned(med, p)
    /\ writing' = Orphaned(writing, p)

\* Each await of enqueue_frame has its own timeout, which fires only while it
\* cannot go on; enqueue_close has none.
EnqueueTimeout(p) ==
    /\ "timeout" \in Inputs
    /\ p # "closer"
    /\ \/ at[p] = "budget" /\ ~BudgetAvailable(p)
       \/ at[p] = "queue" /\ QueueFull(p) /\ pc["writer"] # "exited"
       \/ at[p] = "await"
    /\ at' = [at EXCEPT ![p] = "timeout"]
    /\ Orphan(p)
    /\ UNCHANGED <<pc, callVars, respVars, closed, wire, shut, handle, scenario>>

Enqueue(p) ==
    AcquireBudget(p) \/ SendToWriter(p) \/ WriterGone(p)

-----------------------------------------------------------------------------
(* begin and begin_stream.                                                 *)

Begin(c) ==
    /\ pc[c] = "idle" /\ c \in scenario.calls
    /\ handle
    /\ Goto(c, "slot")
    /\ OnlyStep /\ UNCHANGED at

\* The permit goes back at once when the connection is found closed.
AcquireSlot(c) ==
    /\ pc[c] = "slot"
    /\ SlotFree
    /\ \/ closed /\ Leave(c, "done", "error")
       \/ ~closed /\ Goto(c, "order") /\ UNCHANGED <<at, inbox, out>>
    /\ OnlyCall

BeginTimeout(c) ==
    /\ "timeout" \in Inputs
    /\ pc[c] \in {"slot", "order"}
    /\ Leave(c, "done", "timeout")
    /\ OnlyCall

AcquireOrder(c) ==
    /\ pc[c] = "order"
    /\ OrderFree
    /\ \/ /\ closed \/ nextId = IdLimit
          /\ Leave(c, "done", "error")
          /\ UNCHANGED <<id, nextId>>
       \/ /\ ~closed /\ nextId # IdLimit
          /\ id' = [id EXCEPT ![c] = nextId]
          /\ nextId' = nextId + 1
          /\ Goto(c, "register")
          /\ UNCHANGED <<at, inbox, out>>
    /\ UNCHANGED <<chunks, pending, hand, drain, closed, queueVars, wireVars, handle, scenario>>

\* Frame::request refuses an oversized payload; the id is used up.
PayloadTooLarge(c) ==
    /\ "oversize" \in Inputs
    /\ c \in Rpc
    /\ pc[c] = "register"
    /\ Leave(c, "done", "error")
    /\ OnlyCall

\* Once begin has registered, a passed deadline drops the PendingRequest,
\* which spawns a cancel; begin_stream does not look at the clock again.
Register(c) ==
    /\ pc[c] = "register"
    /\ pending' = Without(c) \cup {[id |-> id[c], call |-> c]}
    /\ \/ /\ Goto(c, "open")
          /\ at' = [at EXCEPT ![c] = "budget"]
          /\ UNCHANGED <<inbox, out>>
       \/ /\ "timeout" \in Inputs
          /\ c \notin Voice
          /\ Leave(c, "task", "timeout")
    /\ OnlyCallAndMap

\* Where a call goes on once its frame is on the wire.
AfterWrite(c) ==
    IF pc[c] = "data" THEN "feed"
    ELSE IF pc[c] = "end" THEN "final"
    ELSE IF c \in Rpc THEN "recv" ELSE IF c \in Voice THEN "live" ELSE "accept"

FrameWritten(c) ==
    /\ \/ pc[c] \in {"open", "data"}
       \/ pc[c] = "end" /\ c \in Upload
    /\ at[c] = "ok"
    /\ Goto(c, AfterWrite(c))
    /\ at' = [at EXCEPT ![c] = "none"]
    /\ OnlyStep

\* Whatever went wrong while the frame was enqueued, begin fails the whole
\* connection; begin_stream only takes its entry out.
OpenFailed(c) ==
    /\ pc[c] = "open"
    /\ Refused(c)
    /\ pending' = Without(c)
    /\ \/ c \in Voice /\ Leave(c, "done", "error")
       \/ c \notin Voice /\ Goto(c, "fail") /\ UNCHANGED <<at, inbox, out>>
    /\ OnlyCallAndMap
-----------------------------------------------------------------------------
(* fail and fail_pending, awaited inside whoever calls them.               *)

\* The writer task returns: both queues are dropped with all they hold.
ExitWriter ==
    /\ Goto("writer", "exited")
    /\ at' = [p \in Procs |-> IF at[p] = "await" THEN "closed" ELSE at[p]]
    /\ ctl' = <<>>
    /\ med' = <<>>
    /\ writing' = <<>>
    /\ UNCHANGED <<inbox, out>>

AfterFail(p) ==
    \/ /\ p \in Calls
       /\ Leave(p, "done", IF at[p] = "timeout" THEN "timeout" ELSE "error")
       /\ UNCHANGED <<queueVars, writing>>
    \/ /\ p \in {"reader", "keepalive", "closer"}
       /\ Goto(p, IF p = "closer" THEN "done" ELSE "exited")
       /\ at' = [at EXCEPT ![p] = "none"]
       /\ UNCHANGED <<inbox, out, queueVars, writing>>
    \/ /\ p = "writer"
       /\ ExitWriter

\* Only the first to set the flag goes on to fail what is pending.
Fail(p) ==
    /\ pc[p] = "fail"
    /\ \/ closed /\ AfterFail(p)
       \/ ~closed /\ Goto(p, "take")
                  /\ UNCHANGED <<at, inbox, out, queueVars, writing>>
    /\ closed' = TRUE
    /\ UNCHANGED <<id, nextId, chunks, pending, hand, drain, wire, shut, handle, scenario>>

\* The map is drained in no particular order, each entry once; it has no more
\* entries than ids were drawn.
Orders(S) ==
    {s \in UNION {[1 .. n -> S] : n \in 0 .. nextId} :
       \A c \in S : \E i \in DOMAIN s : \A j \in DOMAIN s : s[j] = c <=> j = i}

TakePending(p) ==
    /\ pc[p] = "take"
    /\ drain' \in Orders({e.call : e \in pending})
    /\ pending' = {}
    /\ Goto(p, "drain")
    /\ UNCHANGED <<at, callVars, inbox, hand, closed, queueVars, wireVars, handle, scenario>>

\* Sending waits for room in the channel of a call that is still there.
DrainNext(p) ==
    /\ pc[p] = "drain"
    /\ drain # <<>>
    /\ LET c == Head(drain)
       IN \/ /\ HoldsSlot(c)
             /\ Len(inbox[c]) < RESPONSE_QUEUE
             /\ inbox' = [inbox EXCEPT ![c] = Append(@, [kind |-> "err", id |-> 0])]
          \/ /\ ~HoldsSlot(c)
             /\ UNCHANGED inbox
    /\ drain' = Tail(drain)
    /\ UNCHANGED <<pc, at, callVars, pending, hand, closed, queueVars, wireVars,
                   handle, scenario>>

DrainDone(p) ==
    /\ pc[p] = "drain"
    /\ drain = <<>>
    /\ AfterFail(p)
    /\ UNCHANGED <<id, nextId, chunks, pending, hand, drain, closed, wire, shut,
                   handle, scenario>>
-----------------------------------------------------------------------------
(* Waiting for the response.                                               *)

NextKind(c) == Head(inbox[c]).kind

\* No sender of c's channel is left: recv returns None.
NoSender(c) ==
    /\ \A e \in pending : e.call # c
    /\ \A i \in DOMAIN drain : drain[i] # c
    /\ \A i \in DOMAIN hand : hand[i].call # c

\* request, and an upload after its end, return the first frame they get.
\* After a part the PendingRequest is still active, and dropping it spawns a
\* cancel.
RecvResponse(c) ==
    /\ pc[c] \in {"recv", "final"}
    /\ inbox[c] # <<>>
    /\ Leave(c, IF NextKind(c) = "part" THEN "task" ELSE "done",
                IF NextKind(c) = "err" THEN "error" ELSE "reply")
    /\ OnlyCall

RecvChannelClosed(c) ==
    /\ pc[c] \in {"recv", "accept", "final", "fetch"}
    /\ inbox[c] = <<>>
    /\ NoSender(c)
    /\ Leave(c, "done", "error")
    /\ OnlyCall

\* Mutant: request waits without a timer.
OnlyTransfersTimeOut(c) ==
    /\ "silence" \in Inputs
    /\ inbox[c] = <<>>
    /\ pc[c] \in {"accept", "final", "fetch"}
    /\ Leave(c, "task", "timeout")
    /\ OnlyCall

\* No answer in time.  request cancels in line; the transfers, and a request
\* whose deadline passed before it began to wait, drop the PendingRequest.
RecvTimeout(c) ==
    /\ "silence" \in Inputs
    /\ inbox[c] = <<>>
    /\ \/ /\ pc[c] = "recv"
          /\ Goto(c, "cancel")
          /\ out' = [out EXCEPT ![c] = "timeout"]
          /\ UNCHANGED <<at, inbox>>
       \/ /\ pc[c] \in {"recv", "accept", "final", "fetch"}
          /\ Leave(c, "task", "timeout")
    /\ OnlyCall

\* Mutant: the entry outlives the cancel.
CancelKeepsEntry(c) ==
    /\ pc[c] \in {"cancel", "task"}
    /\ UNCHANGED pending
    /\ WriteControl(c, IF pc[c] = "cancel" THEN "cancelling" ELSE "tasking")
    /\ UNCHANGED <<callVars, inbox, hand, drain, closed, queueVars, wireVars,
                   handle, scenario>>

\* cancel, in line or in the task a drop has spawned: first the entry goes.
CancelRemove(c) ==
    /\ pc[c] \in {"cancel", "task"}
    /\ pending' = Without(c)
    /\ WriteControl(c, IF pc[c] = "cancel" THEN "cancelling" ELSE "tasking")
    /\ UNCHANGED <<callVars, inbox, hand, drain, closed, queueVars, wireVars,
                   handle, scenario>>

\* Mutant: a reply that came during the cancel is returned after all.
LateReplyWins(c) ==
    /\ pc[c] \in {"cancelling", "tasking"}
    /\ at[c] \in Result
    /\ Goto(c, "done")
    /\ at' = [at EXCEPT ![c] = "none"]
    /\ inbox' = [inbox EXCEPT ![c] = <<>>]
    /\ out' = [out EXCEPT ![c] = IF inbox[c] = <<>> THEN @ ELSE "reply"]
    /\ OnlyCall

\* Mutant: a request that was given up fails the connection as well.
CancelFails(c) ==
    /\ pc[c] \in {"cancelling", "tasking"}
    /\ at[c] \in Result
    /\ Goto(c, "fail")
    /\ UNCHANGED <<at, inbox, out>>
    /\ OnlyCall

CancelDone(c) ==
    /\ pc[c] \in {"cancelling", "tasking"}
    /\ at[c] \in Result
    /\ Leave(c, "done", "timeout")
    /\ OnlyCall
-----------------------------------------------------------------------------
(* Uploads and downloads.                                                  *)

Consume(c) == inbox' = [inbox EXCEPT ![c] = Tail(@)]

\* The first answer must be an ACK with code 100 (and a size or offset that
\* fits); a refusal only takes the entry out, undecodable metadata drops the
\* request, a changed size aborts the download.
Accept(c) ==
    /\ pc[c] = "accept"
    /\ inbox[c] # <<>>
    /\ \/ /\ NextKind(c) # "part"
          /\ Leave(c, "done", "error")
          /\ UNCHANGED pending
       \/ /\ NextKind(c) = "part"
          /\ Leave(c, "done", "error")
          /\ pending' = Without(c)
       \/ /\ NextKind(c) = "part"
          /\ Leave(c, "task", "error")
          /\ UNCHANGED pending
       \/ /\ NextKind(c) = "part"
          /\ c \in Download
          /\ WriteControl(c, "abort")
          /\ Consume(c)
          /\ UNCHANGED <<out, pending>>
       \/ /\ NextKind(c) = "part"
          /\ Goto(c, IF c \in Upload THEN "feed" ELSE "fetch")
          /\ Consume(c)
          /\ UNCHANGED <<at, out, pending>>
    /\ OnlyCallAndMap

\* One chunk at a time: the next is read only after this one was written.
SendChunk(c) ==
    /\ pc[c] = "feed"
    /\ chunks[c] < MaxChunks
    /\ WriteControl(c, "data")
    /\ chunks' = [chunks EXCEPT ![c] = @ + 1]
    /\ UNCHANGED <<id, nextId, out, respVars, closed, queueVars, wireVars, handle, scenario>>

\* A chunk that was not written, or a source that fails, is too short or too
\* long, aborts the upload.
AbortUpload(c) ==
    /\ pc[c] = "feed" \/ (pc[c] = "data" /\ Refused(c))
    /\ WriteControl(c, "abort")
    /\ OnlyStep

\* seal_chunk of an end-to-end upload refuses a short read.
SealFails(c) ==
    /\ pc[c] = "feed"
    /\ Leave(c, "task", "error")
    /\ OnlyCall

SendEnd(c) ==
    /\ pc[c] = "feed"
    /\ WriteControl(c, "end")
    /\ OnlyStep

EndFailed(c) ==
    /\ c \in Upload
    /\ pc[c] = "end"
    /\ Refused(c)
    /\ Leave(c, "task", "error")
    /\ OnlyCall

\* abort writes STREAM_ABORT, ignores how that went, then removes the entry.
AbortDone(c) ==
    /\ pc[c] \in {"abort", "handleabort"}
    /\ at[c] \in Result
    /\ pending' = Without(c)
    /\ Leave(c, "done", "error")
    /\ OnlyCallAndMap

\* A chunk is written out, or the target fails (abort), or the chunk breaks
\* the stream's rules (the request is dropped).
FetchFrame(c) ==
    /\ pc[c] = "fetch"
    /\ inbox[c] # <<>>
    /\ \/ /\ NextKind(c) # "part"
          /\ Leave(c, "done", IF NextKind(c) = "final" THEN "reply" ELSE "error")
          /\ UNCHANGED chunks
       \/ /\ NextKind(c) = "part"
          /\ chunks[c] < MaxChunks
          /\ chunks' = [chunks EXCEPT ![c] = @ + 1]
          /\ Consume(c)
          /\ UNCHANGED <<pc, at, out>>
       \/ /\ NextKind(c) = "part"
          /\ WriteControl(c, "abort")
          /\ Consume(c)
          /\ UNCHANGED <<chunks, out>>
       \/ /\ NextKind(c) = "part"
          /\ Leave(c, "task", "error")
          /\ UNCHANGED chunks
    /\ UNCHANGED <<id, nextId, pending, hand, drain, closed, queueVars,
                   wireVars, handle, scenario>>
-----------------------------------------------------------------------------
(* StreamHandle, shared by the tasks of a voice call.                      *)

VoiceRecv(c) ==
    /\ c \in Voice
    /\ pc[c] \in {"live", "end", "ended"}
    /\ inbox[c] # <<>>
    /\ Consume(c)
    /\ UNCHANGED <<pc, at, callVars, pending, hand, drain, closed, queueVars,
                   wireVars, handle, scenario>>

\* send looks at the handle's active flag, then writes.
VoiceSend(t) ==
    /\ pc[t] = "idle" /\ t \in scenario.calls
    /\ pc[TalkOf[t]] = "live"
    /\ WriteControl(t, "data")
    /\ OnlyStep

VoiceSent(t) ==
    /\ pc[t] = "data"
    /\ at[t] \in Result
    /\ Goto(t, "done")
    /\ at' = [at EXCEPT ![t] = "none"]
    /\ OnlyStep

VoiceClose(c) ==
    /\ pc[c] = "live"
    /\ WriteControl(c, "end")
    /\ OnlyStep

VoiceClosed(c) ==
    /\ c \in Voice
    /\ pc[c] = "end"
    /\ at[c] \in Result
    /\ pending' = Without(c)
    /\ Goto(c, "ended")
    /\ at' = [at EXCEPT ![c] = "none"]
    /\ UNCHANGED <<callVars, inbox, hand, drain, closed, queueVars, wireVars, handle, scenario>>

\* The handle is dropped once no send borrows it.  If it was not closed, a
\* task writes STREAM_ABORT and then removes the entry.
DropHandle(c) ==
    /\ \A t \in Talk : TalkOf[t] = c => pc[t] # "data"
    /\ \/ pc[c] = "ended" /\ Leave(c, "done", "reply")
       \/ /\ pc[c] = "live"
          /\ WriteControl(c, "handleabort")
          /\ inbox' = [inbox EXCEPT ![c] = <<>>]
          /\ out' = [out EXCEPT ![c] = "dropped"]
    /\ OnlyCall
-----------------------------------------------------------------------------
(* The future of a call is dropped at one of its awaits.  Before the       *)
(* PendingRequest exists the locals just go; with it, a cancel is spawned; *)
(* while begin fails the connection, the rest of that is given up too.     *)
(* begin_stream has nothing to clean up after itself.                      *)

\* Mutant: a request dropped while it is queued just goes.
DropWithoutCancel(c) ==
    /\ "drop" \in Inputs
    /\ \/ /\ \/ pc[c] \in {"slot", "order", "register", "take", "drain"}
             \/ pc[c] = "open"
          /\ Leave(c, "done", "dropped")
       \/ /\ c \notin Voice
          /\ pc[c] \in {"open", "recv", "cancel", "cancelling", "accept", "feed",
                        "data", "end", "final", "fetch", "abort"}
          /\ Leave(c, "task", "dropped")
       \/ /\ c \in Voice
          /\ pc[c] = "end"
          /\ Goto(c, "ended")
          /\ at' = [at EXCEPT ![c] = "none"]
          /\ UNCHANGED <<inbox, out>>
    /\ drain' = IF pc[c] = "drain" THEN <<>> ELSE drain
    /\ Orphan(c)
    /\ UNCHANGED <<id, nextId, chunks, pending, hand, closed, wire, shut, handle, scenario>>

DropCall(c) ==
    /\ "drop" \in Inputs
    /\ \/ /\ \/ pc[c] \in {"slot", "order", "register", "take", "drain"}
             \/ pc[c] = "open" /\ c \in Voice
          /\ Leave(c, "done", "dropped")
       \/ /\ c \notin Voice
          /\ pc[c] \in {"open", "recv", "cancel", "cancelling", "accept", "feed",
                        "data", "end", "final", "fetch", "abort"}
          /\ Leave(c, "task", "dropped")
       \/ /\ c \in Voice
          /\ pc[c] = "end"
          /\ Goto(c, "ended")
          /\ at' = [at EXCEPT ![c] = "none"]
          /\ UNCHANGED <<inbox, out>>
    /\ drain' = IF pc[c] = "drain" THEN <<>> ELSE drain
    /\ Orphan(c)
    /\ UNCHANGED <<id, nextId, chunks, pending, hand, closed, wire, shut, handle, scenario>>

DropSend(t) ==
    /\ "drop" \in Inputs
    /\ pc[t] = "data"
    /\ Goto(t, "done")
    /\ at' = [at EXCEPT ![t] = "none"]
    /\ Orphan(t)
    /\ UNCHANGED <<callVars, respVars, closed, wire, shut, handle, scenario>>
-----------------------------------------------------------------------------
(* writer_loop.                                                            *)

\* Control commands first.
TakeCommand ==
    /\ pc["writer"] = "select"
    /\ \/ /\ ctl # <<>>
          /\ writing' = <<Head(ctl)>>
          /\ ctl' = Tail(ctl)
          /\ UNCHANGED med
       \/ /\ ctl = <<>> /\ med # <<>>
          /\ writing' = <<Head(med)>>
          /\ med' = Tail(med)
          /\ UNCHANGED ctl
    /\ Goto("writer", "write")
    /\ UNCHANGED <<at, callVars, respVars, closed, wire, shut, handle, scenario>>

Complete(cmd, r) ==
    at' = IF cmd.owner = Nobody THEN at ELSE [at EXCEPT ![cmd.owner] = r]

Record(cmd) == [kind |-> cmd.kind, id |-> cmd.id]

WriteCommand ==
    /\ pc["writer"] = "write"
    /\ ~shut
    /\ LET cmd == writing[1]
       IN /\ wire' = IF cmd.kind \in {"PING", "PONG"} THEN wire
                                                      ELSE Append(wire, Record(cmd))
          /\ shut' = (cmd.kind = "CLOSE")
          /\ Complete(cmd, "ok")
    /\ writing' = <<>>
    /\ Goto("writer", "select")
    /\ UNCHANGED <<callVars, respVars, closed, queueVars, handle, scenario>>

\* The socket fails or the write times out.  A close shuts the write half
\* down even then.  The writer fails the connection if it still exists.
WriteFails ==
    /\ pc["writer"] = "write"
    /\ shut \/ "fault" \in Inputs
    /\ shut' = (shut \/ writing[1].kind = "CLOSE")
    /\ \/ /\ Alive
          /\ Complete(writing[1], "failed")
          /\ Goto("writer", "fail")
          /\ UNCHANGED <<inbox, out, queueVars, writing>>
       \/ ~Alive /\ ExitWriter
    /\ UNCHANGED <<id, nextId, chunks, pending, hand, drain, closed, wire, handle, scenario>>

\* Every sender is gone: control.recv() returns None.
WriterReleased ==
    /\ pc["writer"] = "select"
    /\ ~Alive
    /\ ctl = <<>>
    /\ ExitWriter
    /\ UNCHANGED <<id, nextId, chunks, pending, hand, drain, closed, wire, shut,
                   handle, scenario>>
-----------------------------------------------------------------------------
(* reader_loop and dispatch.  The server answers ids whose request it has  *)
(* seen, as often and as late as it likes.                                 *)

Opened == {wire[i].id : i \in {j \in DOMAIN wire : wire[j].kind = "OPEN"}}

\* Mutant: a reply goes to the oldest request.
RepliesInOrder(k, i) ==
    /\ pc["reader"] = "read"
    /\ Alive
    /\ LET es == {e \in pending : \A f \in pending : e.id <= f.id}
       IN /\ hand' = IF es = {} THEN <<>>
                     ELSE <<[call |-> (CHOOSE e \in es : TRUE).call, kind |-> k, id |-> i]>>
          /\ pending' = IF k = "final" THEN pending \ es ELSE pending
          /\ Goto("reader", IF es = {} THEN "read" ELSE "deliver")
    /\ UNCHANGED <<at, callVars, inbox, drain, closed, queueVars, wireVars, handle, scenario>>

\* Mutant: a reply without a request is kept.
LateReplyKept(k, i) ==
    /\ pc["reader"] = "read"
    /\ Alive
    /\ LET es == {e \in pending : e.id = i}
       IN /\ hand' = <<[call |-> IF es = {} THEN Nobody ELSE (CHOOSE e \in es : TRUE).call,
                         kind |-> k, id |-> i]>>
          /\ pending' = IF k = "final" THEN pending \ es ELSE pending
          /\ Goto("reader", IF es = {} THEN "read" ELSE "deliver")
    /\ UNCHANGED <<at, callVars, inbox, drain, closed, queueVars, wireVars, handle, scenario>>

\* A final frame takes the entry out, a part clones its sender; a frame for
\* an id that is not pending is ignored.
Dispatch(k, i) ==
    /\ pc["reader"] = "read"
    /\ Alive
    /\ LET es == {e \in pending : e.id = i}
       IN /\ hand' = IF es = {} THEN <<>>
                     ELSE <<[call |-> (CHOOSE e \in es : TRUE).call, kind |-> k, id |-> i]>>
          /\ pending' = IF k = "final" THEN pending \ es ELSE pending
          /\ Goto("reader", IF es = {} THEN "read" ELSE "deliver")
    /\ UNCHANGED <<at, callVars, inbox, drain, closed, queueVars, wireVars, handle, scenario>>

\* sender.send(..).await: waits while the channel is full, and gives up when
\* its receiver is gone.
Deliver ==
    /\ pc["reader"] = "deliver"
    /\ LET f == hand[1]
       IN \/ /\ HoldsSlot(f.call)
             /\ Len(inbox[f.call]) < RESPONSE_QUEUE
             /\ inbox' = [inbox EXCEPT ![f.call] =
                            Append(@, [kind |-> f.kind, id |-> f.id])]
          \/ /\ ~HoldsSlot(f.call)
             /\ UNCHANGED inbox
    /\ hand' = <<>>
    /\ Goto("reader", "read")
    /\ UNCHANGED <<at, callVars, pending, drain, closed, queueVars, wireVars, handle, scenario>>

ServerPing ==
    /\ "ping" \in Inputs
    /\ pc["reader"] = "read"
    /\ Alive
    /\ WriteControl("reader", "pong")
    /\ OnlyStep

\* The reader answers a PING itself; if it cannot, that is a protocol error.
PongDone ==
    /\ pc["reader"] = "pong"
    /\ at["reader"] \in Result
    /\ Goto("reader", IF at["reader"] = "ok" THEN "read" ELSE "fail")
    /\ at' = [at EXCEPT !["reader"] = "none"]
    /\ OnlyStep

\* End of stream, a CLOSE record, a record or frame that does not decode, or
\* a kind a server must not send.
ReadFails ==
    /\ "eof" \in Inputs
    /\ pc["reader"] = "read"
    /\ Alive
    /\ Goto("reader", "fail")
    /\ OnlyStep /\ UNCHANGED at

\* Whatever is read once the connection is gone ends the task.
ReaderReleased ==
    /\ pc["reader"] = "read"
    /\ ~Alive
    /\ Goto("reader", "exited")
    /\ OnlyStep /\ UNCHANGED at
-----------------------------------------------------------------------------
(* keepalive_loop.                                                         *)

Tick ==
    /\ "keepalive" \in Inputs
    /\ pc["keepalive"] = "tick"
    /\ \/ /\ Alive /\ ~closed
          /\ WriteControl("keepalive", "ping")
       \/ /\ ~Alive \/ closed
          /\ Goto("keepalive", "exited")
          /\ UNCHANGED at
    /\ OnlyStep

PingDone ==
    /\ pc["keepalive"] = "ping"
    /\ at["keepalive"] \in Result
    /\ Goto("keepalive", IF at["keepalive"] = "ok" THEN "tick" ELSE "fail")
    /\ at' = [at EXCEPT !["keepalive"] = "none"]
    /\ OnlyStep
-----------------------------------------------------------------------------
(* close.                                                                  *)

Close ==
    /\ "close" \in Inputs
    /\ pc["closer"] = "idle"
    /\ handle
    /\ Goto("closer", IF closed THEN "done" ELSE "closing")
    /\ closed' = TRUE
    /\ UNCHANGED <<at, callVars, respVars, queueVars, wireVars, handle, scenario>>

\* enqueue_close takes no budget and has no timeout.
EnqueueClose ==
    /\ pc["closer"] = "closing"
    /\ \/ /\ pc["writer"] # "exited"
          /\ Len(ctl) < CONTROL_WRITER_QUEUE
          /\ ctl' = Append(ctl, [kind |-> "CLOSE", id |-> 0, owner |-> "closer"])
          /\ at' = [at EXCEPT !["closer"] = "await"]
          /\ Goto("closer", "closewait")
       \/ /\ pc["writer"] = "exited"
          /\ Goto("closer", "take")
          /\ UNCHANGED <<at, ctl>>
    /\ UNCHANGED <<callVars, respVars, closed, med, wireVars, handle, scenario>>

CloseWritten ==
    /\ pc["closer"] = "closewait"
    /\ at["closer"] \in Result
    /\ Goto("closer", "take")
    /\ OnlyStep /\ UNCHANGED at

DropClose ==
    /\ "dropclose" \in Inputs
    /\ pc["closer"] \in {"closing", "closewait", "take", "drain"}
    /\ Goto("closer", "done")
    /\ at' = [at EXCEPT !["closer"] = "none"]
    /\ drain' = IF pc["closer"] = "drain" THEN <<>> ELSE drain
    /\ Orphan("closer")
    /\ UNCHANGED <<callVars, pending, inbox, hand, closed, wire, shut, handle, scenario>>

\* The application drops the last Client; a running call borrows it.
Release ==
    /\ "release" \in Inputs
    /\ handle
    /\ \A c \in Calls : ~HoldsSlot(c) /\ pc[c] # "slot"
    /\ pc["closer"] \in {"idle", "done"}
    /\ handle' = FALSE
    /\ UNCHANGED <<pc, at, callVars, respVars, closed, queueVars, wireVars, scenario>>
-----------------------------------------------------------------------------
(* What a call does by itself once it is polled, its timers included.      *)
CallProgress(c) ==
    \/ Enqueue(c) \/ EnqueueTimeout(c)
    \/ AcquireSlot(c) \/ BeginTimeout(c) \/ AcquireOrder(c) \/ Register(c)
    \/ FrameWritten(c) \/ OpenFailed(c)
    \/ Fail(c) \/ TakePending(c) \/ DrainNext(c) \/ DrainDone(c)
    \/ RecvResponse(c) \/ RecvChannelClosed(c) \/ RecvTimeout(c)
    \/ CancelRemove(c) \/ CancelDone(c)
    \/ Accept(c) \/ SendChunk(c) \/ AbortUpload(c) \/ SealFails(c)
    \/ SendEnd(c) \/ EndFailed(c) \/ AbortDone(c) \/ FetchFrame(c)
    \/ VoiceClosed(c)

TalkProgress(t) == Enqueue(t) \/ EnqueueTimeout(t) \/ VoiceSent(t)

WriterProgress ==
    \/ TakeCommand \/ WriteCommand \/ WriteFails \/ WriterReleased
    \/ Fail("writer") \/ TakePending("writer") \/ DrainNext("writer")
    \/ DrainDone("writer")

ReaderProgress ==
    \/ Enqueue("reader") \/ EnqueueTimeout("reader") \/ Deliver \/ PongDone
    \/ Fail("reader") \/ TakePending("reader") \/ DrainNext("reader")
    \/ DrainDone("reader")

KeepaliveProgress ==
    \/ Enqueue("keepalive") \/ EnqueueTimeout("keepalive") \/ Tick \/ PingDone
    \/ Fail("keepalive") \/ TakePending("keepalive") \/ DrainNext("keepalive")
    \/ DrainDone("keepalive")

CloserProgress ==
    \/ EnqueueClose \/ CloseWritten \/ TakePending("closer") \/ DrainNext("closer")
    \/ DrainDone("closer")

Next ==
    \/ \E c \in Calls : CallProgress(c) \/ Begin(c) \/ PayloadTooLarge(c)
                          \/ DropCall(c) \/ VoiceRecv(c) \/ VoiceClose(c) \/ DropHandle(c)
    \/ \E t \in Talk : TalkProgress(t) \/ VoiceSend(t) \/ DropSend(t)
    \/ \E k \in {"part", "final"}, i \in Opened : Dispatch(k, i)
    \/ WriterProgress \/ ReaderProgress \/ KeepaliveProgress \/ CloserProgress
    \/ ServerPing \/ ReadFails \/ ReaderReleased
    \/ Close \/ DropClose \/ Release

Spec == Init /\ [][Next]_vars

\* The runtime polls every task and future that can go on, and every await
\* of a call, except the sends of fail_pending and dispatch, has a timer.
\* What the server and the application do is not assumed to happen.
Fairness ==
    /\ \A c \in Calls : WF_vars(CallProgress(c))
    /\ \A t \in Talk : WF_vars(TalkProgress(t))
    /\ WF_vars(WriterProgress)
    /\ WF_vars(ReaderProgress)
    /\ WF_vars(KeepaliveProgress)
    /\ WF_vars(CloserProgress)

FairSpec == Spec /\ Fairness
-----------------------------------------------------------------------------
(* Properties.                                                             *)

CallStates ==
    SlotStates \cup {"idle", "slot", "task", "tasking", "handleabort", "done"}
TaskStates ==
    {"idle", "read", "deliver", "pong", "select", "write", "tick", "ping",
     "closing", "closewait", "fail", "take", "drain", "exited", "done"}
States == CallStates \cup TaskStates
Outcomes == {"none", "reply", "error", "timeout", "dropped"}
AtStates == {"none", "budget", "queue", "await"} \cup Result

PlaceType ==
    /\ pc \in [Procs -> States]
    /\ at \in [Procs -> AtStates]
CallType ==
    /\ id \in [Calls -> Nat]
    /\ nextId \in Nat
    /\ chunks \in [Calls -> Nat]
    /\ out \in [Calls -> Outcomes]
RespType ==
    /\ pending \in SUBSET [id : Nat, call : Calls]
    /\ inbox \in [Calls -> Seq(Response)]
    /\ hand \in Seq(Delivery)
    /\ drain \in Seq(Calls)
QueueType ==
    /\ ctl \in Seq(Command)
    /\ med \in Seq(Command)
    /\ writing \in Seq(Command)
    /\ wire \in Seq(Written)
FlagType ==
    /\ closed \in BOOLEAN
    /\ shut \in BOOLEAN
    /\ handle \in BOOLEAN

\* Every variable has its type: the state of connection.rs's structures.
TypeOK == PlaceType /\ CallType /\ RespType /\ QueueType /\ FlagType

\* A response reaches the call that made the request and no other: every
\* frame in a response channel, or on its way there from dispatch, carries
\* the id that call drew and no other call has, however requests, timeouts,
\* cancels and late replies interleave (begin, dispatch).
RoutedToOwner ==
    /\ \A c \in Calls : \A i \in DOMAIN inbox[c] :
          inbox[c][i].kind # "err" => inbox[c][i].id = id[c]
    /\ \A i \in DOMAIN hand : hand[i].id = id[hand[i].call]
    /\ \A c, d \in Calls : c # d /\ id[c] # 0 => id[c] # id[d]

\* Requests go out in the order of their ids: begin holds request_order from
\* drawing the id until the frame is written or its call has ended.
OpensInOrder ==
    \A i, j \in DOMAIN wire :
        i < j /\ wire[i].kind = "OPEN" /\ wire[j].kind = "OPEN"
            => wire[i].id < wire[j].id

\* Nothing of a request precedes its opening frame on the wire: no chunk, no
\* end, no abort, and no CANCEL of a call that gave up while its own frame
\* was still queued (enqueue_frame leaves it there).
OpenComesFirst ==
    \A i, j \in DOMAIN wire :
        i < j /\ wire[j].kind = "OPEN" => wire[i].id # wire[j].id

\* No chunk of an upload follows its STREAM_END, although chunks and end go
\* through different queues and the control queue is served first.
NoDataAfterUploadEnd ==
    \A c \in Upload : \A i, j \in DOMAIN wire :
        i < j /\ wire[i] = [kind |-> "END", id |-> id[c]]
            => wire[j] # [kind |-> "DATA", id |-> id[c]]

\* A response channel gets at most one final frame and nothing after it:
\* dispatch takes the sender out of the map with the final frame, so neither
\* a duplicate reply nor fail_pending can follow.
NothingAfterFinal ==
    \A c \in Calls : \A i \in DOMAIN inbox[c] :
        inbox[c][i].kind = "final" =>
            /\ i = Len(inbox[c])
            /\ \A e \in pending : e.call # c
            /\ \A k \in DOMAIN drain : drain[k] # c

\* The pending map does not leak: an entry made by begin belongs to a call
\* that still waits under it or to a cancel or abort that will remove it
\* (PendingRequest's Drop, cancel, abort, remove).  So does an entry made by
\* begin_stream, unless its caller drops the future.
PendingOwned ==
    \A e \in pending :
        (e.call \notin Voice \/ "drop" \notin Inputs) =>
            /\ id[e.call] = e.id
            /\ pc[e.call] \in (SlotStates \ ({"order", "register"} \cup Failing))
                                 \cup {"task", "handleabort"}

\* A command in the writer's queues whose completion somebody awaits belongs
\* to a process that is waiting in enqueue_frame for exactly that frame: a
\* timed-out frame that is still queued never completes a later one.
CompletionMatches ==
    \A q \in {ctl, med} : \A i \in DOMAIN q :
        q[i].owner # Nobody =>
            /\ at[q[i].owner] = "await"
            /\ KindOf(q[i].owner) = q[i].kind
            /\ IdOf(q[i].owner) = q[i].id

\* README.md: a request that times out or is dropped sends a CANCEL.  The
\* server that saw the request also sees the CANCEL, even if the request was
\* still queued when its call ended, unless the connection ends first or the
\* CANCEL itself is held up beyond the write timeout.
CancelFollows ==
    <>[](\A c \in Rpc :
            "timeout" \notin Inputs /\ out[c] \in {"timeout", "dropped"} /\ id[c] \in Opened
                => \/ closed \/ pc["writer"] = "exited"
                   \/ \E i \in DOMAIN wire : wire[i] = [kind |-> "CANCEL", id |-> id[c]])

\* Once every Client is dropped and the calls are over, the writer task ends
\* and with it the write half of the socket (Weak references of the tasks).
ReleasedWriterExits == <>[](~handle => pc["writer"] = "exited")

\* README.md: "A timeout or dropped request future sends best-effort MST5
\* CANCEL; it does not tear down the connection."  Calls that get no answer in
\* time, or are dropped wherever they are, and PINGs from either end leave the
\* connection open.  (A frame that is not written in time does fail it.)
SilenceKeepsConnection ==
    Inputs \subseteq {"silence", "drop", "ping", "keepalive"} => ~closed

\* Every request, upload and download that is started returns, whatever the
\* server, the socket and the other calls do; each is started once.
CallsReturn ==
    <>[](\A c \in Rpc \cup Upload \cup Download : pc[c] \in {"idle", "done"})

\* After the connection is closed or failed, the pending map is empty again
\* and stays so.
ClosedMapEmpties == <>[](closed => pending = {})

\* README.md: close sends the CLOSE record and shuts down the socket.  A
\* close that was first to end the connection does so in the end.
CloseShutsSocket == pc["closer"] = "closing" ~> shut \/ pc["writer"] = "exited"

\* The server reads a legal sequence of frames, although frames of one call
\* go through two queues and may outlive it: requests by id, each before
\* everything else of its stream, no data after an end.
FramesInOrder == OpensInOrder /\ OpenComesFirst /\ NoDataAfterUploadEnd

\* Nothing is left behind or goes astray between the calls, the pending map
\* and the writer: every channel ends once, every entry has somebody to
\* remove it, every completion finds the frame it is for.
Accounted == NothingAfterFinal /\ PendingOwned /\ CompletionMatches

\* A connection that has failed, was closed or was let go winds up: its map
\* drains for good, close shuts the socket, the writer task ends.
WindsUp == ClosedMapEmpties /\ ReleasedWriterExits /\ CloseShutsSocket
=============================================================================
