-------------------------- MODULE ConnectionProofs --------------------------
(***************************************************************************)
(* Proofs about Connection for any number of calls and any bounds: type    *)
(* correctness and the routing of responses.                               *)
(*                                                                         *)
(* Routing rests on ids: a call draws its id once, no two calls share one, *)
(* and an entry of the pending map, a frame in the reader's hand and a     *)
(* frame in a channel all carry the id of the call they belong to.  Most   *)
(* steps are Quiet: they create no id, no entry and no response.  Only     *)
(* AcquireOrder, Register, Dispatch and Deliver are not, one for each of   *)
(* these.                                                                  *)
(***************************************************************************)
EXTENDS Connection, TLAPS

\* What typing the next step needs beside the types: the writer and the
\* reader hold a command and a frame exactly where they use them, and who is
\* inside enqueue_frame has a frame.
Shape ==
    /\ pc["writer"] = "write" => Len(writing) = 1
    /\ pc["reader"] = "deliver" => Len(hand) = 1
    /\ \A p \in Procs : at[p] \in {"budget", "queue"} => pc[p] \in WritingStates
-----------------------------------------------------------------------------
(* Sequences.                                                              *)

\* The elements of a sequence over S are in S.
LEMMA ElementType ==
    ASSUME NEW S, NEW q \in Seq(S)
    PROVE  \A i \in DOMAIN q : q[i] \in S
OBVIOUS

\* A sequence of one element of S is a sequence over S.
LEMMA SingletonType ==
    ASSUME NEW S, NEW x \in S
    PROVE  <<x>> \in Seq(S)
OBVIOUS

\* The only element of a sequence over S is in S.
LEMMA SingleType ==
    ASSUME NEW S, NEW q \in Seq(S), Len(q) = 1
    PROVE  q[1] \in S
OBVIOUS

\* Head and tail of a sequence that is not empty keep its type.
LEMMA HeadTail ==
    ASSUME NEW S, NEW q \in Seq(S), q # <<>>
    PROVE  Head(q) \in S /\ <<Head(q)>> \in Seq(S) /\ Tail(q) \in Seq(S)
OBVIOUS

\* Appending an element of S keeps a sequence over S.
LEMMA AppendType ==
    ASSUME NEW S, NEW q \in Seq(S), NEW x \in S
    PROVE  Append(q, x) \in Seq(S)
OBVIOUS

\* What is appended to a sequence, and what was there.
LEMMA AppendElement ==
    ASSUME NEW S, NEW q \in Seq(S), NEW x, NEW j \in DOMAIN Append(q, x)
    PROVE  Append(q, x)[j] = x \/ (j \in DOMAIN q /\ Append(q, x)[j] = q[j])
OBVIOUS

\* Tuples of one element and of none.
LEMMA Lengths ==
    /\ \A x : Len(<<x>>) = 1
    /\ \A S : <<>> \in Seq(S)
    /\ DOMAIN <<>> = {}
OBVIOUS

\* What is the one thing in the reader's hand is any thing in it.
LEMMA OneDelivery ==
    ASSUME NEW h, NEW d, NEW k, NEW i, h = <<[call |-> d, kind |-> k, id |-> i]>>
    PROVE  \A j \in DOMAIN h : h[j].call = d /\ h[j].id = i
OBVIOUS

\* The fields of an entry of the map and of a response.
LEMMA Fields ==
    /\ \A i, c : [id |-> i, call |-> c].id = i /\ [id |-> i, call |-> c].call = c
    /\ \A i, k : [kind |-> k, id |-> i].id = i
OBVIOUS

\* A value above all others is new.
LEMMA NewId ==
    ASSUME NEW S, NEW c \in S, NEW f, NEW g, NEW n \in Nat, n # 0, f[c] = 0,
           \A d \in S : f[d] \in Nat /\ f[d] < n,
           \A d, e \in S : d # e /\ f[d] # 0 => f[d] # f[e],
           g[c] = n, \A d \in S : d # c => g[d] = f[d]
    PROVE  /\ n + 1 # 0 /\ \A d \in S : g[d] < n + 1
           /\ \A d, e \in S : d # e /\ g[d] # 0 => g[d] # g[e]
OBVIOUS
-----------------------------------------------------------------------------
(* The types of what the actions are built from.                           *)

\* Every frame a control writer sends has one of the outgoing kinds.
LEMMA KindAtType == \A s \in WritingStates : KindAt[s] \in OutKinds
BY DEF KindAt, OutKinds, WritingStates

\* The states and outcomes a call ends with are among their types.
LEMMA EndNames ==
    /\ "done" \in States /\ "task" \in States
    /\ "reply" \in Outcomes /\ "error" \in Outcomes
    /\ "timeout" \in Outcomes /\ "dropped" \in Outcomes
BY DEF States, CallStates, Outcomes

\* The stages of enqueue_frame are among their type.
LEMMA AtNames ==
    /\ "none" \in AtStates /\ "budget" \in AtStates /\ "queue" \in AtStates
    /\ "await" \in AtStates /\ "ok" \in AtStates /\ "timeout" \in AtStates
    /\ "closed" \in AtStates /\ "failed" \in AtStates
BY DEF AtStates, Result

\* Replacing one response channel keeps the type of all.
LEMMA ChannelType ==
    ASSUME RespType, NEW c \in Calls, NEW q \in Seq(Response),
           inbox' = [inbox EXCEPT ![c] = q]
    PROVE  inbox' \in [Calls -> Seq(Response)]
<1> DEFINE S == Seq(Response)
<1>1. inbox \in [Calls -> S] /\ q \in S
    BY DEF RespType
<1> HIDE DEF S
<1>2. inbox' \in [Calls -> S]
    BY <1>1
<1> QED BY <1>2 DEF S

\* Taking a response out of a channel keeps the channels' type.
LEMMA ConsumeType ==
    ASSUME RespType, NEW c \in Calls, inbox[c] # <<>>, Consume(c)
    PROVE  inbox' \in [Calls -> Seq(Response)]
<1>1. inbox[c] \in Seq(Response)
    BY DEF RespType
<1>2. Tail(inbox[c]) \in Seq(Response)
    BY <1>1, HeadTail
<1> QED BY <1>2, ChannelType, ZenonT(30) DEF Consume

\* dispatch putting a response into a channel keeps the channels' type.
LEMMA PutType ==
    ASSUME RespType, NEW c \in Calls, NEW m \in Response,
           inbox' = [inbox EXCEPT ![c] = Append(@, m)]
    PROVE  inbox' \in [Calls -> Seq(Response)]
<1>1. inbox[c] \in Seq(Response)
    BY DEF RespType
<1>2. Append(inbox[c], m) \in Seq(Response)
    BY <1>1, AppendType
<1> QED BY <1>2, ChannelType, ZenonT(30)

\* A queued command whose sender is gone is still a command, in its place.
LEMMA OrphanedType ==
    ASSUME NEW q \in Seq(Command), NEW p
    PROVE  /\ Orphaned(q, p) \in Seq(Command)
           /\ Len(Orphaned(q, p)) = Len(q)
<1>1. ASSUME NEW x \in Command
      PROVE  [x EXCEPT !.owner = IF @ = p THEN Nobody ELSE @] \in Command
    BY <1>1 DEF Command
<1>2. \A i \in DOMAIN q : q[i] \in Command
    BY ElementType
<1> QED BY <1>1, <1>2 DEF Orphaned

\* Dropping a sender keeps the types of the writer's queues.
LEMMA OrphanType ==
    ASSUME QueueType, NEW p, Orphan(p), UNCHANGED wire
    PROVE  QueueType'
BY OrphanedType DEF QueueType, Orphan

\* A call that ends keeps the types of what belongs to it.
LEMMA LeaveType ==
    ASSUME TypeOK, NEW c \in Calls, NEW s \in States, NEW o \in Outcomes,
           Leave(c, s, o)
    PROVE  /\ PlaceType'
           /\ inbox' \in [Calls -> Seq(Response)]
           /\ out' \in [Calls -> Outcomes]
<1>1. inbox' \in [Calls -> Seq(Response)]
    <2>1. <<>> \in Seq(Response)
        OBVIOUS
    <2> QED BY <2>1, ChannelType, ZenonT(30) DEF Leave, TypeOK
<1>2. PlaceType'
    BY AtNames, ZenonT(30) DEF Leave, Goto, TypeOK, PlaceType
<1>3. out' \in [Calls -> Outcomes]
    BY DEF Leave, TypeOK, CallType
<1> QED BY <1>1, <1>2, <1>3

\* Moving a task to another state keeps the types of the places.
LEMMA GotoType ==
    ASSUME PlaceType, NEW p \in Procs, NEW s \in States, Goto(p, s),
           \/ UNCHANGED at
           \/ \E a \in AtStates : at' = [at EXCEPT ![p] = a]
    PROVE  PlaceType'
BY DEF PlaceType, Goto

\* So does the start of a control write.
LEMMA WriteControlType ==
    ASSUME PlaceType, NEW p \in Procs, NEW s \in States, WriteControl(p, s)
    PROVE  PlaceType'
BY AtNames, GotoType, ZenonT(30) DEF WriteControl

\* What fail_pending has taken is some ordering of finitely many calls.
LEMMA DrainOrders ==
    ASSUME TypeOK
    PROVE  \A s \in Orders({e.call : e \in pending}) : s \in Seq(Calls)
<1> DEFINE S == {e.call : e \in pending}
<1>1. S \subseteq Calls /\ nextId \in Nat
    BY DEF TypeOK, RespType, CallType
<1> HIDE DEF S
<1>2. ASSUME NEW s \in Orders(S) PROVE s \in Seq(Calls)
    <2>1. PICK n \in 0 .. nextId : s \in [1 .. n -> S]
        BY <1>2 DEF Orders
    <2> QED BY <1>1, <2>1
<1> QED BY <1>2 DEF S
-----------------------------------------------------------------------------
(* Typing of the steps that change little.                                 *)

\* Each part of the type invariant depends on its own variables only.
LEMMA FrameTypes ==
    ASSUME TypeOK
    PROVE  /\ UNCHANGED <<pc, at>> => PlaceType'
           /\ UNCHANGED callVars => CallType'
           /\ UNCHANGED respVars => RespType'
           /\ UNCHANGED <<ctl, med, writing, wire>> => QueueType'
           /\ UNCHANGED <<closed, shut, handle>> => FlagType'
BY ZenonT(30) DEF TypeOK, PlaceType, CallType, RespType, QueueType, FlagType, callVars,
       respVars

\* A step that only moves a task keeps every type.
LEMMA StepFrame ==
    ASSUME TypeOK, OnlyStep, PlaceType'
    PROVE  TypeOK'
BY FrameTypes DEF OnlyStep, TypeOK, queueVars, wireVars

\* A step of a call on its channel and the map keeps every type.
LEMMA MapFrame ==
    ASSUME TypeOK, OnlyCallAndMap, PlaceType',
           pending' \in SUBSET [id : Nat, call : Calls],
           inbox' \in [Calls -> Seq(Response)],
           out' \in [Calls -> Outcomes]
    PROVE  TypeOK'
<1>1. CallType' /\ RespType'
    BY DEF OnlyCallAndMap, TypeOK, CallType, RespType
<1> QED BY <1>1, FrameTypes DEF OnlyCallAndMap, TypeOK, queueVars, wireVars

\* Removing a call's entry keeps the type of the map.
LEMMA WithoutType ==
    ASSUME RespType, NEW c
    PROVE  Without(c) \in SUBSET [id : Nat, call : Calls]
BY DEF RespType, Without

\* What a step leaves alone keeps its type.
LEMMA SamePending ==
    ASSUME TypeOK
    PROVE  /\ UNCHANGED pending => pending' \in SUBSET [id : Nat, call : Calls]
           /\ UNCHANGED out => out' \in [Calls -> Outcomes]
           /\ UNCHANGED inbox => inbox' \in [Calls -> Seq(Response)]
           /\ UNCHANGED drain => drain' \in Seq(Calls)
           /\ UNCHANGED hand => hand' \in Seq(Delivery)
BY DEF TypeOK, RespType, CallType

\* The end of the writer task keeps every type.
LEMMA ExitWriterType ==
    ASSUME TypeOK, ExitWriter, UNCHANGED wire
    PROVE  PlaceType' /\ QueueType'
<1>0. "exited" \in States
    BY DEF States, TaskStates
<1>1. PlaceType'
    BY <1>0, AtNames DEF ExitWriter, Goto, TypeOK, PlaceType, Procs, Tasks
<1> QED BY <1>1 DEF ExitWriter, TypeOK, QueueType

\* So does what fail leaves behind, whoever called it.
LEMMA AfterFailType ==
    ASSUME TypeOK, NEW p \in Procs, AfterFail(p), UNCHANGED wire
    PROVE  /\ PlaceType'
           /\ QueueType'
           /\ inbox' \in [Calls -> Seq(Response)]
           /\ out' \in [Calls -> Outcomes]
<1>0. "exited" \in States
    BY DEF States, TaskStates
<1>1. CASE p \in Calls /\ Leave(p, "done", IF at[p] = "timeout" THEN "timeout" ELSE "error")
               /\ UNCHANGED <<queueVars, writing>>
    BY <1>1, EndNames, LeaveType, FrameTypes DEF TypeOK, queueVars
<1>2. CASE /\ p \in {"reader", "keepalive", "closer"}
           /\ Goto(p, IF p = "closer" THEN "done" ELSE "exited")
           /\ at' = [at EXCEPT ![p] = "none"]
           /\ UNCHANGED <<inbox, out, queueVars, writing>>
    BY <1>0, <1>2, EndNames, AtNames, GotoType, FrameTypes, SamePending, ZenonT(30) DEF TypeOK, queueVars
<1>3. CASE ExitWriter
    BY <1>3, ExitWriterType, SamePending DEF ExitWriter
<1> QED BY <1>1, <1>2, <1>3 DEF AfterFail

\* A call that ends, with or without its entry in the map, keeps every type.
LEMMA LeaveFrame ==
    ASSUME TypeOK, NEW c \in Calls, NEW s \in States, NEW o \in Outcomes,
           Leave(c, s, o), OnlyCallAndMap,
           \/ UNCHANGED pending
           \/ pending' = Without(c)
    PROVE  TypeOK'
BY LeaveType, MapFrame, WithoutType, SamePending DEF TypeOK
-----------------------------------------------------------------------------
\* Every action of the connection keeps every type.
LEMMA TypeStep ==
    ASSUME TypeOK, Shape, [Next]_vars
    PROVE  TypeOK'
<1>1. ASSUME NEW p \in Procs, AcquireBudget(p) PROVE TypeOK'
    <2>1. PlaceType'
        BY <1>1, AtNames DEF AcquireBudget, TypeOK, PlaceType
    <2> QED BY <1>1, <2>1, StepFrame DEF AcquireBudget
<1>2. ASSUME NEW p \in Procs, SendToWriter(p) PROVE TypeOK'
    <2> DEFINE cmd == [kind |-> KindOf(p), id |-> IdOf(p), owner |-> p]
    <2>1. IdOf(p) \in Nat
        BY CallsAssumption DEF IdOf, Calls, Procs, TypeOK, CallType
    <2>2. KindOf(p) \in OutKinds
        BY <1>2, KindAtType DEF SendToWriter, KindOf, Shape
    <2>3. cmd \in Command
        BY <2>1, <2>2 DEF Command
    <2>4. Append(ctl, cmd) \in Seq(Command) /\ Append(med, cmd) \in Seq(Command)
        BY <2>3, AppendType DEF TypeOK, QueueType
    <2>5. QueueType'
        BY <1>2, <2>4, ZenonT(30) DEF SendToWriter, TypeOK, QueueType, wireVars
    <2>6. PlaceType'
        BY <1>2, AtNames DEF SendToWriter, TypeOK, PlaceType
    <2> QED BY <1>2, <2>5, <2>6, FrameTypes, ZenonT(30) DEF SendToWriter, TypeOK, wireVars
<1>3. ASSUME NEW p \in Procs, WriterGone(p) PROVE TypeOK'
    <2>1. PlaceType'
        BY <1>3, AtNames DEF WriterGone, TypeOK, PlaceType
    <2> QED BY <1>3, <2>1, StepFrame DEF WriterGone
<1>4. ASSUME NEW p \in Procs, EnqueueTimeout(p) PROVE TypeOK'
    <2>1. PlaceType'
        BY <1>4, AtNames DEF EnqueueTimeout, TypeOK, PlaceType
    <2>2. QueueType'
        BY <1>4, OrphanType DEF EnqueueTimeout, TypeOK
    <2> QED BY <1>4, <2>1, <2>2, FrameTypes DEF EnqueueTimeout, TypeOK
<1>5. ASSUME NEW c \in Calls, Begin(c) PROVE TypeOK'
    <2>0. "slot" \in States
        BY DEF States, CallStates, SlotStates, TaskStates
    <2>1. PlaceType'
        BY <1>5, <2>0, AtNames, GotoType DEF Begin, TypeOK, Procs, Tasks
    <2> QED BY <1>5, <2>1, StepFrame DEF Begin
<1>6. ASSUME NEW c \in Calls, AcquireSlot(c) PROVE TypeOK'
    <2>1. CASE Leave(c, "done", "error")
        BY <1>6, <2>1, EndNames, LeaveFrame DEF AcquireSlot, OnlyCall
    <2>2. CASE Goto(c, "order") /\ UNCHANGED <<at, inbox, out>>
        <3>0. "order" \in States
            BY DEF States, CallStates, SlotStates, TaskStates
        <3>1. PlaceType'
            BY <2>2, <3>0, AtNames, GotoType DEF TypeOK, Procs
        <3> QED BY <1>6, <2>2, <3>1, MapFrame, SamePending DEF AcquireSlot, OnlyCall
    <2> QED BY <1>6, <2>1, <2>2 DEF AcquireSlot
<1>7. ASSUME NEW c \in Calls, BeginTimeout(c) PROVE TypeOK'
    BY <1>7, EndNames, LeaveFrame DEF BeginTimeout, OnlyCall
<1>8. ASSUME NEW c \in Calls, AcquireOrder(c) PROVE TypeOK'
    <2>1. CallType' /\ RespType' /\ PlaceType'
        <3>1. CASE Leave(c, "done", "error") /\ UNCHANGED <<id, nextId>>
            BY <1>8, <3>1, EndNames, LeaveType, ZenonT(30) DEF AcquireOrder, TypeOK, CallType, RespType
        <3>2. CASE /\ id' = [id EXCEPT ![c] = nextId]
                   /\ nextId' = nextId + 1
                   /\ Goto(c, "register")
                   /\ UNCHANGED <<at, inbox, out>>
            <4>0. "register" \in States
                BY DEF States, CallStates, SlotStates
            <4>1. PlaceType'
                BY <3>2, <4>0, AtNames, GotoType DEF TypeOK, Procs
            <4> QED BY <1>8, <3>2, <4>1 DEF AcquireOrder, TypeOK, CallType, RespType
        <3> QED BY <1>8, <3>1, <3>2 DEF AcquireOrder
    <2> QED BY <1>8, <2>1, FrameTypes DEF AcquireOrder, TypeOK, queueVars, wireVars
<1>9. ASSUME NEW c \in Calls, PayloadTooLarge(c) PROVE TypeOK'
    BY <1>9, EndNames, LeaveFrame DEF PayloadTooLarge, OnlyCall
<1>10. ASSUME NEW c \in Calls, Register(c) PROVE TypeOK'
    <2>1. pending' \in SUBSET [id : Nat, call : Calls]
        BY <1>10, WithoutType DEF Register, TypeOK, CallType
    <2>2. CASE Leave(c, "task", "timeout")
        BY <1>10, <2>1, <2>2, EndNames, LeaveType, MapFrame, ZenonT(30) DEF Register
    <2>3. CASE /\ Goto(c, "open")
               /\ at' = [at EXCEPT ![c] = "budget"]
               /\ UNCHANGED <<inbox, out>>
        <3>0. "open" \in States
            BY DEF States, CallStates, SlotStates, TaskStates
        <3>1. PlaceType'
            BY <2>3, <3>0, AtNames, GotoType, ZenonT(30) DEF TypeOK, Procs
        <3> QED BY <1>10, <2>1, <2>3, <3>1, MapFrame, SamePending DEF Register
    <2> QED BY <1>10, <2>2, <2>3 DEF Register
<1>11. ASSUME NEW c \in Calls, FrameWritten(c) PROVE TypeOK'
    <2>1. AfterWrite(c) \in States
        BY DEF AfterWrite, States, CallStates, SlotStates
    <2>2. PlaceType'
        BY <1>11, <2>1, AtNames, GotoType, ZenonT(30) DEF FrameWritten, TypeOK, Procs
    <2> QED BY <1>11, <2>2, StepFrame DEF FrameWritten
<1>12. ASSUME NEW c \in Calls, OpenFailed(c) PROVE TypeOK'
    <2>1. CASE Leave(c, "done", "error")
        BY <1>12, <2>1, EndNames, LeaveFrame, ZenonT(30) DEF OpenFailed
    <2>2. CASE Goto(c, "fail") /\ UNCHANGED <<at, inbox, out>>
        <3>0. "fail" \in States
            BY DEF States, CallStates, SlotStates, TaskStates
        <3>1. PlaceType'
            BY <2>2, <3>0, AtNames, GotoType DEF TypeOK, Procs
        <3> QED BY <1>12, <2>2, <3>1, MapFrame, WithoutType, SamePending DEF OpenFailed, TypeOK
    <2> QED BY <1>12, <2>1, <2>2 DEF OpenFailed
<1>13. ASSUME NEW p \in Procs, Fail(p) PROVE TypeOK'
    <2>1. CASE AfterFail(p)
        BY <1>13, <2>1, AfterFailType, ZenonT(30) DEF Fail, TypeOK, CallType, RespType, QueueType, FlagType
    <2>2. CASE Goto(p, "take") /\ UNCHANGED <<at, inbox, out, queueVars, writing>>
        <3>0. "take" \in States
            BY DEF States, CallStates, SlotStates, TaskStates
        <3>1. PlaceType'
            BY <2>2, <3>0, AtNames, GotoType DEF TypeOK
        <3>2. FlagType'
            BY <1>13, ZenonT(30) DEF Fail, TypeOK, FlagType
        <3> QED BY <1>13, <2>2, <3>1, <3>2, FrameTypes
            DEF Fail, TypeOK, callVars, respVars, queueVars
    <2> QED BY <1>13, <2>1, <2>2 DEF Fail
<1>14. ASSUME NEW p \in Procs, TakePending(p) PROVE TypeOK'
    <2>0. "drain" \in States
        BY DEF States, CallStates, SlotStates, TaskStates
    <2>1. drain' \in Seq(Calls)
        BY <1>14, DrainOrders DEF TakePending
    <2>2. RespType'
        BY <1>14, <2>1, ZenonT(30) DEF TakePending, TypeOK, RespType
    <2>3. PlaceType'
        BY <1>14, <2>0, AtNames, GotoType, ZenonT(30) DEF TakePending, TypeOK
    <2> QED BY <1>14, <2>2, <2>3, FrameTypes DEF TakePending, TypeOK, queueVars, wireVars
<1>15. ASSUME NEW p \in Procs, DrainNext(p) PROVE TypeOK'
    <2> DEFINE m == [kind |-> "err", id |-> 0]
    <2>1. m \in Response
        BY DEF Response, InKinds
    <2>2. Head(drain) \in Calls /\ Tail(drain) \in Seq(Calls)
        BY <1>15, HeadTail DEF DrainNext, TypeOK, RespType
    <2>3. inbox' \in [Calls -> Seq(Response)]
        BY <1>15, <2>1, <2>2, PutType, SamePending, ZenonT(30) DEF DrainNext, TypeOK
    <2>4. RespType'
        BY <1>15, <2>2, <2>3 DEF DrainNext, TypeOK, RespType
    <2> QED BY <1>15, <2>4, FrameTypes DEF DrainNext, TypeOK, queueVars, wireVars
<1>16. ASSUME NEW p \in Procs, DrainDone(p) PROVE TypeOK'
    BY <1>16, AfterFailType, ZenonT(30) DEF DrainDone, TypeOK, CallType, RespType, QueueType, FlagType
<1>17. ASSUME NEW c \in Calls, RecvResponse(c) PROVE TypeOK'
    BY <1>17, EndNames, LeaveFrame DEF RecvResponse, OnlyCall
<1>18. ASSUME NEW c \in Calls, RecvChannelClosed(c) PROVE TypeOK'
    BY <1>18, EndNames, LeaveFrame DEF RecvChannelClosed, OnlyCall
<1>19. ASSUME NEW c \in Calls, RecvTimeout(c) PROVE TypeOK'
    <2>1. CASE Leave(c, "task", "timeout")
        BY <1>19, <2>1, EndNames, LeaveFrame, ZenonT(30) DEF RecvTimeout, OnlyCall
    <2>2. CASE /\ Goto(c, "cancel")
               /\ out' = [out EXCEPT ![c] = "timeout"]
               /\ UNCHANGED <<at, inbox>>
        <3>0. "cancel" \in States
            BY DEF States, CallStates, SlotStates, TaskStates
        <3>1. PlaceType'
            BY <2>2, <3>0, AtNames, GotoType DEF TypeOK, Procs
        <3>2. out' \in [Calls -> Outcomes]
            BY <2>2, EndNames, ZenonT(30) DEF TypeOK, CallType
        <3>3. CallType' /\ RespType'
            BY <1>19, <2>2, <3>2, ZenonT(30)
            DEF RecvTimeout, OnlyCall, OnlyCallAndMap, TypeOK, CallType, RespType
        <3> QED BY <1>19, <3>1, <3>3, FrameTypes
            DEF RecvTimeout, OnlyCall, OnlyCallAndMap, TypeOK, queueVars, wireVars
    <2> QED BY <1>19, <2>1, <2>2, ZenonT(30) DEF RecvTimeout
<1>20. ASSUME NEW c \in Calls, CancelRemove(c) PROVE TypeOK'
    <2>0. "cancelling" \in States /\ "tasking" \in States
        BY DEF States, CallStates, SlotStates, TaskStates
    <2>1. PlaceType'
        BY <1>20, <2>0, AtNames, WriteControlType, ZenonT(30) DEF CancelRemove, TypeOK, Procs
    <2> QED BY <1>20, <2>1, MapFrame, WithoutType, SamePending
        DEF CancelRemove, OnlyCallAndMap, TypeOK, callVars
<1>21. ASSUME NEW c \in Calls, CancelDone(c) PROVE TypeOK'
    BY <1>21, EndNames, LeaveFrame, ZenonT(30) DEF CancelDone, OnlyCall
<1>22. ASSUME NEW c \in Calls, Accept(c) PROVE TypeOK'
    <2>0. "abort" \in States /\ "feed" \in States /\ "fetch" \in States
        BY DEF States, CallStates, SlotStates
    <2>1. CASE \E s \in States : Leave(c, s, "error")
        BY <1>22, <2>1, EndNames, LeaveType, MapFrame, WithoutType, SamePending, ZenonT(30) DEF Accept, TypeOK
    <2>2. CASE Consume(c) /\ UNCHANGED <<out, pending>> /\ PlaceType'
        BY <1>22, <2>2, ConsumeType, MapFrame, SamePending DEF Accept, TypeOK
    <2>3. CASE WriteControl(c, "abort") /\ Consume(c) /\ UNCHANGED <<out, pending>>
        BY <2>0, <2>2, <2>3, WriteControlType DEF TypeOK, Procs
    <2>4. CASE /\ Goto(c, IF c \in Upload THEN "feed" ELSE "fetch")
               /\ Consume(c)
               /\ UNCHANGED <<at, out, pending>>
        BY <2>0, <2>2, <2>4, GotoType, ZenonT(30) DEF TypeOK, Procs
    <2> QED BY <1>22, <2>1, <2>3, <2>4, EndNames DEF Accept
<1>23. ASSUME NEW c \in Calls, SendChunk(c) PROVE TypeOK'
    <2>0. "data" \in States
        BY DEF States, CallStates, SlotStates, TaskStates
    <2>1. PlaceType'
        BY <1>23, <2>0, AtNames, WriteControlType DEF SendChunk, TypeOK, Procs
    <2>2. CallType'
        BY <1>23 DEF SendChunk, TypeOK, CallType
    <2> QED BY <1>23, <2>1, <2>2, FrameTypes DEF SendChunk, TypeOK, queueVars, wireVars
<1>24. ASSUME NEW c \in Calls, AbortUpload(c) PROVE TypeOK'
    <2>0. "abort" \in States
        BY DEF States, CallStates, SlotStates, TaskStates
    <2>1. PlaceType'
        BY <1>24, <2>0, WriteControlType DEF AbortUpload, TypeOK, Procs, Tasks
    <2> QED BY <1>24, <2>1, StepFrame DEF AbortUpload
<1>25. ASSUME NEW c \in Calls, SealFails(c) PROVE TypeOK'
    BY <1>25, EndNames, LeaveFrame DEF SealFails, OnlyCall
<1>26. ASSUME NEW c \in Calls, SendEnd(c) PROVE TypeOK'
    <2>0. "end" \in States
        BY DEF States, CallStates, SlotStates, TaskStates
    <2>1. PlaceType'
        BY <1>26, <2>0, WriteControlType DEF SendEnd, TypeOK, Procs, Tasks
    <2> QED BY <1>26, <2>1, StepFrame DEF SendEnd
<1>27. ASSUME NEW c \in Calls, EndFailed(c) PROVE TypeOK'
    BY <1>27, EndNames, LeaveFrame, ZenonT(30) DEF EndFailed, OnlyCall
<1>28. ASSUME NEW c \in Calls, AbortDone(c) PROVE TypeOK'
    BY <1>28, EndNames, LeaveFrame, ZenonT(30) DEF AbortDone, OnlyCall
<1>29. ASSUME NEW c \in Calls, FetchFrame(c) PROVE TypeOK'
    <2>1. CASE \E s \in States, o \in Outcomes : Leave(c, s, o) /\ UNCHANGED chunks
        BY <1>29, <2>1, EndNames, LeaveFrame, ZenonT(30) DEF FetchFrame, OnlyCallAndMap
    <2>2. CASE Consume(c) /\ WriteControl(c, "abort") /\ UNCHANGED <<chunks, out>>
        <3>0. "abort" \in States
            BY DEF States, CallStates, SlotStates, TaskStates
        <3>1. PlaceType'
            BY <2>2, <3>0, WriteControlType, ZenonT(30) DEF TypeOK, Procs
        <3> QED BY <1>29, <2>2, <3>1, ConsumeType, MapFrame, SamePending
            DEF FetchFrame, OnlyCallAndMap, TypeOK
    <2>3. CASE /\ Consume(c)
               /\ chunks' = [chunks EXCEPT ![c] = chunks[c] + 1]
               /\ UNCHANGED <<pc, at, out>>
        <3>1. CallType'
            <4>1. CallType /\ id' = id /\ nextId' = nextId /\ out' = out
                BY <1>29, <2>3, ZenonT(30) DEF FetchFrame, OnlyCallAndMap, TypeOK
            <4>2. chunks[c] + 1 \in Nat /\ chunks \in [Calls -> Nat]
                <5>1. chunks[c] \in Nat /\ chunks \in [Calls -> Nat]
                    BY <4>1, ZenonT(30) DEF CallType
                <5> QED BY <5>1
            <4>3. chunks' \in [Calls -> Nat]
                BY <2>3, <4>2, ZenonT(30)
            <4> QED BY <4>1, <4>3, ZenonT(30) DEF CallType
        <3>2. RespType'
            BY <1>29, <2>3, ConsumeType DEF FetchFrame, TypeOK, RespType
        <3> QED BY <1>29, <2>3, <3>1, <3>2, FrameTypes, ZenonT(30) DEF FetchFrame, TypeOK, queueVars, wireVars
    <2> QED BY <1>29, <2>1, <2>2, <2>3, EndNames, ZenonT(30) DEF FetchFrame
<1>30. ASSUME NEW c \in Calls, VoiceRecv(c) PROVE TypeOK'
    <2>1. RespType'
        BY <1>30, ConsumeType DEF VoiceRecv, TypeOK, RespType
    <2> QED BY <1>30, <2>1, FrameTypes, ZenonT(30) DEF VoiceRecv, TypeOK, queueVars, wireVars
<1>31. ASSUME NEW t \in Talk, VoiceSend(t) PROVE TypeOK'
    <2>0. "data" \in States
        BY DEF States, CallStates, SlotStates, TaskStates
    <2>1. PlaceType'
        BY <1>31, <2>0, WriteControlType DEF VoiceSend, TypeOK, Procs, Tasks
    <2> QED BY <1>31, <2>1, StepFrame DEF VoiceSend
<1>32. ASSUME NEW t \in Talk, VoiceSent(t) PROVE TypeOK'
    <2>0. "done" \in States
        BY DEF States, CallStates, SlotStates, TaskStates
    <2>1. PlaceType'
        BY <1>32, <2>0, AtNames, GotoType, ZenonT(30) DEF VoiceSent, TypeOK, Procs, Tasks
    <2> QED BY <1>32, <2>1, StepFrame DEF VoiceSent
<1>33. ASSUME NEW c \in Calls, VoiceClose(c) PROVE TypeOK'
    <2>0. "end" \in States
        BY DEF States, CallStates, SlotStates, TaskStates
    <2>1. PlaceType'
        BY <1>33, <2>0, WriteControlType, ZenonT(30) DEF VoiceClose, TypeOK, Procs, Tasks
    <2> QED BY <1>33, <2>1, StepFrame DEF VoiceClose
<1>34. ASSUME NEW c \in Calls, VoiceClosed(c) PROVE TypeOK'
    <2>0. "ended" \in States
        BY DEF States, CallStates, SlotStates, TaskStates
    <2>1. PlaceType'
        BY <1>34, <2>0, AtNames, GotoType, ZenonT(30) DEF VoiceClosed, TypeOK, Procs
    <2> QED BY <1>34, <2>1, MapFrame, WithoutType, SamePending, ZenonT(30)
        DEF VoiceClosed, OnlyCallAndMap, TypeOK, callVars
<1>35. ASSUME NEW c \in Calls, DropHandle(c) PROVE TypeOK'
    <2>1. CASE Leave(c, "done", "reply")
        BY <1>35, <2>1, EndNames, LeaveFrame, ZenonT(30) DEF DropHandle, OnlyCall
    <2>2. CASE /\ WriteControl(c, "handleabort")
               /\ inbox' = [inbox EXCEPT ![c] = <<>>]
               /\ out' = [out EXCEPT ![c] = "dropped"]
        <3>0. "handleabort" \in States
            BY DEF States, CallStates, SlotStates, TaskStates
        <3>1. PlaceType'
            BY <2>2, <3>0, WriteControlType DEF TypeOK, Procs
        <3>2. <<>> \in Seq(Response)
            OBVIOUS
        <3>3. inbox' \in [Calls -> Seq(Response)]
            BY <2>2, <3>2, ChannelType, ZenonT(30) DEF TypeOK
        <3>4. out' \in [Calls -> Outcomes]
            BY <2>2, EndNames, ZenonT(30) DEF TypeOK, CallType
        <3>5. CallType' /\ RespType'
            BY <1>35, <3>3, <3>4, ZenonT(30)
            DEF DropHandle, OnlyCall, OnlyCallAndMap, TypeOK, CallType, RespType
        <3> QED BY <1>35, <3>1, <3>5, FrameTypes, ZenonT(30)
            DEF DropHandle, OnlyCall, OnlyCallAndMap, TypeOK, queueVars, wireVars
    <2> QED BY <1>35, <2>1, <2>2 DEF DropHandle
<1>36. ASSUME NEW c \in Calls, DropCall(c) PROVE TypeOK'
    <2>1. QueueType'
        BY <1>36, OrphanType DEF DropCall, TypeOK
    <2>2. drain' \in Seq(Calls)
        BY <1>36 DEF DropCall, TypeOK, RespType
    <2>3. PlaceType' /\ inbox' \in [Calls -> Seq(Response)] /\ out' \in [Calls -> Outcomes]
        <3>0. "ended" \in States
            BY DEF States, CallStates, SlotStates
        <3>1. CASE Leave(c, "done", "dropped") \/ Leave(c, "task", "dropped")
            BY <3>1, EndNames, LeaveType
        <3>2. CASE /\ Goto(c, "ended")
                   /\ at' = [at EXCEPT ![c] = "none"]
                   /\ UNCHANGED <<inbox, out>>
            BY <3>2, <3>0, AtNames, GotoType, SamePending, ZenonT(30) DEF TypeOK, Procs
        <3> QED BY <1>36, <3>1, <3>2 DEF DropCall
    <2>4. CallType' /\ RespType'
        BY <1>36, <2>2, <2>3, ZenonT(30) DEF DropCall, TypeOK, CallType, RespType
    <2> QED BY <1>36, <2>1, <2>3, <2>4, FrameTypes, ZenonT(30) DEF DropCall, TypeOK
<1>37. ASSUME NEW t \in Talk, DropSend(t) PROVE TypeOK'
    <2>0. "done" \in States
        BY DEF States, CallStates, SlotStates, TaskStates
    <2>1. QueueType'
        BY <1>37, OrphanType DEF DropSend, TypeOK
    <2>2. PlaceType'
        BY <1>37, <2>0, AtNames, GotoType, ZenonT(30) DEF DropSend, TypeOK, Procs
    <2> QED BY <1>37, <2>1, <2>2, FrameTypes DEF DropSend, TypeOK
<1>38. ASSUME TakeCommand PROVE TypeOK'
    <2>0. "write" \in States
        BY DEF States, CallStates, SlotStates, TaskStates
    <2>1. ctl # <<>> => <<Head(ctl)>> \in Seq(Command) /\ Tail(ctl) \in Seq(Command)
        BY HeadTail DEF TypeOK, QueueType
    <2>2. med # <<>> => <<Head(med)>> \in Seq(Command) /\ Tail(med) \in Seq(Command)
        BY HeadTail DEF TypeOK, QueueType
    <2>3. QueueType'
        BY <1>38, <2>1, <2>2, ZenonT(30) DEF TakeCommand, TypeOK, QueueType
    <2>4. PlaceType'
        BY <1>38, <2>0, AtNames, GotoType, ZenonT(30) DEF TakeCommand, TypeOK, Procs, Tasks
    <2> QED BY <1>38, <2>3, <2>4, FrameTypes DEF TakeCommand, TypeOK
<1>39. ASSUME WriteCommand PROVE TypeOK'
    <2>1. writing[1] \in Command
        BY <1>39, SingleType DEF WriteCommand, Shape, TypeOK, QueueType
    <2>2. PlaceType'
        <3>1. at' \in [Procs -> AtStates]
            BY <1>39, <2>1, AtNames DEF WriteCommand, Complete, Command, TypeOK, PlaceType
        <3>2. "select" \in States
            BY DEF States, TaskStates
        <3> QED BY <1>39, <3>1, <3>2, ZenonT(30) DEF WriteCommand, Goto, TypeOK, PlaceType
    <2>3. QueueType'
        <3>1. Record(writing[1]) \in Written
            BY <2>1 DEF Record, Command, Written
        <3>2. Append(wire, Record(writing[1])) \in Seq(Written)
            BY <3>1, AppendType DEF TypeOK, QueueType
        <3>3. /\ wire' \in {wire, Append(wire, Record(writing[1]))}
              /\ writing' = <<>> /\ ctl' = ctl /\ med' = med
            BY <1>39, ZenonT(30) DEF WriteCommand, queueVars
        <3>4. <<>> \in Seq(Command)
            BY Lengths, ZenonT(30)
        <3> QED BY <3>2, <3>3, <3>4, ZenonT(30) DEF TypeOK, QueueType
    <2>4. FlagType'
        BY <1>39, ZenonT(30) DEF WriteCommand, TypeOK, FlagType
    <2> QED BY <1>39, <2>2, <2>3, <2>4, FrameTypes, ZenonT(30) DEF WriteCommand, TypeOK
<1>40. ASSUME WriteFails PROVE TypeOK'
    <2>1. writing[1] \in Command
        BY <1>40, SingleType, ZenonT(30) DEF WriteFails, Shape, TypeOK, QueueType
    <2>2. FlagType'
        BY <1>40, ZenonT(30) DEF WriteFails, TypeOK, FlagType
    <2>3. CASE ExitWriter
        BY <1>40, <2>2, <2>3, ExitWriterType, FrameTypes, ZenonT(30)
        DEF WriteFails, ExitWriter, TypeOK, callVars, respVars
    <2>4. CASE /\ Complete(writing[1], "failed")
               /\ Goto("writer", "fail")
               /\ UNCHANGED <<inbox, out, queueVars, writing>>
        <3>0. "fail" \in States
            BY DEF States, TaskStates
        <3>1. PlaceType'
            BY <2>1, <2>4, <3>0, AtNames, ZenonT(30) DEF Complete, Goto, Command, TypeOK, PlaceType
        <3> QED BY <1>40, <2>2, <2>4, <3>1, FrameTypes, ZenonT(30)
            DEF WriteFails, TypeOK, callVars, respVars, queueVars
    <2> QED BY <1>40, <2>3, <2>4, ZenonT(30) DEF WriteFails
<1>41. ASSUME WriterReleased PROVE TypeOK'
    BY <1>41, ExitWriterType, FrameTypes, ZenonT(30) DEF WriterReleased, ExitWriter, TypeOK, callVars, respVars, wireVars
<1>42. ASSUME NEW k \in {"part", "final"}, NEW i \in Opened, Dispatch(k, i) PROVE TypeOK'
    <2>0. "read" \in States /\ "deliver" \in States
        BY DEF States, CallStates, SlotStates, TaskStates
    <2> DEFINE es == {e \in pending : e.id = i}
    <2>1. i \in Nat
        <3>1. \A j \in DOMAIN wire : wire[j] \in Written
            BY ElementType DEF TypeOK, QueueType
        <3> QED BY <3>1 DEF Opened, Written
    <2>2. hand' \in Seq(Delivery)
        <3>1. CASE es = {}
            BY <1>42, <3>1 DEF Dispatch
        <3>2. CASE es # {}
            <4> DEFINE d == [call |-> (CHOOSE e \in es : TRUE).call, kind |-> k, id |-> i]
            <4>1. (CHOOSE e \in es : TRUE) \in es
                BY <3>2, ZenonT(30)
            <4>2. d \in Delivery
                BY <2>1, <4>1, ZenonT(30) DEF Delivery, InKinds, TypeOK, RespType
            <4>3. hand' = <<d>>
                BY <1>42, <3>2, ZenonT(30) DEF Dispatch
            <4> HIDE DEF d
            <4> QED BY <4>2, <4>3, SingletonType
        <3> QED BY <3>1, <3>2
    <2>3. RespType'
        BY <1>42, <2>2 DEF Dispatch, TypeOK, RespType
    <2>4. PlaceType'
        BY <1>42, <2>0, AtNames, GotoType, ZenonT(30) DEF Dispatch, TypeOK, Procs, Tasks
    <2> QED BY <1>42, <2>3, <2>4, FrameTypes DEF Dispatch, TypeOK, queueVars, wireVars
<1>43. ASSUME Deliver PROVE TypeOK'
    <2>0. "read" \in States
        BY ZenonT(30) DEF States, CallStates, SlotStates, TaskStates
    <2> DEFINE m == [kind |-> hand[1].kind, id |-> hand[1].id]
    <2>1. hand[1] \in Delivery
        BY <1>43, SingleType, ZenonT(30) DEF Deliver, Shape, TypeOK, RespType
    <2>2. m \in Response /\ hand[1].call \in Calls
        BY <2>1, ZenonT(30) DEF Response, Delivery
    <2>3. inbox' \in [Calls -> Seq(Response)]
        BY <1>43, <2>2, PutType, SamePending, ZenonT(30) DEF Deliver, TypeOK
    <2>4. RespType'
        BY <1>43, <2>3 DEF Deliver, TypeOK, RespType
    <2>5. PlaceType'
        BY <1>43, <2>0, AtNames, GotoType, ZenonT(30) DEF Deliver, TypeOK, Procs, Tasks
    <2> QED BY <1>43, <2>4, <2>5, FrameTypes DEF Deliver, TypeOK, queueVars, wireVars
<1>44. ASSUME ServerPing PROVE TypeOK'
    <2>0. "pong" \in States
        BY DEF States, CallStates, SlotStates, TaskStates
    <2>1. PlaceType'
        BY <1>44, <2>0, WriteControlType DEF ServerPing, TypeOK, Procs, Tasks
    <2> QED BY <1>44, <2>1, StepFrame DEF ServerPing
<1>45. ASSUME PongDone PROVE TypeOK'
    <2>0. "read" \in States /\ "fail" \in States
        BY DEF States, CallStates, SlotStates, TaskStates
    <2>1. PlaceType'
        BY <1>45, <2>0, AtNames, GotoType, ZenonT(30) DEF PongDone, TypeOK, Procs, Tasks
    <2> QED BY <1>45, <2>1, StepFrame DEF PongDone
<1>46. ASSUME ReadFails PROVE TypeOK'
    <2>0. "fail" \in States
        BY DEF States, CallStates, SlotStates, TaskStates
    <2>1. PlaceType'
        BY <1>46, <2>0, AtNames, GotoType DEF ReadFails, TypeOK, Procs, Tasks
    <2> QED BY <1>46, <2>1, StepFrame DEF ReadFails
<1>47. ASSUME ReaderReleased PROVE TypeOK'
    <2>0. "exited" \in States
        BY DEF States, CallStates, SlotStates, TaskStates
    <2>1. PlaceType'
        BY <1>47, <2>0, AtNames, GotoType DEF ReaderReleased, TypeOK, Procs, Tasks
    <2> QED BY <1>47, <2>1, StepFrame DEF ReaderReleased
<1>48. ASSUME Tick PROVE TypeOK'
    <2>0. "ping" \in States /\ "exited" \in States
        BY DEF States, CallStates, SlotStates, TaskStates
    <2>1. PlaceType'
        BY <1>48, <2>0, AtNames, WriteControlType, GotoType, ZenonT(30) DEF Tick, TypeOK, Procs, Tasks
    <2> QED BY <1>48, <2>1, StepFrame DEF Tick
<1>49. ASSUME PingDone PROVE TypeOK'
    <2>0. "tick" \in States /\ "fail" \in States
        BY DEF States, CallStates, SlotStates, TaskStates
    <2>1. PlaceType'
        BY <1>49, <2>0, AtNames, GotoType, ZenonT(30) DEF PingDone, TypeOK, Procs, Tasks
    <2> QED BY <1>49, <2>1, StepFrame DEF PingDone
<1>50. ASSUME Close PROVE TypeOK'
    <2>0. "done" \in States /\ "closing" \in States
        BY DEF States, CallStates, SlotStates, TaskStates
    <2>1. PlaceType'
        BY <1>50, <2>0, AtNames, GotoType DEF Close, TypeOK, Procs, Tasks
    <2>2. FlagType'
        BY <1>50, ZenonT(30) DEF Close, TypeOK, FlagType, wireVars
    <2> QED BY <1>50, <2>1, <2>2, FrameTypes DEF Close, TypeOK, queueVars, wireVars
<1>51. ASSUME EnqueueClose PROVE TypeOK'
    <2>0. "closewait" \in States /\ "take" \in States
        BY DEF States, CallStates, SlotStates, TaskStates
    <2> DEFINE cmd == [kind |-> "CLOSE", id |-> 0, owner |-> "closer"]
    <2>1. cmd \in Command
        BY DEF Command, OutKinds, Procs, Tasks
    <2>2. ctl' = Append(ctl, cmd) \/ ctl' = ctl
        BY <1>51, ZenonT(30) DEF EnqueueClose
    <2> HIDE DEF cmd
    <2>3. ctl' \in Seq(Command)
        BY <2>1, <2>2, AppendType, ZenonT(30) DEF TypeOK, QueueType
    <2>4. QueueType'
        BY <1>51, <2>3 DEF EnqueueClose, TypeOK, QueueType, wireVars
    <2>5. PlaceType'
        BY <1>51, <2>0, AtNames, GotoType, ZenonT(30) DEF EnqueueClose, TypeOK, Procs, Tasks
    <2> QED BY <1>51, <2>4, <2>5, FrameTypes DEF EnqueueClose, TypeOK, wireVars
<1>52. ASSUME CloseWritten PROVE TypeOK'
    <2>0. "take" \in States
        BY DEF States, CallStates, SlotStates, TaskStates
    <2>1. PlaceType'
        BY <1>52, <2>0, AtNames, GotoType, ZenonT(30) DEF CloseWritten, TypeOK, Procs, Tasks
    <2> QED BY <1>52, <2>1, StepFrame DEF CloseWritten
<1>53. ASSUME DropClose PROVE TypeOK'
    <2>0. "done" \in States
        BY DEF States, CallStates, SlotStates, TaskStates
    <2>1. QueueType'
        BY <1>53, OrphanType DEF DropClose, TypeOK
    <2>2. PlaceType'
        BY <1>53, <2>0, AtNames, GotoType, ZenonT(30) DEF DropClose, TypeOK, Procs, Tasks
    <2>3. RespType'
        BY <1>53 DEF DropClose, TypeOK, RespType
    <2> QED BY <1>53, <2>1, <2>2, <2>3, FrameTypes DEF DropClose, TypeOK
<1>54. ASSUME Release PROVE TypeOK'
    <2>1. FlagType'
        BY <1>54, ZenonT(30) DEF Release, TypeOK, FlagType, wireVars
    <2> QED BY <1>54, <2>1, FrameTypes DEF Release, TypeOK, queueVars, wireVars
<1>55. CASE UNCHANGED vars
    BY <1>55, FrameTypes DEF vars, TypeOK, queueVars, wireVars
<1> QED
    BY <1>1, <1>2, <1>3, <1>4, <1>5, <1>6, <1>7, <1>8, <1>9, <1>10,
       <1>11, <1>12, <1>13, <1>14, <1>15, <1>16, <1>17, <1>18, <1>19, <1>20,
       <1>21, <1>22, <1>23, <1>24, <1>25, <1>26, <1>27, <1>28, <1>29, <1>30,
       <1>31, <1>32, <1>33, <1>34, <1>35, <1>36, <1>37, <1>38, <1>39, <1>40,
       <1>41, <1>42, <1>43, <1>44, <1>45, <1>46, <1>47, <1>48, <1>49, <1>50,
       <1>51, <1>52, <1>53, <1>54, <1>55, ZenonT(30)
    DEF Next, CallProgress, TalkProgress, WriterProgress, ReaderProgress,
        KeepaliveProgress, CloserProgress, Enqueue, Procs, Tasks
-----------------------------------------------------------------------------
(* Ids and routing.                                                        *)

Early == {"idle", "slot", "order"}
Waiting == {"budget", "queue"}

\* An id is drawn once: before the request_order guard a call has none, in
\* register it has one, and no two calls have the same.
Ids ==
    /\ nextId # 0
    /\ \A c \in Calls : id[c] < nextId
    /\ \A c \in Calls : pc[c] \in Early => id[c] = 0
    /\ \A c \in Calls : pc[c] = "register" => id[c] # 0
    /\ \A c, d \in Calls : c # d /\ id[c] # 0 => id[c] # id[d]

\* Entries, the frame in the reader's hand and the frames in the channels
\* carry the id of their call.
Routing ==
    /\ \A e \in pending : e.id = id[e.call] /\ e.id # 0
    /\ \A i \in DOMAIN hand : hand[i].id = id[hand[i].call] /\ hand[i].id # 0
    /\ \A c \in Calls : \A i \in DOMAIN inbox[c] :
          inbox[c][i].kind # "err" => inbox[c][i].id = id[c] /\ id[c] # 0

Safe == Shape /\ Ids /\ Routing
IInv == TypeOK /\ Safe
-----------------------------------------------------------------------------
(* What most steps have in common.                                         *)

\* p moves; the others stay, though what they wait for may be decided.
Steady(p) ==
    /\ \A q \in Procs : q # p => pc'[q] = pc[q] /\ (at'[q] = at[q] \/ at'[q] \notin Waiting)
    /\ at'[p] \in Waiting => pc'[p] \in WritingStates
    /\ pc'[p] \in Early => pc[p] \in Early
    /\ pc'[p] = "register" => pc[p] = "register"
    /\ pc'[p] = "write" => pc[p] = "write"
    /\ pc'[p] = "deliver" => pc[p] = "deliver"

\* No frame but an error message enters a channel.
Receives ==
    \A c \in Calls : \A i \in DOMAIN inbox'[c] :
        \/ inbox'[c][i].kind = "err"
        \/ \E j \in DOMAIN inbox[c] : inbox'[c][i] = inbox[c][j]

\* No id is drawn, no entry made, no frame handed out.
Quiet ==
    /\ UNCHANGED <<id, nextId>>
    /\ pending' \subseteq pending
    /\ hand' = hand
    /\ pc["writer"] = "write" /\ pc'["writer"] = "write" => Len(writing') = Len(writing)
    /\ Receives

\* A step of one task that draws no id, adds no entry and gives no channel a
\* new response keeps the routing invariant.
LEMMA QuietStep ==
    ASSUME IInv, TypeOK', NEW p \in Procs, Steady(p), Quiet
    PROVE  Safe'
<1>0. TypeOK /\ Shape /\ Ids /\ Routing
    BY DEF IInv, Safe
<1>1. /\ pc'["writer"] = "write" => Len(writing') = 1
      /\ pc'["reader"] = "deliver" => Len(hand') = 1
    <2>1. "writer" \in Procs /\ "reader" \in Procs
        BY DEF Procs, Tasks
    <2> QED BY <1>0, <2>1 DEF Quiet, Steady, Shape
<1>2. \A q \in Procs : at'[q] \in {"budget", "queue"} => pc'[q] \in WritingStates
    BY <1>0, ZenonT(30) DEF Steady, Shape, Waiting
<1>3. Ids'
    <2>1. ASSUME NEW c \in Calls PROVE /\ pc'[c] \in Early => pc[c] \in Early
                                       /\ pc'[c] = "register" => pc[c] = "register"
        BY <2>1, ZenonT(30) DEF Steady, Procs
    <2> QED BY <1>0, <2>1, ZenonT(30) DEF Ids, Quiet
<1>4. Routing'
    <2>1. \A e \in pending' : e.id = id'[e.call] /\ e.id # 0
        BY <1>0, ZenonT(30) DEF Routing, Quiet
    <2>2. \A i \in DOMAIN hand' : hand'[i].id = id'[hand'[i].call] /\ hand'[i].id # 0
        BY <1>0, ZenonT(30) DEF Routing, Quiet
    <2>3. ASSUME NEW c \in Calls, NEW i \in DOMAIN inbox'[c], inbox'[c][i].kind # "err"
          PROVE  inbox'[c][i].id = id'[c] /\ id'[c] # 0
        <3>1. PICK j \in DOMAIN inbox[c] : inbox'[c][i] = inbox[c][j]
            BY <2>3, ZenonT(30) DEF Quiet, Receives
        <3> QED BY <1>0, <2>3, <3>1, ZenonT(30) DEF Routing, Quiet
    <2> QED BY <2>1, <2>2, <2>3, ZenonT(30) DEF Routing
<1> QED BY <1>1, <1>2, <1>3, <1>4 DEF Safe, Shape

\* Moving a task on is steady if it does not go back before its id.
LEMMA GotoSteady ==
    ASSUME TypeOK, Shape, NEW p \in Procs, NEW s, Goto(p, s),
           s \notin {"register", "write", "deliver"},
           s \in Early => pc[p] \in Early,
           \/ UNCHANGED at /\ pc[p] \notin WritingStates
           \/ \E a : at' = [at EXCEPT ![p] = a] /\ (a \in Waiting => s \in WritingStates)
    PROVE  Steady(p)
BY DEF Steady, Goto, TypeOK, PlaceType, Shape, Waiting

\* The start of a control write is steady.
LEMMA ControlSteady ==
    ASSUME TypeOK, Shape, NEW p \in Procs, NEW s \in WritingStates, WriteControl(p, s)
    PROVE  Steady(p)
<1>1. s \notin Early \cup {"register", "write", "deliver"}
    BY DEF WritingStates, Early
<1> QED BY <1>1, GotoSteady, ZenonT(30) DEF WriteControl

\* The end of a call is steady and gives no channel a new response.
LEMMA LeaveSteady ==
    ASSUME TypeOK, Shape, NEW c \in Calls, NEW s \in {"done", "task"}, NEW o, Leave(c, s, o)
    PROVE  Steady(c) /\ Receives
<1>1. s \notin Early \cup {"register", "write", "deliver"} /\ "none" \notin Waiting
    BY DEF Early, Waiting
<1>2. c \in Procs
    BY DEF Procs
<1>3. Steady(c)
    BY <1>1, <1>2, GotoSteady, ZenonT(30) DEF Leave
<1>4. Receives
    <2>1. DOMAIN inbox'[c] = {}
        BY DEF Leave, TypeOK, RespType
    <2> QED BY <2>1 DEF Leave, TypeOK, RespType, Receives
<1> QED BY <1>3, <1>4

\* Channels left alone receive nothing.
LEMMA SameReceives ==
    ASSUME UNCHANGED inbox
    PROVE  Receives
BY ZenonT(30) DEF Receives

\* Taking a response out of a channel puts none in.
LEMMA ConsumeReceives ==
    ASSUME TypeOK, NEW c \in Calls, inbox[c] # <<>>, Consume(c)
    PROVE  Receives
<1>1. \A i \in DOMAIN inbox'[c] : i + 1 \in DOMAIN inbox[c] /\ inbox'[c][i] = inbox[c][i + 1]
    <2>1. inbox[c] \in Seq(Response) /\ inbox'[c] = Tail(inbox[c])
        BY DEF Consume, TypeOK, RespType
    <2> QED BY <2>1
<1>2. \A d \in Calls : d # c => inbox'[d] = inbox[d]
    BY DEF Consume, TypeOK, RespType
<1> QED BY <1>1, <1>2 DEF Receives

\* A steady step of a call on its channel and its entry keeps the invariant.
LEMMA CallStep ==
    ASSUME IInv, TypeOK', NEW c \in Calls, Steady(c), Receives, OnlyCallAndMap,
           \/ UNCHANGED pending
           \/ pending' = Without(c)
    PROVE  Safe'
<1>1. Quiet
    BY ZenonT(30) DEF Quiet, OnlyCallAndMap, Without, wireVars
<1> QED BY <1>1, QuietStep, ZenonT(30) DEF Procs

\* The end of a call keeps the invariant.
LEMMA LeaveStep ==
    ASSUME IInv, TypeOK', NEW c \in Calls, NEW s \in {"done", "task"}, NEW o,
           Leave(c, s, o), OnlyCallAndMap,
           \/ UNCHANGED pending
           \/ pending' = Without(c)
    PROVE  Safe'
BY LeaveSteady, CallStep DEF IInv, Safe

\* A steady step that touches nothing else keeps the invariant.
LEMMA PlainStep ==
    ASSUME IInv, TypeOK', NEW p \in Procs, Steady(p), OnlyStep
    PROVE  Safe'
<1>1. Quiet
    BY SameReceives DEF Quiet, OnlyStep, callVars, respVars, wireVars
<1> QED BY <1>1, QuietStep, ZenonT(30)

\* Dropping a sender leaves the writer's command where it is.
LEMMA OrphanLength ==
    ASSUME TypeOK, NEW p, Orphan(p)
    PROVE  Len(writing') = Len(writing)
BY DEF Orphan, Orphaned, TypeOK, QueueType

\* The end of the writer task is steady.
LEMMA ExitSteady ==
    ASSUME TypeOK, Shape, ExitWriter, pc["writer"] \notin WritingStates
    PROVE  Steady("writer") /\ Receives
<1>1. "closed" \notin Waiting /\ "exited" \notin Early \cup {"register", "write", "deliver"}
    BY DEF Waiting, Early
<1>2. "writer" \in Procs
    BY DEF Procs, Tasks
<1>3. at["writer"] \notin Waiting
    BY <1>2, ZenonT(30) DEF Shape, Waiting
<1>4. Steady("writer")
    BY <1>1, <1>2, <1>3, ZenonT(30) DEF ExitWriter, Goto, Steady, TypeOK, PlaceType
<1> QED BY <1>4, SameReceives DEF ExitWriter

\* The error of fail_pending carries no id and is no response.
LEMMA ErrorReceives ==
    ASSUME TypeOK, NEW c \in Calls, NEW m, m.kind = "err",
           inbox' = [inbox EXCEPT ![c] = Append(inbox[c], m)]
    PROVE  Receives
<1>1. inbox[c] \in Seq(Response) /\ inbox'[c] = Append(inbox[c], m)
    BY DEF TypeOK, RespType
<1>2. \A i \in DOMAIN inbox'[c] : inbox'[c][i] = m \/ (i \in DOMAIN inbox[c] /\ inbox'[c][i] = inbox[c][i])
    BY <1>1
<1>3. \A d \in Calls : d # c => inbox'[d] = inbox[d]
    BY DEF TypeOK, RespType
<1> QED BY <1>2, <1>3 DEF Receives

\* What fail leaves behind, whoever called it, keeps the invariant.
LEMMA AfterFailStep ==
    ASSUME IInv, TypeOK', NEW p \in Procs, pc[p] \in {"fail", "drain"}, AfterFail(p),
           UNCHANGED <<id, nextId, pending, hand>>
    PROVE  Safe'
<1>1. pc[p] \notin WritingStates /\ "none" \notin Waiting
    BY DEF WritingStates, Waiting
<1>2. CASE p \in Calls /\ (\E o : Leave(p, "done", o)) /\ UNCHANGED writing
    <2>1. Steady(p) /\ Receives
        BY <1>2, LeaveSteady, ZenonT(30) DEF IInv, Safe
    <2>2. Quiet
        BY <1>2, <2>1 DEF Quiet
    <2> QED BY <2>1, <2>2, QuietStep, ZenonT(30)
<1>3. CASE /\ Goto(p, IF p = "closer" THEN "done" ELSE "exited")
           /\ at' = [at EXCEPT ![p] = "none"]
           /\ UNCHANGED <<inbox, writing>>
    <2>1. /\ "done" \notin Early \cup {"register", "write", "deliver"}
          /\ "exited" \notin Early \cup {"register", "write", "deliver"}
        BY DEF Early
    <2>2. Steady(p)
        BY <1>1, <1>3, <2>1, GotoSteady, ZenonT(30) DEF IInv, Safe
    <2>3. Quiet
        BY <1>3, SameReceives, ZenonT(30) DEF Quiet
    <2> QED BY <2>2, <2>3, QuietStep
<1>4. CASE p = "writer" /\ ExitWriter
    <2>1. Steady(p) /\ Receives
        BY <1>1, <1>4, ExitSteady, ZenonT(30) DEF IInv, Safe
    <2>2. Quiet
        BY <1>4, <2>1 DEF ExitWriter, Goto, Quiet, IInv, TypeOK, PlaceType
    <2> QED BY <2>1, <2>2, QuietStep
<1> QED BY <1>2, <1>3, <1>4 DEF AfterFail
-----------------------------------------------------------------------------
(* The steps that are not quiet.                                           *)

\* A new id is above all others.
LEMMA DrawStep ==
    ASSUME IInv, TypeOK', NEW c \in Calls, AcquireOrder(c),
           id' = [id EXCEPT ![c] = nextId], nextId' = nextId + 1,
           Goto(c, "register"), UNCHANGED <<at, inbox, out>>
    PROVE  Safe'
<1>0. TypeOK /\ Shape /\ Ids /\ Routing
    BY ZenonT(30) DEF IInv, Safe
<1>1. /\ pc[c] = "order" /\ UNCHANGED <<pending, hand, writing>>
      /\ "order" \notin WritingStates /\ "order" \in Early /\ "register" \notin Early
      /\ "register" \notin {"write", "deliver"}
    BY DEF AcquireOrder, wireVars, WritingStates, Early
<1>2. /\ c \in Procs /\ "writer" \in Procs /\ "reader" \in Procs
      /\ c # "writer" /\ c # "reader"
    BY CallsAssumption, ZenonT(30) DEF Procs, Tasks
<1>3. /\ \A q \in Procs : q # c => pc'[q] = pc[q]
      /\ pc'[c] = "register"
    BY <1>0, <1>2, ZenonT(30) DEF Goto, TypeOK, PlaceType
<1>4. Shape'
    BY <1>0, <1>1, <1>2, <1>3 DEF Shape
<1>5. /\ id'[c] = nextId /\ id[c] = 0
      /\ \A d \in Calls : d # c => id'[d] = id[d] /\ pc'[d] = pc[d]
    BY <1>0, <1>1, <1>3, ZenonT(30) DEF TypeOK, CallType, Ids, Procs
<1>6. nextId \in Nat /\ nextId' \in Nat /\ \A d \in Calls : id[d] \in Nat
    BY <1>0 DEF TypeOK, CallType
<1>7. Ids'
    <2>1. /\ nextId' # 0 /\ \A d \in Calls : id'[d] < nextId'
          /\ \A d, e \in Calls : d # e /\ id'[d] # 0 => id'[d] # id'[e]
        <3>1. /\ nextId # 0 /\ \A d \in Calls : id[d] \in Nat /\ id[d] < nextId
              /\ \A d, e \in Calls : d # e /\ id[d] # 0 => id[d] # id[e]
            BY <1>0, <1>6, ZenonT(30) DEF Ids
        <3>2. \A d \in Calls : d # c => id'[d] = id[d]
            BY <1>5, ZenonT(30)
        <3>3. nextId \in Nat /\ id'[c] = nextId /\ id[c] = 0 /\ nextId' = nextId + 1
            BY <1>5, <1>6
        <3> QED BY <3>1, <3>2, <3>3, NewId
    <2>2. \A d \in Calls : /\ pc'[d] \in Early => id'[d] = 0
                           /\ pc'[d] = "register" => id'[d] # 0
        BY <1>0, <1>1, <1>3, <1>5, ZenonT(60) DEF Ids
    <2> QED BY <2>1, <2>2, ZenonT(30) DEF Ids
<1>8. Routing'
    <2>1. \A e \in pending : e.call \in Calls
        BY <1>0 DEF TypeOK, RespType
    <2>2. \A i \in DOMAIN hand : hand[i].call \in Calls
        <3>1. \A i \in DOMAIN hand : hand[i] \in Delivery
            BY <1>0, ElementType DEF TypeOK, RespType
        <3> QED BY <3>1, ZenonT(30) DEF Delivery
    <2>3. \A d \in Calls : id[d] # 0 => id'[d] = id[d]
        BY <1>5, ZenonT(30)
    <2>4. \A e \in pending : e.id = id'[e.call] /\ e.id # 0
        BY <1>0, <2>1, <2>3 DEF Routing
    <2>5. \A i \in DOMAIN hand : hand[i].id = id'[hand[i].call] /\ hand[i].id # 0
        BY <1>0, <2>2, <2>3, ZenonT(30) DEF Routing
    <2>6. \A d \in Calls : \A i \in DOMAIN inbox[d] :
              inbox[d][i].kind # "err" => inbox[d][i].id = id'[d] /\ id'[d] # 0
        BY <1>0, <2>3 DEF Routing
    <2> QED BY <1>1, <2>4, <2>5, <2>6, ZenonT(60) DEF Routing
<1> QED BY <1>4, <1>7, <1>8 DEF Safe

\* The entry carries the id its call has drawn.
LEMMA RegisterStep ==
    ASSUME IInv, TypeOK', NEW c \in Calls, Register(c)
    PROVE  Safe'
<1>0. TypeOK /\ Shape /\ Ids /\ Routing
    BY DEF IInv, Safe
<1>1. /\ "open" \in WritingStates
      /\ "open" \notin Early \cup {"register", "write", "deliver"}
    BY DEF WritingStates, Early
<1>2. Steady(c) /\ Receives
    <2>1. CASE Leave(c, "task", "timeout")
        BY <1>0, <2>1, LeaveSteady
    <2>2. CASE Goto(c, "open") /\ at' = [at EXCEPT ![c] = "budget"] /\ UNCHANGED inbox
        BY <1>0, <1>1, <2>2, GotoSteady, SameReceives, ZenonT(30) DEF Procs
    <2> QED BY <2>1, <2>2, ZenonT(30) DEF Register
<1>3. /\ UNCHANGED <<id, nextId, hand, writing>>
      /\ pc[c] = "register"
      /\ pending' = Without(c) \cup {[id |-> id[c], call |-> c]}
    BY ZenonT(30) DEF Register, OnlyCallAndMap, wireVars
<1>4. /\ pc'["writer"] = "write" => Len(writing') = 1
      /\ pc'["reader"] = "deliver" => Len(hand') = 1
    <2>1. "writer" \in Procs /\ "reader" \in Procs
        BY ZenonT(30) DEF Procs, Tasks
    <2> QED BY <1>0, <1>2, <1>3, <2>1 DEF Steady, Shape
<1>5. Shape'
    BY <1>0, <1>2, <1>4 DEF Steady, Shape, Waiting
<1>6. Ids'
    <2>1. ASSUME NEW d \in Calls PROVE /\ pc'[d] \in Early => pc[d] \in Early
                                       /\ pc'[d] = "register" => pc[d] = "register"
        BY <1>2, <2>1, ZenonT(30) DEF Steady, Procs
    <2> QED BY <1>0, <1>3, <2>1, ZenonT(30) DEF Ids
<1>7. Routing'
    <2>1. \A e \in pending' : e.id = id'[e.call] /\ e.id # 0
        <3>1. id[c] # 0
            BY <1>0, <1>3, ZenonT(30) DEF Ids
        <3>2. \A e \in Without(c) : e.id = id[e.call] /\ e.id # 0
            BY <1>0, ZenonT(30) DEF Routing, Without
        <3>3. [id |-> id[c], call |-> c].id = id[c] /\ [id |-> id[c], call |-> c].call = c
            BY Fields, ZenonT(30)
        <3> QED BY <1>3, <3>1, <3>2, <3>3, ZenonT(30)
    <2>2. ASSUME NEW d \in Calls, NEW i \in DOMAIN inbox'[d], inbox'[d][i].kind # "err"
          PROVE  inbox'[d][i].id = id'[d] /\ id'[d] # 0
        <3>1. PICK j \in DOMAIN inbox[d] : inbox'[d][i] = inbox[d][j]
            BY <1>2, <2>2 DEF Receives
        <3> QED BY <1>0, <1>3, <2>2, <3>1, ZenonT(30) DEF Routing
    <2> QED BY <1>0, <1>3, <2>1, <2>2, ZenonT(30) DEF Routing
<1> QED BY <1>5, <1>6, <1>7 DEF Safe

\* The writer taking a command from a queue keeps the invariant.
LEMMA TakeCommandStep ==
    ASSUME IInv, TypeOK', TakeCommand
    PROVE  Safe'
<1>0. TypeOK /\ Shape /\ Ids /\ Routing
    BY ZenonT(30) DEF IInv, Safe
<1>1. /\ "writer" \in Procs /\ "reader" \in Procs /\ "writer" # "reader"
      /\ "write" \notin Early \cup {"register", "deliver"} /\ "select" \notin WritingStates
      /\ "writer" \notin Calls
    BY CallsAssumption, ZenonT(30) DEF Procs, Tasks, WritingStates, Early
<1>2. /\ pc["writer"] = "select" /\ Goto("writer", "write") /\ Len(writing') = 1
      /\ UNCHANGED <<at, id, nextId, pending, inbox, hand>>
    BY ZenonT(30) DEF TakeCommand, callVars, respVars
<1>3. \A q \in Procs : q # "writer" => pc'[q] = pc[q]
    BY <1>0, <1>2, ZenonT(30) DEF Goto, TypeOK, PlaceType
<1>4. Shape'
    BY <1>0, <1>1, <1>2, <1>3 DEF Shape
<1>5. Ids'
    BY <1>0, <1>1, <1>2, <1>3, ZenonT(30) DEF Ids, Procs
<1>6. Routing'
    BY <1>0, <1>2, ZenonT(30) DEF Routing
<1> QED BY <1>4, <1>5, <1>6 DEF Safe

\* The writer's completion decides the wait of the command's owner.
LEMMA CompleteDecides ==
    ASSUME TypeOK, NEW cmd \in Command, NEW r, r \notin Waiting, Complete(cmd, r)
    PROVE  \A q \in Procs : at'[q] = at[q] \/ at'[q] \notin Waiting
BY DEF Complete, TypeOK, PlaceType

\* The writer writing its command keeps the invariant.
LEMMA WriteCommandStep ==
    ASSUME IInv, TypeOK', WriteCommand
    PROVE  Safe'
<1>0. TypeOK /\ Shape /\ Ids /\ Routing
    BY DEF IInv, Safe
<1>1. /\ "writer" \in Procs /\ "select" \notin Early \cup {"register", "write", "deliver"}
      /\ "ok" \notin Waiting /\ "write" \notin WritingStates
    BY DEF Procs, Tasks, Early, Waiting, WritingStates
<1>2. writing[1] \in Command
    BY <1>0, SingleType, ZenonT(30) DEF WriteCommand, Shape, TypeOK, QueueType
<1>3. \A q \in Procs : at'[q] = at[q] \/ at'[q] \notin Waiting
    BY <1>0, <1>1, <1>2, CompleteDecides, ZenonT(30) DEF WriteCommand
<1>4. at["writer"] \notin Waiting
    BY <1>0, <1>1, ZenonT(30) DEF WriteCommand, Shape, Waiting
<1>5. Goto("writer", "select")
    BY ZenonT(30) DEF WriteCommand
<1>6. Steady("writer") /\ pc'["writer"] = "select"
    BY <1>0, <1>1, <1>3, <1>4, <1>5, ZenonT(30) DEF Goto, Steady, TypeOK, PlaceType
<1>7. Quiet
    BY <1>6, SameReceives, ZenonT(30) DEF WriteCommand, Quiet, callVars, respVars
<1> QED BY <1>1, <1>6, <1>7, QuietStep

\* A failing write keeps the invariant.
LEMMA WriteFailsStep ==
    ASSUME IInv, TypeOK', WriteFails
    PROVE  Safe'
<1>0. TypeOK /\ Shape /\ Ids /\ Routing
    BY DEF IInv, Safe
<1>1. /\ "writer" \in Procs /\ "fail" \notin Early \cup {"register", "write", "deliver"}
      /\ "failed" \notin Waiting /\ "write" \notin WritingStates /\ "exited" # "write"
    BY ZenonT(30) DEF Procs, Tasks, Early, Waiting, WritingStates
<1>2. at["writer"] \notin Waiting
    BY <1>0, <1>1 DEF WriteFails, Shape, Waiting
<1>3. CASE ExitWriter
    <2>1. Steady("writer") /\ Receives
        BY <1>0, <1>1, <1>3, ExitSteady, ZenonT(30) DEF WriteFails
    <2>2. Quiet
        BY <1>0, <1>1, <1>3, <2>1, ZenonT(30) DEF WriteFails, ExitWriter, Goto, Quiet, TypeOK, PlaceType
    <2> QED BY <1>1, <2>1, <2>2, QuietStep
<1>4. CASE Complete(writing[1], "failed") /\ Goto("writer", "fail") /\ UNCHANGED <<inbox, writing>>
    <2>1. writing[1] \in Command
        BY <1>0, SingleType, ZenonT(30) DEF WriteFails, Shape, TypeOK, QueueType
    <2>2. \A q \in Procs : at'[q] = at[q] \/ at'[q] \notin Waiting
        BY <1>0, <1>1, <1>4, <2>1, CompleteDecides
    <2>3. Steady("writer")
        BY <1>0, <1>1, <1>2, <1>4, <2>2, ZenonT(30) DEF Goto, Steady, TypeOK, PlaceType
    <2>4. Quiet
        BY <1>4, SameReceives DEF WriteFails, Quiet
    <2> QED BY <1>1, <2>3, <2>4, QuietStep
<1> QED BY <1>3, <1>4 DEF WriteFails

\* dispatch hands a frame to the call whose entry has the frame's id.
LEMMA DispatchStep ==
    ASSUME IInv, TypeOK', NEW k \in {"part", "final"}, NEW i \in Opened, Dispatch(k, i)
    PROVE  Safe'
<1>0. TypeOK /\ Shape /\ Ids /\ Routing
    BY DEF IInv, Safe
<1> DEFINE es == {e \in pending : e.id = i}
<1>1. /\ "writer" \in Procs /\ "reader" \in Procs /\ "writer" # "reader"
      /\ "reader" \notin Calls /\ "read" \notin WritingStates /\ "read" # "deliver"
    BY CallsAssumption, ZenonT(30) DEF Procs, Tasks, WritingStates
<1>2. /\ pc["reader"] = "read" /\ UNCHANGED <<at, id, nextId, inbox, writing>>
      /\ pending' \subseteq pending
      /\ Goto("reader", IF es = {} THEN "read" ELSE "deliver")
    BY ZenonT(30) DEF Dispatch, callVars, wireVars
<1>3. /\ \A q \in Procs : q # "reader" => pc'[q] = pc[q]
      /\ pc'["reader"] = IF es = {} THEN "read" ELSE "deliver"
    BY <1>0, <1>1, <1>2 DEF Goto, TypeOK, PlaceType
<1>4. /\ es = {} => hand' = <<>>
      /\ es # {} => \E e \in es : hand' = <<[call |-> e.call, kind |-> k, id |-> i]>>
    <2>1. es # {} => (CHOOSE e \in es : TRUE) \in es
        BY ZenonT(30)
    <2> QED BY <2>1, ZenonT(30) DEF Dispatch
<1>5. Shape'
    <2>1. pc'["reader"] = "deliver" => Len(hand') = 1
        BY <1>1, <1>3, <1>4, Lengths, ZenonT(30)
    <2> QED BY <1>0, <1>1, <1>2, <1>3, <2>1 DEF Shape
<1>6. Ids'
    BY <1>0, <1>1, <1>2, <1>3, ZenonT(30) DEF Ids, Procs
<1>7. Routing'
    <2>1. \A j \in DOMAIN hand' : hand'[j].id = id'[hand'[j].call] /\ hand'[j].id # 0
        <3>1. CASE es = {}
            BY <1>4, <3>1, Lengths, ZenonT(30)
        <3>2. CASE es # {}
            <4>1. PICK e \in es : hand' = <<[call |-> e.call, kind |-> k, id |-> i]>>
                BY <1>4, <3>2, ZenonT(30)
            <4>2. e.id = i /\ id[e.call] = i /\ i # 0
                BY <1>0, ZenonT(30) DEF Routing
            <4>3. id' = id
                BY <1>2, ZenonT(30)
            <4> QED BY <4>1, <4>2, <4>3, OneDelivery
        <3> QED BY <3>1, <3>2, ZenonT(30)
    <2> QED BY <1>0, <1>2, <2>1, ZenonT(30) DEF Routing
<1> QED BY <1>5, <1>6, <1>7 DEF Safe

\* What is in the reader's hand goes to the channel of its call.
LEMMA DeliverStep ==
    ASSUME IInv, TypeOK', Deliver
    PROVE  Safe'
<1>0. TypeOK /\ Shape /\ Ids /\ Routing
    BY DEF IInv, Safe
<1> DEFINE f == hand[1]
           m == [kind |-> hand[1].kind, id |-> hand[1].id]
<1>1. /\ "writer" \in Procs /\ "reader" \in Procs /\ "writer" # "reader"
      /\ "reader" \notin Calls /\ "deliver" \notin WritingStates /\ "read" # "deliver"
    BY CallsAssumption, ZenonT(30) DEF Procs, Tasks, WritingStates
<1>2. /\ pc["reader"] = "deliver" /\ hand' = <<>> /\ Goto("reader", "read")
      /\ UNCHANGED <<at, id, nextId, pending, writing>>
    BY DEF Deliver, callVars, wireVars
<1>3. /\ \A q \in Procs : q # "reader" => pc'[q] = pc[q]
      /\ pc'["reader"] = "read"
    BY <1>0, <1>1, <1>2, ZenonT(30) DEF Goto, TypeOK, PlaceType
<1>4. Shape'
    BY <1>0, <1>1, <1>2, <1>3, ZenonT(30) DEF Shape
<1>5. Ids'
    BY <1>0, <1>1, <1>2, <1>3, ZenonT(30) DEF Ids, Procs
<1>6. f.call \in Calls /\ f.id = id[f.call] /\ f.id # 0
    <2>1. f \in Delivery /\ 1 \in DOMAIN hand
        BY <1>0, <1>2, SingleType DEF Shape, TypeOK, RespType
    <2> QED BY <1>0, <2>1, ZenonT(30) DEF Delivery, Routing
<1>7. ASSUME NEW c \in Calls, NEW j \in DOMAIN inbox'[c], inbox'[c][j].kind # "err"
      PROVE  inbox'[c][j].id = id'[c] /\ id'[c] # 0
    <2>1. CASE UNCHANGED inbox
        BY <1>0, <1>2, <1>7, <2>1, ZenonT(30) DEF Routing
    <2>2. CASE inbox' = [inbox EXCEPT ![f.call] = Append(inbox[f.call], m)]
        <3>1. CASE c # f.call
            BY <1>0, <1>2, <1>7, <2>2, <3>1, ZenonT(30) DEF Routing, TypeOK, RespType
        <3>2. CASE c = f.call
            <4>1. inbox[c] \in Seq(Response) /\ inbox'[c] = Append(inbox[c], m)
                BY <1>0, <2>2, <3>2, ZenonT(30) DEF TypeOK, RespType
            <4>2. inbox'[c][j] = m \/ (j \in DOMAIN inbox[c] /\ inbox'[c][j] = inbox[c][j])
                <5>1. inbox[c] \in Seq(Response) /\ j \in DOMAIN Append(inbox[c], m)
                    BY <1>7, <4>1, ZenonT(30)
                <5> HIDE DEF m
                <5>2. Append(inbox[c], m)[j] = m \/ (j \in DOMAIN inbox[c] /\ Append(inbox[c], m)[j] = inbox[c][j])
                    BY <5>1, AppendElement
                <5> QED BY <4>1, <5>2, ZenonT(30)
            <4>3. CASE inbox'[c][j] = m
                <5>1. m.id = f.id
                    BY Fields, ZenonT(30)
                <5> QED BY <1>2, <1>6, <3>2, <4>3, <5>1, ZenonT(30)
            <4>4. CASE j \in DOMAIN inbox[c] /\ inbox'[c][j] = inbox[c][j]
                BY <1>0, <1>2, <1>7, <4>4, ZenonT(30) DEF Routing
            <4> QED BY <4>2, <4>3, <4>4, ZenonT(30)
        <3> QED BY <3>1, <3>2, ZenonT(30)
    <2> QED BY <2>1, <2>2, ZenonT(30) DEF Deliver
<1>8. Routing'
    <2>1. \A e \in pending' : e.id = id'[e.call] /\ e.id # 0
        BY <1>0, <1>2, ZenonT(30) DEF Routing
    <2>2. DOMAIN hand' = {}
        BY <1>2, Lengths, ZenonT(30)
    <2> QED BY <1>7, <2>1, <2>2, ZenonT(30) DEF Routing
<1> QED BY <1>4, <1>5, <1>8 DEF Safe
-----------------------------------------------------------------------------
\* Every action of the connection keeps the routing invariant.
LEMMA SafeStep ==
    ASSUME IInv, [Next]_vars
    PROVE  Safe'
<1>0. TypeOK /\ Shape /\ TypeOK'
    BY TypeStep DEF IInv, Safe
<1> USE <1>0
<1>1. ASSUME NEW p \in Procs, AcquireBudget(p) PROVE Safe'
    <2>1. Steady(p)
        BY <1>1, ZenonT(30) DEF AcquireBudget, Steady, Shape, TypeOK, PlaceType, Waiting
    <2> QED BY <1>1, <2>1, PlainStep, ZenonT(30) DEF AcquireBudget
<1>2. ASSUME NEW p \in Procs, SendToWriter(p) PROVE Safe'
    <2>1. Steady(p)
        BY <1>2, ZenonT(30) DEF SendToWriter, Steady, TypeOK, PlaceType, Waiting
    <2>2. Quiet
        BY <1>2, SameReceives DEF SendToWriter, Quiet, callVars, respVars, wireVars
    <2> QED BY <2>1, <2>2, QuietStep
<1>3. ASSUME NEW p \in Procs, WriterGone(p) PROVE Safe'
    <2>1. Steady(p)
        BY <1>3 DEF WriterGone, Steady, TypeOK, PlaceType, Waiting
    <2> QED BY <1>3, <2>1, PlainStep, ZenonT(30) DEF WriterGone
<1>4. ASSUME NEW p \in Procs, EnqueueTimeout(p) PROVE Safe'
    <2>1. Steady(p)
        BY <1>4, ZenonT(30) DEF EnqueueTimeout, Steady, TypeOK, PlaceType, Waiting
    <2>2. Quiet
        BY <1>4, SameReceives, OrphanLength, ZenonT(30) DEF EnqueueTimeout, Quiet, callVars, respVars
    <2> QED BY <2>1, <2>2, QuietStep
<1>5. ASSUME NEW c \in Calls, Begin(c) PROVE Safe'
    <2>1. "slot" \notin {"register", "write", "deliver"} /\ "idle" \in Early
          /\ "idle" \notin WritingStates
        BY ZenonT(30) DEF Early, WritingStates
    <2>2. Steady(c)
        BY <1>5, <2>1, GotoSteady, ZenonT(30) DEF Begin, Procs
    <2> QED BY <1>5, <2>2, PlainStep, ZenonT(30) DEF Begin, Procs
<1>6. ASSUME NEW c \in Calls, AcquireSlot(c) PROVE Safe'
    <2>1. CASE Leave(c, "done", "error")
        BY <1>6, <2>1, LeaveStep, ZenonT(30) DEF AcquireSlot, OnlyCall
    <2>2. CASE Goto(c, "order") /\ UNCHANGED <<at, inbox, out>>
        <3>1. "order" \notin {"register", "write", "deliver"} /\ "slot" \in Early
              /\ "slot" \notin WritingStates
            BY ZenonT(30) DEF Early, WritingStates
        <3>2. Steady(c)
            BY <1>6, <2>2, <3>1, GotoSteady, ZenonT(30) DEF AcquireSlot, Procs
        <3> QED BY <1>6, <2>2, <3>2, SameReceives, CallStep DEF AcquireSlot, OnlyCall
    <2> QED BY <1>6, <2>1, <2>2, ZenonT(30) DEF AcquireSlot
<1>7. ASSUME NEW c \in Calls, BeginTimeout(c) PROVE Safe'
    BY <1>7, LeaveStep, ZenonT(30) DEF BeginTimeout, OnlyCall
<1>8. ASSUME NEW c \in Calls, AcquireOrder(c) PROVE Safe'
    <2>1. CASE Leave(c, "done", "error") /\ UNCHANGED <<id, nextId>>
        BY <1>8, <2>1, LeaveStep DEF AcquireOrder, OnlyCallAndMap
    <2>2. CASE /\ id' = [id EXCEPT ![c] = nextId]
               /\ nextId' = nextId + 1
               /\ Goto(c, "register")
               /\ UNCHANGED <<at, inbox, out>>
        BY <1>8, <2>2, DrawStep, ZenonT(30)
    <2> QED BY <1>8, <2>1, <2>2, ZenonT(30) DEF AcquireOrder
<1>9. ASSUME NEW c \in Calls, PayloadTooLarge(c) PROVE Safe'
    BY <1>9, LeaveStep DEF PayloadTooLarge, OnlyCall
<1>10. ASSUME NEW c \in Calls, Register(c) PROVE Safe'
    BY <1>10, RegisterStep
<1>11. ASSUME NEW c \in Calls, FrameWritten(c) PROVE Safe'
    <2>1. "feed" \notin Early \cup {"register", "write", "deliver"} /\ "final" \notin Early \cup {"register", "write", "deliver"} /\ "recv" \notin Early \cup {"register", "write", "deliver"} /\ "live" \notin Early \cup {"register", "write", "deliver"} /\ "accept" \notin Early \cup {"register", "write", "deliver"} /\ "none" \notin Waiting
        BY DEF Early, WritingStates, Waiting
    <2>2. Steady(c)
        BY <1>11, <2>1, GotoSteady, ZenonT(30) DEF FrameWritten, AfterWrite, Procs, Tasks
    <2> QED BY <1>11, <2>2, PlainStep DEF FrameWritten, Procs, Tasks
<1>12. ASSUME NEW c \in Calls, OpenFailed(c) PROVE Safe'
    <2>1. CASE Leave(c, "done", "error")
        BY <1>12, <2>1, LeaveStep, ZenonT(30) DEF OpenFailed
    <2>2. CASE Goto(c, "fail") /\ UNCHANGED <<at, inbox, out>>
        <3>1. "fail" \notin Early \cup {"register", "write", "deliver"}
              /\ (at[c] \in Result => at[c] \notin Waiting)
            BY DEF Early, Result, Waiting
        <3>2. Steady(c)
            BY <1>12, <2>2, <3>1, ZenonT(30) DEF OpenFailed, Refused, Goto, Steady, Procs, TypeOK, PlaceType
        <3> QED BY <1>12, <2>2, <3>2, SameReceives, CallStep, ZenonT(30) DEF OpenFailed
    <2> QED BY <1>12, <2>1, <2>2, ZenonT(30) DEF OpenFailed
<1>13. ASSUME NEW p \in Procs, Fail(p) PROVE Safe'
    <2>1. CASE AfterFail(p)
        BY <1>13, <2>1, AfterFailStep, ZenonT(30) DEF Fail
    <2>2. CASE Goto(p, "take") /\ UNCHANGED <<at, inbox, out, queueVars, writing>>
        <3>1. "take" \notin Early \cup {"register", "write", "deliver"}
              /\ "fail" \notin WritingStates
            BY ZenonT(30) DEF Early, WritingStates
        <3>2. Steady(p)
            BY <1>13, <2>2, <3>1, GotoSteady, ZenonT(30) DEF Fail
        <3>3. Quiet
            BY <1>13, <2>2, SameReceives, ZenonT(30) DEF Fail, Quiet
        <3> QED BY <3>2, <3>3, QuietStep
    <2> QED BY <1>13, <2>1, <2>2, ZenonT(30) DEF Fail
<1>14. ASSUME NEW p \in Procs, TakePending(p) PROVE Safe'
    <2>1. "drain" \notin Early \cup {"register", "write", "deliver"}
          /\ "take" \notin WritingStates
        BY DEF Early, WritingStates
    <2>2. Steady(p)
        BY <1>14, <2>1, GotoSteady, ZenonT(30) DEF TakePending
    <2>3. Quiet
        BY <1>14, SameReceives, ZenonT(30) DEF TakePending, Quiet, callVars, wireVars
    <2> QED BY <2>2, <2>3, QuietStep
<1>15. ASSUME NEW p \in Procs, DrainNext(p) PROVE Safe'
    <2>1. Steady(p)
        BY <1>15 DEF DrainNext, Steady, Shape, Waiting
    <2>2. Receives
        <3>1. Head(drain) \in Calls
            BY <1>15, HeadTail, ZenonT(30) DEF DrainNext, TypeOK, RespType
        <3> DEFINE c == Head(drain)
                   m == [kind |-> "err", id |-> 0]
        <3>2. c \in Calls /\ m.kind = "err" /\ TypeOK
            BY <3>1, ZenonT(30)
        <3>3. \/ inbox' = [inbox EXCEPT ![c] = Append(inbox[c], m)]
              \/ UNCHANGED inbox
            BY <1>15 DEF DrainNext
        <3> HIDE DEF c, m
        <3>4. CASE inbox' = [inbox EXCEPT ![c] = Append(inbox[c], m)]
            BY <3>2, <3>4, ErrorReceives, ZenonT(30)
        <3>5. CASE UNCHANGED inbox
            BY <3>5, SameReceives, ZenonT(30)
        <3> QED BY <3>3, <3>4, <3>5, ZenonT(30)
    <2>3. Quiet
        BY <1>15, <2>2, ZenonT(30) DEF DrainNext, Quiet, callVars, wireVars
    <2> QED BY <2>1, <2>3, QuietStep
<1>16. ASSUME NEW p \in Procs, DrainDone(p) PROVE Safe'
    BY <1>16, AfterFailStep, ZenonT(30) DEF DrainDone
<1>17. ASSUME NEW c \in Calls, RecvResponse(c) PROVE Safe'
    BY <1>17, LeaveStep, ZenonT(30) DEF RecvResponse, OnlyCall
<1>18. ASSUME NEW c \in Calls, RecvChannelClosed(c) PROVE Safe'
    BY <1>18, LeaveStep, ZenonT(30) DEF RecvChannelClosed, OnlyCall
<1>19. ASSUME NEW c \in Calls, RecvTimeout(c) PROVE Safe'
    <2>1. CASE Leave(c, "task", "timeout")
        BY <1>19, <2>1, LeaveStep, ZenonT(30) DEF RecvTimeout, OnlyCall
    <2>2. CASE pc[c] = "recv" /\ Goto(c, "cancel") /\ UNCHANGED <<at, inbox>>
        <3>1. "cancel" \notin Early \cup {"register", "write", "deliver"}
              /\ "recv" \notin WritingStates
            BY DEF Early, WritingStates
        <3>2. Steady(c)
            BY <2>2, <3>1, GotoSteady, ZenonT(30) DEF Procs
        <3> QED BY <1>19, <2>2, <3>2, SameReceives, CallStep, ZenonT(30) DEF RecvTimeout, OnlyCall
    <2> QED BY <1>19, <2>1, <2>2, ZenonT(30) DEF RecvTimeout
<1>20. ASSUME NEW c \in Calls, CancelRemove(c) PROVE Safe'
    <2>1. "cancelling" \in WritingStates /\ "tasking" \in WritingStates
        BY DEF WritingStates
    <2>2. Steady(c)
        BY <1>20, <2>1, ControlSteady DEF CancelRemove, Procs
    <2> QED BY <1>20, <2>2, SameReceives, CallStep DEF CancelRemove, OnlyCallAndMap, callVars
<1>21. ASSUME NEW c \in Calls, CancelDone(c) PROVE Safe'
    BY <1>21, LeaveStep, ZenonT(30) DEF CancelDone, OnlyCall
<1>22. ASSUME NEW c \in Calls, Accept(c) PROVE Safe'
    <2>1. CASE \E s \in {"done", "task"} : Leave(c, s, "error")
        BY <1>22, <2>1, LeaveStep, ZenonT(30) DEF Accept
    <2>2. CASE Steady(c) /\ Consume(c) /\ UNCHANGED pending
        BY <1>22, <2>2, ConsumeReceives, CallStep, ZenonT(30) DEF Accept
    <2>3. CASE WriteControl(c, "abort") /\ Consume(c) /\ UNCHANGED pending
        <3>1. "abort" \in WritingStates
            BY DEF WritingStates
        <3> QED BY <2>2, <2>3, <3>1, ControlSteady DEF Procs
    <2>4. CASE /\ Goto(c, IF c \in Upload THEN "feed" ELSE "fetch")
               /\ Consume(c) /\ UNCHANGED <<at, pending>>
        <3>1. /\ "feed" \notin Early \cup {"register", "write", "deliver"}
              /\ "fetch" \notin Early \cup {"register", "write", "deliver"}
              /\ "accept" \notin WritingStates
            BY DEF Early, WritingStates
        <3> QED BY <1>22, <2>2, <2>4, <3>1, GotoSteady, ZenonT(30) DEF Accept, Procs
    <2> QED BY <1>22, <2>1, <2>3, <2>4, ZenonT(30) DEF Accept
<1>23. ASSUME NEW c \in Calls, SendChunk(c) PROVE Safe'
    <2>1. "data" \in WritingStates
        BY ZenonT(30) DEF WritingStates
    <2>2. Steady(c)
        BY <1>23, <2>1, ControlSteady, ZenonT(30) DEF SendChunk, Procs
    <2>3. Quiet
        BY <1>23, SameReceives DEF SendChunk, Quiet, respVars, wireVars
    <2> QED BY <2>2, <2>3, QuietStep DEF Procs
<1>24. ASSUME NEW c \in Calls, AbortUpload(c) PROVE Safe'
    <2>1. "abort" \in WritingStates
        BY DEF WritingStates
    <2>2. Steady(c)
        BY <1>24, <2>1, ControlSteady, ZenonT(30) DEF AbortUpload, Procs, Tasks
    <2> QED BY <1>24, <2>2, PlainStep, ZenonT(30) DEF AbortUpload, Procs, Tasks
<1>25. ASSUME NEW c \in Calls, SealFails(c) PROVE Safe'
    BY <1>25, LeaveStep, ZenonT(30) DEF SealFails, OnlyCall
<1>26. ASSUME NEW c \in Calls, SendEnd(c) PROVE Safe'
    <2>1. "end" \in WritingStates
        BY DEF WritingStates
    <2>2. Steady(c)
        BY <1>26, <2>1, ControlSteady DEF SendEnd, Procs, Tasks
    <2> QED BY <1>26, <2>2, PlainStep DEF SendEnd, Procs, Tasks
<1>27. ASSUME NEW c \in Calls, EndFailed(c) PROVE Safe'
    BY <1>27, LeaveStep, ZenonT(30) DEF EndFailed, OnlyCall
<1>28. ASSUME NEW c \in Calls, AbortDone(c) PROVE Safe'
    BY <1>28, LeaveStep, ZenonT(30) DEF AbortDone
<1>29. ASSUME NEW c \in Calls, FetchFrame(c) PROVE Safe'
    <2>1. CASE (\E s \in {"done", "task"}, o \in Outcomes : Leave(c, s, o)) /\ UNCHANGED chunks
        BY <1>29, <2>1, LeaveStep, ZenonT(30) DEF FetchFrame, OnlyCallAndMap
    <2>2. CASE Steady(c) /\ Consume(c)
        <3>1. Receives
            BY <1>29, <2>2, ConsumeReceives, ZenonT(30) DEF FetchFrame
        <3>2. Quiet
            BY <1>29, <3>1, ZenonT(30) DEF FetchFrame, Quiet, wireVars
        <3> QED BY <2>2, <3>2, QuietStep DEF Procs
    <2>3. CASE Consume(c) /\ WriteControl(c, "abort")
        <3>1. "abort" \in WritingStates
            BY DEF WritingStates
        <3> QED BY <2>2, <2>3, <3>1, ControlSteady, ZenonT(30) DEF Procs
    <2>4. CASE Consume(c) /\ UNCHANGED <<pc, at>>
        <3>1. Steady(c)
            BY <2>4 DEF Steady, Shape, Waiting, Procs
        <3> QED BY <2>2, <2>4, <3>1, ZenonT(30)
    <2> QED BY <1>29, <2>1, <2>3, <2>4, EndNames, ZenonT(30) DEF FetchFrame
<1>30. ASSUME NEW c \in Calls, VoiceRecv(c) PROVE Safe'
    <2>1. Steady(c)
        BY <1>30, ZenonT(30) DEF VoiceRecv, Steady, Shape, Waiting, Procs
    <2>2. Receives
        BY <1>30, ConsumeReceives, ZenonT(30) DEF VoiceRecv
    <2>3. Quiet
        BY <1>30, <2>2, ZenonT(30) DEF VoiceRecv, Quiet, callVars, wireVars
    <2> QED BY <2>1, <2>3, QuietStep DEF Procs
<1>31. ASSUME NEW t \in Talk, VoiceSend(t) PROVE Safe'
    <2>1. "data" \in WritingStates
        BY ZenonT(30) DEF WritingStates
    <2>2. Steady(t)
        BY <1>31, <2>1, ControlSteady, ZenonT(30) DEF VoiceSend, Procs, Tasks
    <2> QED BY <1>31, <2>2, PlainStep, ZenonT(30) DEF VoiceSend, Procs, Tasks
<1>32. ASSUME NEW t \in Talk, VoiceSent(t) PROVE Safe'
    <2>1. "done" \notin Early \cup {"register", "write", "deliver"} /\ "none" \notin Waiting
        BY DEF Early, WritingStates, Waiting
    <2>2. Steady(t)
        BY <1>32, <2>1, GotoSteady, ZenonT(30) DEF VoiceSent, Procs, Tasks
    <2> QED BY <1>32, <2>2, PlainStep DEF VoiceSent, Procs, Tasks
<1>33. ASSUME NEW c \in Calls, VoiceClose(c) PROVE Safe'
    <2>1. "end" \in WritingStates
        BY DEF WritingStates
    <2>2. Steady(c)
        BY <1>33, <2>1, ControlSteady, ZenonT(30) DEF VoiceClose, Procs, Tasks
    <2> QED BY <1>33, <2>2, PlainStep DEF VoiceClose, Procs, Tasks
<1>34. ASSUME NEW c \in Calls, VoiceClosed(c) PROVE Safe'
    <2>1. "ended" \notin Early \cup {"register", "write", "deliver"} /\ "none" \notin Waiting
        BY DEF Early, Waiting
    <2>2. Steady(c)
        BY <1>34, <2>1, GotoSteady, ZenonT(30) DEF VoiceClosed, Procs
    <2> QED BY <1>34, <2>2, SameReceives, CallStep DEF VoiceClosed, OnlyCallAndMap, callVars
<1>35. ASSUME NEW c \in Calls, DropHandle(c) PROVE Safe'
    <2>1. CASE Leave(c, "done", "reply")
        BY <1>35, <2>1, LeaveStep, ZenonT(30) DEF DropHandle, OnlyCall
    <2>2. CASE WriteControl(c, "handleabort") /\ inbox' = [inbox EXCEPT ![c] = <<>>]
        <3>1. "handleabort" \in WritingStates
            BY DEF WritingStates
        <3>2. Steady(c)
            BY <2>2, <3>1, ControlSteady, ZenonT(30) DEF Procs
        <3>3. DOMAIN inbox'[c] = {} /\ \A d \in Calls : d # c => inbox'[d] = inbox[d]
            BY <2>2 DEF TypeOK, RespType
        <3>4. Receives
            BY <3>3 DEF Receives
        <3> QED BY <1>35, <3>2, <3>4, CallStep, ZenonT(30) DEF DropHandle, OnlyCall
    <2> QED BY <1>35, <2>1, <2>2, ZenonT(30) DEF DropHandle
<1>36. ASSUME NEW c \in Calls, DropCall(c) PROVE Safe'
    <2>1. Steady(c) /\ Receives
        <3>1. CASE Leave(c, "done", "dropped") \/ Leave(c, "task", "dropped")
            BY <3>1, LeaveSteady 
        <3>2. CASE Goto(c, "ended") /\ at' = [at EXCEPT ![c] = "none"] /\ UNCHANGED inbox
            <4>1. "ended" \notin Early \cup {"register", "write", "deliver"} /\ "none" \notin Waiting
                BY DEF Early, Waiting
            <4> QED BY <3>2, <4>1, GotoSteady, SameReceives, ZenonT(30) DEF Procs
        <3> QED BY <1>36, <3>1, <3>2, ZenonT(30) DEF DropCall
    <2>2. Quiet
        BY <1>36, <2>1, OrphanLength DEF DropCall, Quiet
    <2> QED BY <2>1, <2>2, QuietStep, ZenonT(30) DEF Procs
<1>37. ASSUME NEW t \in Talk, DropSend(t) PROVE Safe'
    <2>1. "done" \notin Early \cup {"register", "write", "deliver"} /\ "none" \notin Waiting
        BY DEF Early, Waiting
    <2>2. Steady(t)
        BY <1>37, <2>1, GotoSteady, ZenonT(30) DEF DropSend, Procs
    <2>3. Quiet
        BY <1>37, OrphanLength, SameReceives DEF DropSend, Quiet, callVars, respVars
    <2> QED BY <2>2, <2>3, QuietStep DEF Procs
<1>38. ASSUME TakeCommand PROVE Safe'
    BY <1>38, TakeCommandStep
<1>39. ASSUME WriteCommand PROVE Safe'
    BY <1>39, WriteCommandStep
<1>40. ASSUME WriteFails PROVE Safe'
    BY <1>40, WriteFailsStep
<1>41. ASSUME WriterReleased PROVE Safe'
    <2>1. "select" \notin WritingStates /\ "writer" \in Procs /\ "exited" # "write"
        BY DEF WritingStates, Procs, Tasks
    <2>2. Steady("writer") /\ Receives
        BY <1>41, <2>1, ExitSteady, ZenonT(30) DEF WriterReleased
    <2>3. Quiet
        BY <1>41, <2>1, <2>2 DEF WriterReleased, ExitWriter, Goto, Quiet, TypeOK, PlaceType
    <2> QED BY <2>1, <2>2, <2>3, QuietStep
<1>42. ASSUME NEW k \in {"part", "final"}, NEW i \in Opened, Dispatch(k, i) PROVE Safe'
    BY <1>42, DispatchStep, ZenonT(30)
<1>43. ASSUME Deliver PROVE Safe'
    BY <1>43, DeliverStep
<1>44. ASSUME ServerPing PROVE Safe'
    <2>1. "pong" \in WritingStates
        BY DEF WritingStates
    <2>2. Steady("reader")
        BY <1>44, <2>1, ControlSteady, ZenonT(30) DEF ServerPing, Procs, Tasks
    <2> QED BY <1>44, <2>2, PlainStep DEF ServerPing, Procs, Tasks
<1>45. ASSUME PongDone PROVE Safe'
    <2>1. "read" \notin Early \cup {"register", "write", "deliver"} /\ "fail" \notin Early \cup {"register", "write", "deliver"} /\ "none" \notin Waiting
        BY DEF Early, WritingStates, Waiting
    <2>2. Steady("reader")
        BY <1>45, <2>1, GotoSteady, ZenonT(30) DEF PongDone, Procs, Tasks
    <2> QED BY <1>45, <2>2, PlainStep DEF PongDone, Procs, Tasks
<1>46. ASSUME ReadFails PROVE Safe'
    <2>1. "fail" \notin Early \cup {"register", "write", "deliver"} /\ "read" \notin WritingStates
        BY ZenonT(30) DEF Early, WritingStates, Waiting
    <2>2. Steady("reader")
        BY <1>46, <2>1, GotoSteady DEF ReadFails, Procs, Tasks
    <2> QED BY <1>46, <2>2, PlainStep DEF ReadFails, Procs, Tasks
<1>47. ASSUME ReaderReleased PROVE Safe'
    <2>1. "exited" \notin Early \cup {"register", "write", "deliver"} /\ "read" \notin WritingStates
        BY ZenonT(30) DEF Early, WritingStates, Waiting
    <2>2. Steady("reader")
        BY <1>47, <2>1, GotoSteady DEF ReaderReleased, Procs, Tasks
    <2> QED BY <1>47, <2>2, PlainStep DEF ReaderReleased, Procs, Tasks
<1>48. ASSUME Tick PROVE Safe'
    <2>1. /\ "ping" \in WritingStates /\ "tick" \notin WritingStates
          /\ "exited" \notin Early \cup {"register", "write", "deliver"}
          /\ "keepalive" \in Procs
        BY ZenonT(30) DEF Early, WritingStates, Procs, Tasks
    <2>2. Steady("keepalive")
        BY <1>48, <2>1, ControlSteady, GotoSteady, ZenonT(30) DEF Tick
    <2> QED BY <1>48, <2>1, <2>2, PlainStep DEF Tick
<1>49. ASSUME PingDone PROVE Safe'
    <2>1. "tick" \notin Early \cup {"register", "write", "deliver"} /\ "fail" \notin Early \cup {"register", "write", "deliver"} /\ "none" \notin Waiting
        BY DEF Early, WritingStates, Waiting
    <2>2. Steady("keepalive")
        BY <1>49, <2>1, GotoSteady, ZenonT(30) DEF PingDone, Procs, Tasks
    <2> QED BY <1>49, <2>2, PlainStep DEF PingDone, Procs, Tasks
<1>50. ASSUME Close PROVE Safe'
    <2>1. /\ "done" \notin Early \cup {"register", "write", "deliver"} /\ "closing" \notin Early \cup {"register", "write", "deliver"} /\ "idle" \notin WritingStates
          /\ "closer" \in Procs /\ "none" \notin Waiting
        BY ZenonT(30) DEF Early, WritingStates, Waiting, Procs, Tasks
    <2>2. Steady("closer")
        BY <1>50, <2>1, GotoSteady, ZenonT(30) DEF Close
    <2>3. Quiet
        BY <1>50, SameReceives DEF Close, Quiet, callVars, respVars, wireVars
    <2> QED BY <2>1, <2>2, <2>3, QuietStep
<1>51. ASSUME EnqueueClose PROVE Safe'
    <2>1. /\ "closewait" \notin Early \cup {"register", "write", "deliver"}
          /\ "take" \notin Early \cup {"register", "write", "deliver"}
          /\ "closing" \notin WritingStates /\ "closer" \in Procs /\ "await" \notin Waiting
        BY ZenonT(30) DEF Early, WritingStates, Waiting, Procs, Tasks
    <2>2. Steady("closer")
        BY <1>51, <2>1, GotoSteady, ZenonT(30) DEF EnqueueClose
    <2>3. Quiet
        BY <1>51, SameReceives, ZenonT(30) DEF EnqueueClose, Quiet, callVars, respVars, wireVars
    <2> QED BY <2>1, <2>2, <2>3, QuietStep
<1>52. ASSUME CloseWritten PROVE Safe'
    <2>1. /\ "take" \notin Early \cup {"register", "write", "deliver"}
          /\ "closer" \in Procs
          /\ (at["closer"] \in Result => at["closer"] \notin Waiting)
        BY ZenonT(30) DEF Early, Waiting, Result, Procs, Tasks
    <2>2. Steady("closer")
        BY <1>52, <2>1 DEF CloseWritten, Goto, Steady, TypeOK, PlaceType
    <2> QED BY <1>52, <2>1, <2>2, PlainStep DEF CloseWritten
<1>53. ASSUME DropClose PROVE Safe'
    <2>1. /\ "done" \notin Early \cup {"register", "write", "deliver"}
          /\ "closer" \in Procs /\ "none" \notin Waiting
        BY DEF Early, WritingStates, Waiting, Procs, Tasks
    <2>2. Steady("closer")
        BY <1>53, <2>1, GotoSteady, ZenonT(30) DEF DropClose
    <2>3. Quiet
        BY <1>53, SameReceives, OrphanLength DEF DropClose, Quiet, callVars
    <2> QED BY <2>1, <2>2, <2>3, QuietStep
<1>54. ASSUME Release PROVE Safe'
    <2>1. "closer" \in Procs
        BY ZenonT(30) DEF Procs, Tasks
    <2>2. Steady("closer")
        BY <1>54, <2>1 DEF Release, Steady, Shape, Waiting
    <2>3. Quiet
        BY <1>54, SameReceives, ZenonT(30) DEF Release, Quiet, callVars, respVars, wireVars
    <2> QED BY <2>1, <2>2, <2>3, QuietStep
<1>55. CASE UNCHANGED vars
    <2>1. "closer" \in Procs
        BY DEF Procs, Tasks
    <2>2. Steady("closer")
        BY <1>55, <2>1, ZenonT(30) DEF vars, Steady, Shape, Waiting
    <2>3. Quiet
        BY <1>55, SameReceives DEF vars, Quiet, callVars, respVars, wireVars
    <2> QED BY <2>1, <2>2, <2>3, QuietStep
<1> QED
    BY <1>1, <1>2, <1>3, <1>4, <1>5, <1>6, <1>7, <1>8, <1>9, <1>10,
       <1>11, <1>12, <1>13, <1>14, <1>15, <1>16, <1>17, <1>18, <1>19, <1>20,
       <1>21, <1>22, <1>23, <1>24, <1>25, <1>26, <1>27, <1>28, <1>29, <1>30,
       <1>31, <1>32, <1>33, <1>34, <1>35, <1>36, <1>37, <1>38, <1>39, <1>40,
       <1>41, <1>42, <1>43, <1>44, <1>45, <1>46, <1>47, <1>48, <1>49, <1>50,
       <1>51, <1>52, <1>53, <1>54, <1>55, ZenonT(30)
    DEF Next, CallProgress, TalkProgress, WriterProgress, ReaderProgress,
        KeepaliveProgress, CloserProgress, Enqueue, Procs, Tasks

\* The invariant holds when start returns.
LEMMA InitInv ==
    ASSUME Init
    PROVE  IInv
<1> USE DEF Init
<1>0. nextId \in Nat \ {0}
    BY BoundsAssumption, ZenonT(30)
<1>1. PlaceType
    <2>1. /\ "read" \in States /\ "select" \in States /\ "tick" \in States
          /\ "idle" \in States
        BY DEF States, CallStates, TaskStates
    <2> QED BY <2>1, AtNames, ZenonT(30) DEF PlaceType
<1>2. CallType /\ FlagType /\ QueueType
    <2>1. "none" \in Outcomes
        BY DEF Outcomes
    <2>2. CallType
        BY <1>0, <2>1 DEF CallType
    <2>3. FlagType
        BY ZenonT(30) DEF FlagType
    <2>4. QueueType
        BY DEF QueueType
    <2> QED BY <2>2, <2>3, <2>4, ZenonT(30)
<1>3. RespType
    <2> DEFINE S == Seq(Response)
    <2>1. <<>> \in S
        OBVIOUS
    <2> HIDE DEF S
    <2>2. inbox \in [Calls -> S]
        BY <2>1, ZenonT(30)
    <2> QED BY <2>2 DEF RespType, S
<1>4. Shape
    <2>1. /\ "writer" \in Procs /\ "reader" \in Procs
          /\ "none" \notin {"budget", "queue"} /\ "select" # "write" /\ "read" # "deliver"
        BY ZenonT(30) DEF Procs, Tasks
    <2> QED BY <2>1, ZenonT(30) DEF Shape
<1>5. Ids
    <2>1. \A c \in Calls : pc[c] = "idle" /\ c \in Procs
        BY CallsAssumption, ZenonT(30) DEF Procs, Tasks
    <2> QED BY <1>0, <2>1 DEF Ids
<1>6. Routing
    BY DEF Routing
<1> QED BY <1>1, <1>2, <1>3, <1>4, <1>5, <1>6, ZenonT(30) DEF IInv, Safe, TypeOK

\* The invariant is inductive.
LEMMA Inductive ==
    ASSUME IInv, [Next]_vars
    PROVE  IInv'
BY TypeStep, SafeStep DEF IInv, Safe

\* The inductive invariant, types and routing together, holds in every state
\* a connection can reach from start, for any calls and queue sizes.
THEOREM Invariance == Spec => []IInv
BY InitInv, Inductive, PTL DEF Spec

\* Whatever the calls, the server and the socket do, every variable of the
\* connection keeps its type.
THEOREM TypeCorrect == Spec => []TypeOK
<1>1. IInv => TypeOK
    BY DEF IInv
<1> QED BY <1>1, Invariance, PTL

\* However requests, timeouts, cancels, drops, failures and late replies
\* interleave, for any number of calls and any queue and budget sizes, a
\* response reaches only the call whose request it answers (begin, dispatch).
THEOREM ResponsesReachTheirOwner == Spec => []RoutedToOwner
<1>1. IInv => RoutedToOwner
    BY ZenonT(30) DEF IInv, Safe, Ids, Routing, RoutedToOwner
<1> QED BY <1>1, Invariance, PTL
=============================================================================
