---------------------------- MODULE NativeTransfer ----------------------------
(***************************************************************************)
(* A media transfer of the Android bridge, android-jni: the Java thread    *)
(* blocks in nativeDownload, nativeUpload or nativeUploadBatch, and its    *)
(* observer is asked isCancelled and told onProgress.  A batch runs its    *)
(* items as tasks that share a semaphore and one byte counter; a download  *)
(* also polls isCancelled while it waits.  What goes over the connection   *)
(* is in MediaUpload and MediaDownload: here a chunk is a count.           *)
(***************************************************************************)
EXTENDS Naturals, FiniteSets

CONSTANTS
  Files,     \* everything that may be transferred
  Jobs       \* the calls: a mode, items, chunks of each, permits, and whether
             \* waits for the node come to an end

ASSUME TransferAssumption ==
  /\ IsFiniteSet(Files)
  /\ Jobs \subseteq [mode : {"download", "upload", "batch"}, items : SUBSET Files \ {{}},
                     size : Nat \ {0}, permits : Nat \ {0}, answers : BOOLEAN]
  /\ \A j \in Jobs : j.mode # "batch" => Cardinality(j.items) = 1

VARIABLES
  job,         \* the call's arguments and node; never changes
  pc,          \* where each item's transfer is
  conn,        \* its media connection
  moved,       \* chunks it has read or written
  aggregate,   \* the chunks of all items, behind its lock
  told,        \* the count an item is about to report
  result,      \* what an item's transfer ended with, before close
  reported,    \* the last count given to onProgress
  cancelled,   \* what isCancelled answers
  more,        \* chunks each item moved after the cancellation
  joined,      \* the tasks join_next has returned
  call         \* the Java call

vars == <<job, pc, conn, moved, aggregate, told, result, reported, cancelled, more, joined, call>>

Items == job.items
Mode == job.mode
size == job.size
Total == size * Cardinality(Items)
Ended == {"ok", "error", "aborted"}
Returned == {"ok", "error", "refused"}
Busy == {i \in Items : pc[i] \notin Ended \union {"waiting"}}

Init ==
  /\ job \in Jobs
  /\ pc = [i \in Items |-> "waiting"]
  /\ conn = [i \in Items |-> "none"]
  /\ moved = [i \in Items |-> 0]
  /\ aggregate = 0
  /\ told = [i \in Items |-> 0]
  /\ result = [i \in Items |-> "none"]
  /\ reported = 0 /\ cancelled = FALSE
  /\ more = [i \in Items |-> 0]
  /\ joined = {}
  /\ call = "new"

Cancel ==
  /\ ~cancelled /\ call \in {"new", "running"}
  /\ cancelled' = TRUE
  /\ UNCHANGED <<job, pc, conn, moved, aggregate, told, result, reported, more, joined, call>>

(***************************************************************************)
(* An item leaves its transfer with a result; an open connection is closed *)
(* before the result is returned.                                          *)
(***************************************************************************)
Leave(i, r) ==
  /\ result' = [result EXCEPT ![i] = r]
  /\ pc' = [pc EXCEPT ![i] = IF conn[i] = "open" THEN "closing" ELSE r]

(***************************************************************************)
(* JavaProgress::update: a cancelled observer is an error; otherwise the   *)
(* count is reported, or dropped when the last report is less than 125 ms  *)
(* old and the count is neither the first nor the last.                    *)
(***************************************************************************)
Reports(count) ==
  \/ reported' = count
  \/ count \notin {0} \union (Total .. Total + 1) /\ reported' = reported

Update(i, next) ==
  \/ /\ cancelled
     /\ Leave(i, "error")
     /\ UNCHANGED reported
  \/ /\ ~cancelled
     /\ Reports(told[i])
     /\ pc' = [pc EXCEPT ![i] = next]
     /\ UNCHANGED result

(***************************************************************************)
(* The call asks isCancelled once before it does anything: an upload by    *)
(* reporting 0, a download in poll_transfer_cancellation.                  *)
(***************************************************************************)
Start ==
  /\ call = "new"
  /\ call' = IF cancelled THEN "refused" ELSE "running"
  /\ UNCHANGED <<job, pc, conn, moved, aggregate, told, result, reported, cancelled, more, joined>>

MayBegin(i) ==
  /\ call \in {"running", "error"} /\ pc[i] = "waiting"
  /\ Mode = "batch" => Cardinality(Busy) < job.permits

Begin(i) ==
  /\ MayBegin(i)
  /\ pc' = [pc EXCEPT ![i] = "connecting"]
  /\ UNCHANGED <<job, conn, moved, aggregate, told, result, reported, cancelled, more, joined, call>>

(***************************************************************************)
(* connect_media: the socket is open before the ticket is accepted, and    *)
(* MediaConnectionGuard closes it if that fails or is abandoned.           *)
(***************************************************************************)
SocketOpens(i) ==
  /\ pc[i] = "connecting" /\ conn[i] = "none"
  /\ conn' = [conn EXCEPT ![i] = "guarded"]
  /\ UNCHANGED <<job, pc, moved, aggregate, told, result, reported, cancelled, more, joined, call>>

Authenticated(i) ==
  /\ pc[i] = "connecting" /\ conn[i] = "guarded"
  /\ conn' = [conn EXCEPT ![i] = "open"]
  /\ pc' = [pc EXCEPT ![i] = "peek"]
  /\ UNCHANGED <<job, moved, aggregate, told, result, reported, cancelled, more, joined, call>>

GuardDropped(i) == IF conn[i] = "guarded" THEN "dropping" ELSE conn[i]

ConnectFails(i) ==
  /\ pc[i] = "connecting"
  /\ conn' = [conn EXCEPT ![i] = GuardDropped(i)]
  /\ Leave(i, "error")
  /\ UNCHANGED <<job, moved, aggregate, told, reported, cancelled, more, joined, call>>

\* Mutant: the task that closes dies with the call.
GuardClosesInCall(i) ==
  /\ conn[i] = "dropping" /\ call = "running"
  /\ conn' = [conn EXCEPT ![i] = "closed"]
  /\ UNCHANGED <<job, pc, moved, aggregate, told, result, reported, cancelled, more, joined, call>>

\* The task the guard has spawned.
GuardCloses(i) ==
  /\ conn[i] = "dropping"
  /\ conn' = [conn EXCEPT ![i] = "closed"]
  /\ UNCHANGED <<job, pc, moved, aggregate, told, result, reported, cancelled, more, joined, call>>

(***************************************************************************)
(* ProgressReader, ProgressWriter and BatchProgressReader: report the      *)
(* count, move a chunk, report the new count.  The count of a batch is     *)
(* taken under its lock and reported after it is released.                 *)
(***************************************************************************)
Count(i) == IF Mode = "batch" THEN aggregate ELSE moved[i]

Peek(i) ==
  /\ pc[i] = "peek"
  /\ told' = [told EXCEPT ![i] = Count(i)]
  /\ pc' = [pc EXCEPT ![i] = "tell"]
  /\ UNCHANGED <<job, conn, moved, aggregate, result, reported, cancelled, more, joined, call>>

Tell(i) ==
  /\ pc[i] = "tell"
  /\ Update(i, "move")
  /\ UNCHANGED <<job, conn, moved, aggregate, told, cancelled, more, joined, call>>

\* Mutant: every item reports the count it saw before the chunk.
MoveUncounted(i) ==
  /\ pc[i] = "move"
  /\ moved' = [moved EXCEPT ![i] = @ + 1]
  /\ more' = [more EXCEPT ![i] = IF cancelled THEN @ + 1 ELSE @]
  /\ pc' = [pc EXCEPT ![i] = "told"]
  /\ told' = [told EXCEPT ![i] = 0]
  /\ UNCHANGED <<job, conn, aggregate, result, reported, cancelled, joined, call>>

Move(i) ==
  /\ pc[i] = "move"
  /\ moved' = [moved EXCEPT ![i] = @ + 1]
  /\ aggregate' = aggregate + 1
  /\ more' = [more EXCEPT ![i] = IF cancelled THEN @ + 1 ELSE @]
  /\ told' = [told EXCEPT ![i] = Count(i) + 1]
  /\ pc' = [pc EXCEPT ![i] = "told"]
  /\ UNCHANGED <<job, conn, result, reported, cancelled, joined, call>>

TellNew(i) ==
  /\ pc[i] = "told"
  /\ Update(i, IF moved[i] = size THEN "finish" ELSE "peek")
  /\ UNCHANGED <<job, conn, moved, aggregate, told, cancelled, more, joined, call>>

(***************************************************************************)
(* The node's result, a failure or a timeout of any wait, and the close    *)
(* that follows either.                                                    *)
(***************************************************************************)
Finish(i) ==
  /\ pc[i] = "finish"
  /\ Leave(i, "ok")
  /\ UNCHANGED <<job, conn, moved, aggregate, told, reported, cancelled, more, joined, call>>

TransferFails(i) ==
  /\ pc[i] \in {"peek", "move", "finish"}
  /\ Leave(i, "error")
  /\ UNCHANGED <<job, conn, moved, aggregate, told, reported, cancelled, more, joined, call>>

Close(i) ==
  /\ pc[i] = "closing"
  /\ conn' = [conn EXCEPT ![i] = "closed"]
  /\ pc' = [pc EXCEPT ![i] = result[i]]
  /\ UNCHANGED <<job, moved, aggregate, told, result, reported, cancelled, more, joined, call>>

(***************************************************************************)
(* poll_transfer_cancellation: every 125 ms a download that waits asks     *)
(* isCancelled, and drops what it waits for.                               *)
(***************************************************************************)
PollCancelled(i) ==
  /\ Mode = "download" /\ cancelled
  /\ pc[i] \in {"connecting", "peek", "move", "finish"}
  /\ conn' = [conn EXCEPT ![i] = GuardDropped(i)]
  /\ Leave(i, "error")
  /\ UNCHANGED <<job, moved, aggregate, told, reported, cancelled, more, joined, call>>

(***************************************************************************)
(* The batch: join_next takes the tasks as they end, the first error       *)
(* aborts the others and is returned.  An aborted task stops where it next *)
(* waits, and drops its client.                                            *)
(***************************************************************************)
\* Mutant: the error of one item does not end the batch.
JoinAny(i) ==
  /\ Mode = "batch" /\ call = "running"
  /\ i \notin joined /\ pc[i] \in {"ok", "error"}
  /\ joined' = joined \union {i}
  /\ UNCHANGED <<job, pc, conn, moved, aggregate, told, result, reported, cancelled, more, call>>

Join(i) ==
  /\ Mode = "batch" /\ call = "running"
  /\ i \notin joined /\ pc[i] \in {"ok", "error"}
  /\ joined' = joined \union {i}
  /\ call' = IF pc[i] = "ok" THEN call ELSE "error"
  /\ UNCHANGED <<job, pc, conn, moved, aggregate, told, result, reported, cancelled, more>>

Aborted(i) ==
  /\ Mode = "batch" /\ call = "error"
  /\ pc[i] \notin Ended \union {"tell", "told"}
  /\ pc' = [pc EXCEPT ![i] = "aborted"]
  /\ conn' = [conn EXCEPT ![i] = IF @ = "open" THEN "dropped" ELSE GuardDropped(i)]
  /\ UNCHANGED <<job, moved, aggregate, told, result, reported, cancelled, more, joined, call>>

(***************************************************************************)
(* The call returns.  A batch reports its total first, and a cancellation  *)
(* at that point is still an error.                                        *)
(***************************************************************************)
ReturnBatch ==
  /\ Mode = "batch" /\ call = "running"
  /\ joined = Items
  /\ call' = IF cancelled THEN "error" ELSE "ok"
  /\ reported' = IF cancelled THEN reported ELSE Total
  /\ UNCHANGED <<job, pc, conn, moved, aggregate, told, result, cancelled, more, joined>>

ReturnOne ==
  /\ Mode # "batch" /\ call = "running"
  /\ \E i \in Items : pc[i] \in Ended /\ call' = pc[i]
  /\ UNCHANGED <<job, pc, conn, moved, aggregate, told, result, reported, cancelled, more, joined>>

\* Steps that wait for nobody, and steps that wait for the node or a file.
Local(i) ==
  \/ Begin(i) \/ Tell(i) \/ TellNew(i) \/ Close(i) \/ GuardCloses(i)
  \/ PollCancelled(i) \/ Join(i) \/ Aborted(i)

Waits(i) ==
  \/ SocketOpens(i) \/ Authenticated(i) \/ ConnectFails(i)
  \/ Peek(i) \/ Move(i) \/ Finish(i) \/ TransferFails(i)

Next ==
  \/ Cancel \/ Start \/ ReturnBatch \/ ReturnOne
  \/ \E i \in Items : Local(i) \/ Waits(i)

Spec == Init /\ [][Next]_vars

(***************************************************************************)
(* Fairness.  The runtime runs what can run and the timer fires; waits for *)
(* the node are over within the read and write timeouts, where the job     *)
(* says so.                                                                *)
(***************************************************************************)
FairSpec ==
  /\ Spec
  /\ WF_vars(Start) /\ WF_vars(ReturnBatch) /\ WF_vars(ReturnOne)
  /\ \A i \in Files : /\ WF_vars(i \in Items /\ Local(i))
                      /\ WF_vars(job.answers /\ i \in Items /\ Waits(i))

-------------------------------------------------------------------------------
(***************************************************************************)
(* Types.                                                                  *)
(***************************************************************************)
TypeOK ==
  /\ pc \in [Items -> Ended \union {"waiting", "connecting", "peek", "tell", "move", "told",
                                     "finish", "closing"}]
  /\ conn \in [Items -> {"none", "guarded", "open", "dropping", "closed", "dropped"}]
  /\ moved \in [Items -> 0 .. size]
  /\ aggregate \in 0 .. Total /\ reported \in 0 .. Total
  /\ told \in [Items -> 0 .. Total]
  /\ result \in [Items -> {"none", "ok", "error"}]
  /\ cancelled \in BOOLEAN
  /\ more \in [Items -> Nat]
  /\ joined \subseteq Items
  /\ call \in {"new", "running"} \union Returned

(***************************************************************************)
(* A call that returns success has moved every item to its end, closed     *)
(* every connection, and last reported all of it.                          *)
(***************************************************************************)
OkMeansAll ==
  call = "ok" =>
    /\ \A i \in Items : pc[i] = "ok" /\ moved[i] = size /\ conn[i] = "closed"
    /\ reported = Total

(***************************************************************************)
(* Once isCancelled answers true, an item moves at most the chunk that was *)
(* already on its way.                                                     *)
(***************************************************************************)
OneMoreAtMost == \A i \in Items : more[i] <= 1

(***************************************************************************)
(* A batch has at most as many media connections in use as it has permits, *)
(* while tasks end and others begin, or are aborted.                       *)
(***************************************************************************)
PermitsKept ==
  Mode = "batch" => Cardinality({i \in Items : conn[i] \in {"guarded", "open"}}) <= job.permits

(***************************************************************************)
(* A single transfer's reports only go up, and end with the call.          *)
(***************************************************************************)
ProgressForward ==
  [][Mode # "batch" => reported' >= reported /\ (call \in Returned => reported' = reported)]_vars

(***************************************************************************)
(* Every call ends, whichever item fails first, if waits for the node do.  *)
(***************************************************************************)
CallEnds == job.answers ~> call \in Returned

(***************************************************************************)
(* Every socket that was opened is given up in the end, by close, by the   *)
(* guard of connect_media or with the aborted task.                        *)
(***************************************************************************)
SocketsEnd ==
  <>[](job.answers => \A i \in Items : conn[i] \in {"none", "closed", "dropped"})

(***************************************************************************)
(* A cancelled download returns, even if the node never answers again.     *)
(***************************************************************************)
CancelEnds == Mode = "download" /\ cancelled ~> call \in Returned

(***************************************************************************)
(* The variables keep their types, success means that everything was moved *)
(* and closed, and a batch never has more sockets than permits.            *)
(***************************************************************************)
OkWithinPermits == TypeOK /\ OkMeansAll /\ PermitsKept

(***************************************************************************)
(* The observer is heard and told the truth: after it cancels each item    *)
(* moves at most one more chunk, and the progress of a single transfer     *)
(* only grows.                                                             *)
(***************************************************************************)
ObserverServed == []OneMoreAtMost /\ ProgressForward

(***************************************************************************)
(* Calls end, cancelled downloads end even if the node is silent, and no   *)
(* socket is left open.                                                    *)
(***************************************************************************)
EverythingEnds == CallEnds /\ SocketsEnd /\ CancelEnds
===============================================================================
