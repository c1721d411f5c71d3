--------------------------- MODULE M5ohBridgeProofs ---------------------------
(***************************************************************************)
(* Proofs about the loopback bridge: whatever the chunk size, however much *)
(* both ends write, and however many HTTP connections break, the two byte  *)
(* streams pass through the bridge as they were written.                   *)
(***************************************************************************)
EXTENDS M5ohBridge, TLAPS

Chunks == [from : Nat, len : Nat, eof : BOOLEAN]
Requests == [channel : Channels, seq : Nat, alive : BOOLEAN, body : Chunks]
Answers == [channel : Channels, ok : BOOLEAN, body : Chunks]

Types ==
  /\ TypeOK
  /\ written \in Nat /\ out \in Nat /\ outEof \in BOOLEAN
  /\ chunk \in Chunks /\ last \in Chunks
  /\ flight \subseteq Requests /\ replies \subseteq Answers
  /\ upNext \in Nat /\ downNext \in Nat
  /\ got \in Seq(Nat) /\ delivered \in Seq(Nat)

(***************************************************************************)
(* The router is never more than the current request ahead of a loop.      *)
(***************************************************************************)
Applied(c) == IF c = "up" THEN upNext ELSE downNext

InTurn ==
  \A c \in Channels :
    /\ Applied(c) \in {seq[c], seq[c] + 1}
    /\ pc[c] \in {"off", "reading"} => Applied(c) = seq[c]
    /\ bridge = "creating" => pc[c] = "off"

(***************************************************************************)
(* A request on its way has the current number or an older one; only the   *)
(* current one, while its loop waits, has a connection to be answered on.  *)
(***************************************************************************)
OnTheWay ==
  \A q \in flight :
    /\ q.seq <= seq[q.channel]
    /\ q.alive => q.seq = seq[q.channel] /\ pc[q.channel] \in {"waiting", "ended"}
    /\ pc[q.channel] \in {"off", "reading"} => q.seq < seq[q.channel]
    /\ q.channel = "up" /\ q.seq = seq["up"] => q.body = chunk
    /\ q.channel = "down" => q.body = NoChunk

(***************************************************************************)
(* There is at most one answer for a loop, to its current request, which   *)
(* the router has applied if the answer says so.                           *)
(***************************************************************************)
OneAnswer ==
  /\ \A a \in replies :
       /\ pc[a.channel] \in {"waiting", "ended"}
       /\ a.ok => Applied(a.channel) = seq[a.channel] + 1
       /\ a.ok /\ a.channel = "down" => a.body = last
       /\ \A q \in flight : q.channel = a.channel => ~q.alive
       /\ \A b \in replies : b.channel = a.channel => b = a

(***************************************************************************)
(* Where the upward stream is: what the remote end has and the chunk that  *)
(* may still reach it join without a gap.                                  *)
(***************************************************************************)
UpKept ==
  /\ UpPrefix
  /\ gotEof => localEof /\ Len(got) = written
  /\ chunk.eof => localEof /\ chunk.from + chunk.len = written
  /\ chunk.from + chunk.len = read
  /\ pc["up"] \in {"off", "reading"} => Len(got) = read
  /\ pc["up"] \in {"ready", "waiting"} =>
       Len(got) = IF upNext = seq["up"] THEN chunk.from ELSE read
  /\ \A q \in flight : q.channel = "up" /\ q.seq = upNext => Len(got) = chunk.from

(***************************************************************************)
(* Where the downward stream is: what the local client has and the answer  *)
(* the router keeps join without a gap.                                    *)
(***************************************************************************)
DownKept ==
  /\ DownPrefix
  /\ shut => outEof /\ Len(delivered) = out
  /\ downNext = seq["down"] => Len(delivered) = taken
  /\ downNext = seq["down"] + 1 =>
       /\ Len(delivered) = last.from /\ last.from + last.len = taken
       /\ last.eof => outEof /\ taken = out

IInv == Types /\ InTurn /\ OnTheWay /\ OneAnswer /\ UpKept /\ DownKept

-------------------------------------------------------------------------------
(***************************************************************************)
(* The numbers of requests: none is below itself, and one that is not      *)
(* above a request is below the next.                                      *)
(***************************************************************************)
LEMMA NotBefore == \A n \in Nat : ~(n < n)
  OBVIOUS

LEMMA BeforeNext ==
  ASSUME NEW m \in Nat, NEW n \in Nat, m <= n, NEW next, next = n + 1
  PROVE  m < next
  OBVIOUS

(***************************************************************************)
(* The byte streams: a stream and the bytes that follow it make a longer   *)
(* one.                                                                    *)
(***************************************************************************)
LEMMA BytesSeq ==
  ASSUME NEW from \in Nat, NEW len \in Nat
  PROVE  Bytes(from, len) \in Seq(Nat) /\ Len(Bytes(from, len)) = len
  BY DEF Bytes

LEMMA Concatenation ==
  ASSUME NEW s \in Seq(Nat), NEW b \in Seq(Nat)
  PROVE  /\ s \o b \in Seq(Nat)
         /\ Len(s \o b) = Len(s) + Len(b)
         /\ \A k \in 1 .. Len(s) + Len(b) :
              (s \o b)[k] = IF k <= Len(s) THEN s[k] ELSE b[k - Len(s)]
  OBVIOUS

LEMMA SameBytes ==
  ASSUME NEW s \in Seq(Nat), NEW t \in Seq(Nat),
         Len(s) = Len(t), \A k \in 1 .. Len(s) : s[k] = t[k]
  PROVE  s = t
<1>1. s = [k \in 1 .. Len(s) |-> s[k]]
  OBVIOUS
<1>2. t = [k \in 1 .. Len(t) |-> t[k]]
  OBVIOUS
<1> QED BY <1>1, <1>2, ZenonT(30)

LEMMA UptoCounts ==
  ASSUME NEW n \in Nat
  PROVE  Upto(n) = [k \in 1 .. n |-> k]
<1>1. \A k \in 1 .. n : 0 + k = k
  OBVIOUS
<1>2. [k \in 1 .. n |-> 0 + k] = [k \in 1 .. n |-> k]
  BY <1>1, ZenonT(30)
<1> QED
  BY <1>2 DEF Upto, Bytes

LEMMA StreamGrows ==
  ASSUME NEW s \in Seq(Nat), s = Upto(Len(s)), NEW len \in Nat
  PROVE  LET t == s \o Bytes(Len(s), len)
         IN  /\ t \in Seq(Nat)
             /\ Len(t) = Len(s) + len
             /\ t = Upto(Len(t))
<1>1. PICK b : b = Bytes(Len(s), len)
  OBVIOUS
<1>2. b \in Seq(Nat) /\ Len(b) = len /\ \A k \in 1 .. len : b[k] = Len(s) + k
  BY <1>1, BytesSeq DEF Bytes
<1>3. /\ s \o b \in Seq(Nat) /\ Len(s \o b) = Len(s) + Len(b)
      /\ \A k \in 1 .. Len(s) + Len(b) :
           (s \o b)[k] = IF k <= Len(s) THEN s[k] ELSE b[k - Len(s)]
  BY <1>2, Concatenation, ZenonT(30)
<1>4. Len(s) \in Nat /\ Len(s) + len \in Nat
  OBVIOUS
<1>5. s = [k \in 1 .. Len(s) |-> k]
  BY <1>4, UptoCounts, ZenonT(30)
<1>6. \A k \in 1 .. Len(s) : s[k] = k
  BY <1>5, ZenonT(30)
<1>7. PICK t : t = Upto(Len(s) + len)
  OBVIOUS
<1>8. t \in Seq(Nat) /\ Len(t) = Len(s) + len /\ \A k \in 1 .. Len(s) + len : t[k] = k
  BY <1>4, <1>7, BytesSeq DEF Upto, Bytes
<1>9. \A k \in 1 .. Len(s) + len : (s \o b)[k] = t[k]
  <2> SUFFICES ASSUME NEW k \in 1 .. Len(s) + len
               PROVE  (s \o b)[k] = t[k]
    BY ZenonT(30)
  <2>1. t[k] = k /\ (s \o b)[k] = IF k <= Len(s) THEN s[k] ELSE b[k - Len(s)]
    BY <1>2, <1>3, <1>8, ZenonT(30)
  <2>2. CASE k <= Len(s)
    <3>1. k \in 1 .. Len(s)
      BY <1>4, <2>2
    <3> QED
      BY <1>6, <2>1, <2>2, <3>1, ZenonT(30)
  <2>3. CASE ~(k <= Len(s))
    <3>1. k - Len(s) \in 1 .. len /\ Len(s) + (k - Len(s)) = k
      BY <1>4, <2>3
    <3> QED
      BY <1>2, <2>1, <2>3, <3>1, ZenonT(30)
  <2> QED
    BY <2>2, <2>3, ZenonT(30)
<1>10. s \o b = t
  BY <1>2, <1>3, <1>8, <1>9, SameBytes, ZenonT(30)
<1> QED
  BY <1>1, <1>2, <1>3, <1>7, <1>10, ZenonT(30)

-------------------------------------------------------------------------------
(***************************************************************************)
(* The invariant holds initially and is kept by every step.                *)
(***************************************************************************)
LEMMA InitInv == Init => IInv
<1> SUFFICES ASSUME Init PROVE IInv
  OBVIOUS
<1> USE BridgeAssumption DEF Init
<1>1. seq \in [Channels -> Nat] /\ seq["up"] = 1 /\ seq["down"] = 0
  BY DEF Channels
<1>2. Types
  <2>1. TypeOK
    BY <1>1 DEF TypeOK, Channels, NoChunk
  <2> QED
    BY <2>1 DEF Types, Chunks, Requests, Answers, NoChunk
<1>3. InTurn
  BY <1>1 DEF InTurn, Applied, Channels
<1>4. OnTheWay /\ OneAnswer
  BY DEF OnTheWay, OneAnswer
<1>5. <<>> = Upto(0)
  BY UptoCounts DEF Upto, Bytes
<1>6. UpKept
  BY <1>5 DEF UpKept, UpPrefix, NoChunk
<1>7. DownKept
  BY <1>1, <1>5 DEF DownKept, DownPrefix, NoChunk
<1> QED
  BY <1>2, <1>3, <1>4, <1>6, <1>7 DEF IInv

LEMMA CreateStep == ASSUME IInv, NEW works \in BOOLEAN, Create(works) PROVE IInv'
<1> USE DEF Create, ends, net, router
<1>1. /\ pc' \in [Channels -> {"off", "reading", "ready", "waiting", "ended"}]
      /\ pc'["up"] \in {"reading", "ended"} /\ pc'["down"] \in {"ready", "ended"}
  BY DEF Channels
<1>2. Types'
  BY <1>1 DEF IInv, Types, TypeOK
<1>3. pc["up"] = "off" /\ pc["down"] = "off"
  BY DEF IInv, InTurn, Channels
<1>4. InTurn'
  BY <1>1, <1>3 DEF IInv, InTurn, Applied, Channels
<1>5. \A q \in flight : q.channel \in Channels
  BY DEF IInv, Types, Requests
<1>6. \A q \in flight : ~q.alive /\ q.seq < seq[q.channel]
  BY <1>3, <1>5 DEF IInv, OnTheWay, Channels
<1>7. OnTheWay'
  BY <1>1, <1>6 DEF IInv, OnTheWay
<1>8. OneAnswer'
  BY <1>3 DEF IInv, Types, Answers, OneAnswer, Channels
<1>9. UpKept' /\ DownKept'
  BY <1>1, <1>3 DEF IInv, UpKept, UpPrefix, DownKept, DownPrefix
<1> QED
  BY <1>2, <1>4, <1>7, <1>8, <1>9 DEF IInv

LEMMA ReadStep == ASSUME IInv, Read PROVE IInv'
<1> USE DEF Read, ends, net, router
<1>1. PICK len \in 0 .. UPLOAD_CHUNK, eof \in BOOLEAN :
        /\ len <= written - read
        /\ eof => localEof /\ read + len = written
        /\ chunk' = [from |-> read, len |-> len, eof |-> eof]
        /\ read' = read + len
  OBVIOUS
<1>2. /\ pc \in [Channels -> {"off", "reading", "ready", "waiting", "ended"}]
      /\ pc["up"] = "reading" /\ pc'["up"] = "ready" /\ pc'["down"] = pc["down"]
      /\ pc' \in [Channels -> {"off", "reading", "ready", "waiting", "ended"}]
  BY DEF IInv, Types, TypeOK, Channels
<1>3. Types'
  BY <1>1, <1>2, BridgeAssumption DEF IInv, Types, TypeOK, Chunks
<1>4. InTurn'
  BY <1>2 DEF IInv, InTurn, Applied, Channels
<1>5. \A q \in flight : q.channel \in Channels /\ q.seq \in Nat
  BY DEF IInv, Types, Requests
<1>6. \A q \in flight : q.channel = "up" => q.seq < seq["up"] /\ ~q.alive
  BY <1>2, <1>5 DEF IInv, OnTheWay
<1>7. OnTheWay'
  BY <1>2, <1>5, <1>6 DEF IInv, Types, TypeOK, OnTheWay, Channels
<1>8. OneAnswer'
  BY <1>2 DEF IInv, Types, Answers, OneAnswer, Channels, Applied
<1>9. UpKept'
  BY <1>1, <1>2, <1>6 DEF IInv, Types, TypeOK, InTurn, Applied, UpKept, UpPrefix, Channels
<1>10. DownKept'
  BY DEF IInv, DownKept, DownPrefix
<1> QED
  BY <1>3, <1>4, <1>7, <1>8, <1>9, <1>10 DEF IInv

LEMMA SendStep == ASSUME IInv, NEW c \in Channels, SendRequest(c) PROVE IInv'
<1> USE DEF SendRequest, ends, router
<1>1. PICK body : body = IF c = "up" THEN chunk ELSE NoChunk
  OBVIOUS
<1>2. PICK new : new = [channel |-> c, seq |-> seq[c], alive |-> TRUE, body |-> body]
  BY ZenonT(30)
<1>3. flight' = flight \union {new}
  BY <1>1, <1>2
<1>4. /\ pc \in [Channels -> {"off", "reading", "ready", "waiting", "ended"}]
      /\ pc[c] = "ready" /\ pc'[c] = "waiting" /\ \A d \in Channels \ {c} : pc'[d] = pc[d]
      /\ pc' \in [Channels -> {"off", "reading", "ready", "waiting", "ended"}]
      /\ seq \in [Channels -> Nat]
  BY DEF IInv, Types, TypeOK
<1>5. body \in Chunks
  BY <1>1 DEF IInv, Types, Chunks, NoChunk
<1>6. new \in Requests
  BY <1>2, <1>4, <1>5 DEF Requests
<1>7. Types'
  BY <1>3, <1>4, <1>6 DEF IInv, Types, TypeOK
<1>8. InTurn'
  BY <1>4 DEF IInv, InTurn, Applied
<1>9. \A q \in flight : q.channel \in Channels
  BY DEF IInv, Types, Requests
<1>10. OnTheWay'
  <2> SUFFICES ASSUME NEW q \in flight'
               PROVE  /\ q.seq <= seq[q.channel]
                      /\ q.alive => q.seq = seq[q.channel] /\ pc'[q.channel] \in {"waiting", "ended"}
                      /\ pc'[q.channel] \in {"off", "reading"} => q.seq < seq[q.channel]
                      /\ q.channel = "up" /\ q.seq = seq["up"] => q.body = chunk
                      /\ q.channel = "down" => q.body = NoChunk
    BY DEF OnTheWay
  <2>1. CASE q \in flight
    BY <1>4, <1>9, <2>1 DEF IInv, OnTheWay
  <2>2. CASE q = new
    BY <1>1, <1>2, <1>4, <2>2 DEF Channels
  <2> QED
    BY <1>3, <2>1, <2>2
<1>11. \A a \in replies : a.channel \in Channels /\ a.channel # c
  BY <1>4, ZenonT(30) DEF IInv, Types, Answers, OneAnswer
<1>12. OneAnswer'
  BY <1>2, <1>3, <1>4, <1>11 DEF IInv, OneAnswer, Applied
<1>13. UpKept'
  <2>1. c = "up" => pc["up"] = "ready" /\ pc'["up"] = "waiting"
    BY <1>4
  <2>2. c # "up" => pc'["up"] = pc["up"]
    BY <1>4 DEF Channels
  <2>3. new.channel = "up" /\ new.seq = upNext => Len(got) = chunk.from
    BY <1>2, <2>1 DEF IInv, UpKept
  <2> QED
    BY <1>3, <2>1, <2>2, <2>3 DEF IInv, UpKept, UpPrefix
<1>14. DownKept'
  BY DEF IInv, DownKept, DownPrefix
<1> QED
  BY <1>7, <1>8, <1>10, <1>12, <1>13, <1>14 DEF IInv

LEMMA JoinStep == ASSUME IInv, Join PROVE IInv'
<1> USE DEF Join, ends, net, router
<1>1. Types'
  BY DEF IInv, Types, TypeOK
<1>2. \A d \in Channels : pc'[d] = "ended"
  OBVIOUS
<1>3. InTurn'
  BY <1>2 DEF IInv, InTurn, Applied
<1>4. \A q \in flight : q.channel \in Channels
  BY DEF IInv, Types, Requests
<1>5. \A a \in replies : a.channel \in Channels
  BY DEF IInv, Types, Answers
<1>6. OnTheWay'
  BY <1>2, <1>4 DEF IInv, OnTheWay
<1>7. OneAnswer'
  BY <1>2, <1>5 DEF IInv, OneAnswer, Applied
<1>8. UpKept' /\ DownKept'
  BY <1>2 DEF IInv, UpKept, UpPrefix, DownKept, DownPrefix, Channels
<1> QED
  BY <1>1, <1>3, <1>6, <1>7, <1>8 DEF IInv

(***************************************************************************)
(* The router answers a request that still has its connection: there was   *)
(* no other answer for its loop, and no other request of it that could get *)
(* one.                                                                    *)
(***************************************************************************)
LEMMA Answering ==
  ASSUME IInv, NEW q \in flight, NEW ok \in BOOLEAN, NEW body \in Chunks,
         flight' = flight \ {q}, Answer(q, ok, body),
         UNCHANGED <<pc, seq>>,
         \A c \in Channels : Applied(c) = seq[c] + 1 => Applied(c)' = Applied(c),
         downNext = seq["down"] + 1 => last' = last,
         q.alive /\ ok => Applied(q.channel)' = seq[q.channel] + 1,
         q.alive /\ ok /\ q.channel = "down" => body = last'
  PROVE  replies' \subseteq Answers /\ flight' \subseteq Requests /\ OneAnswer'
<1>1. PICK new : new = [channel |-> q.channel, ok |-> ok, body |-> body]
  BY ZenonT(30)
<1>2. q \in Requests /\ flight \subseteq Requests /\ replies \subseteq Answers
  BY DEF IInv, Types
<1>3. new \in Answers /\ q.channel \in Channels
  BY <1>1, <1>2 DEF Answers, Requests
<1>4. replies' = replies \union IF q.alive THEN {new} ELSE {}
  BY <1>1 DEF Answer
<1>5. \A a \in replies : a.channel \in Channels
  BY <1>2 DEF Answers
<1>6. \A a \in replies :
        /\ pc'[a.channel] \in {"waiting", "ended"}
        /\ a.ok => Applied(a.channel)' = seq'[a.channel] + 1
        /\ a.ok /\ a.channel = "down" => a.body = last'
        /\ \A p \in flight' : p.channel = a.channel => ~p.alive
  <2> SUFFICES ASSUME NEW a \in replies
               PROVE  /\ pc[a.channel] \in {"waiting", "ended"}
                      /\ a.ok => Applied(a.channel)' = seq[a.channel] + 1
                      /\ a.ok /\ a.channel = "down" => a.body = last'
                      /\ \A p \in flight' : p.channel = a.channel => ~p.alive
    OBVIOUS
  <2>1. /\ pc[a.channel] \in {"waiting", "ended"}
        /\ \A p \in flight' : p.channel = a.channel => ~p.alive
    BY DEF IInv, OneAnswer
  <2>2. a.ok => Applied(a.channel) = seq[a.channel] + 1
    BY DEF IInv, OneAnswer
  <2>3. a.ok => Applied(a.channel)' = seq[a.channel] + 1
    BY <1>5, <2>2
  <2>4. a.ok /\ a.channel = "down" => downNext = seq["down"] + 1
    BY <2>2 DEF Applied
  <2>5. a.ok /\ a.channel = "down" => a.body = last'
    BY <2>4 DEF IInv, OneAnswer
  <2> QED
    BY <2>1, <2>3, <2>5
<1>7. \A a, b \in replies : a.channel = b.channel => b = a
  BY DEF IInv, OneAnswer
<1>8. CASE ~q.alive
  BY <1>2, <1>4, <1>6, <1>7, <1>8 DEF OneAnswer
<1>9. CASE q.alive
  <2>1. \A a \in replies : a.channel # q.channel
    BY <1>9 DEF IInv, OneAnswer
  <2>2. q.seq = seq[q.channel] /\ pc[q.channel] \in {"waiting", "ended"}
    BY <1>9 DEF IInv, OnTheWay
  <2>3. \A p \in flight : p.channel = q.channel /\ p.alive => p = q
    <3> SUFFICES ASSUME NEW p \in flight, p.channel = q.channel, p.alive PROVE p = q
      OBVIOUS
    <3>1. p \in Requests /\ p.alive = TRUE /\ q.alive = TRUE
      BY <1>2, <1>9 DEF Requests
    <3>2. p.seq = seq[p.channel]
      BY DEF IInv, OnTheWay
    <3>3. p.body = q.body
      BY <1>3, <2>2, <3>2 DEF IInv, OnTheWay, Channels
    <3> QED
      BY <1>2, <2>2, <3>1, <3>2, <3>3 DEF Requests
  <2>4. \A p \in flight' : p.channel = q.channel => ~p.alive
    BY <2>3
  <2>5. replies' = replies \union {new}
    BY <1>4, <1>9
  <2>6. /\ new.channel = q.channel /\ new.ok = ok /\ new.body = body
    BY <1>1
  <2>7. /\ pc'[new.channel] \in {"waiting", "ended"}
        /\ new.ok => Applied(new.channel)' = seq'[new.channel] + 1
        /\ new.ok /\ new.channel = "down" => new.body = last'
        /\ \A p \in flight' : p.channel = new.channel => ~p.alive
    BY <1>9, <2>2, <2>4, <2>6
  <2>8. \A a, b \in replies' : a.channel = b.channel => b = a
    BY <1>7, <2>1, <2>5, <2>6
  <2>9. OneAnswer'
    BY <1>6, <2>5, <2>7, <2>8 DEF OneAnswer
  <2> QED
    BY <1>2, <1>3, <2>5, <2>9
<1> QED
  BY <1>8, <1>9

LEMMA FewerOnTheWay ==
  ASSUME IInv, flight' \subseteq flight, UNCHANGED <<pc, seq, chunk>>
  PROVE  OnTheWay'
  BY DEF IInv, OnTheWay

LEMMA RefusesStep == ASSUME IInv, Refuses PROVE IInv'
<1> USE DEF Refuses, ends, router
<1>1. PICK q \in flight : flight' = flight \ {q} /\ Answer(q, FALSE, NoChunk)
  BY ZenonT(30)
<1>2. NoChunk \in Chunks
  BY DEF NoChunk, Chunks
<1>3. \A c \in Channels : Applied(c)' = Applied(c)
  BY DEF Applied
<1>4. replies' \subseteq Answers /\ flight' \subseteq Requests /\ OneAnswer'
  BY <1>1, <1>2, <1>3, Answering, ZenonT(30)
<1>5. Types'
  BY <1>4 DEF IInv, Types, TypeOK
<1>6. InTurn' /\ OnTheWay'
  BY <1>1, FewerOnTheWay DEF IInv, InTurn, Applied
<1>7. UpKept' /\ DownKept'
  BY <1>1 DEF IInv, UpKept, UpPrefix, DownKept, DownPrefix
<1> QED
  BY <1>4, <1>5, <1>6, <1>7 DEF IInv

LEMMA RouterUpStep == ASSUME IInv, RouterUp PROVE IInv'
<1> USE DEF ends
<1>1. PICK q \in flight :
        /\ q.channel = "up"
        /\ flight' = flight \ {q}
        /\ IF q.seq = upNext
           THEN /\ upNext' = upNext + 1
                /\ got' = got \o Bytes(q.body.from, q.body.len)
                /\ gotEof' = q.body.eof
                /\ Answer(q, TRUE, NoChunk)
           ELSE Answer(q, q.seq < upNext, NoChunk) /\ UNCHANGED <<upNext, got, gotEof>>
        /\ UNCHANGED <<bridge, pc, seq, retried, ends, read, chunk, delivered, shut, downNext, last,
                       taken, faults>>
  BY ZenonT(30) DEF RouterUp
<1>2. NoChunk \in Chunks
  BY DEF NoChunk, Chunks
<1>3. q \in Requests /\ q.seq \in Nat /\ upNext \in Nat /\ seq["up"] \in Nat /\ chunk \in Chunks
  BY DEF IInv, Types, TypeOK, Requests, Channels
<1>4. q.seq <= seq["up"] /\ upNext \in {seq["up"], seq["up"] + 1}
  BY <1>1 DEF IInv, OnTheWay, InTurn, Applied, Channels
<1>5. q.alive => q.seq = seq["up"]
  BY <1>1 DEF IInv, OnTheWay
<1>6. OnTheWay'
  BY <1>1, FewerOnTheWay
<1>7. DownKept'
  BY <1>1 DEF IInv, DownKept, DownPrefix
<1>8. CASE q.seq = upNext
  <2>1. upNext = seq["up"] /\ upNext' = seq["up"] + 1 /\ q.body = chunk /\ Len(got) = chunk.from
    BY <1>1, <1>3, <1>4, <1>8 DEF IInv, OnTheWay, UpKept
  <2>2. /\ got \in Seq(Nat) /\ got = Upto(Len(got))
        /\ chunk.len \in Nat /\ read \in Nat /\ written \in Nat /\ read <= written
        /\ chunk.from + chunk.len = read
        /\ chunk.eof => localEof /\ read = written
    BY DEF IInv, Types, TypeOK, Chunks, UpKept, UpPrefix
  <2>3. got' = got \o Bytes(Len(got), chunk.len)
    BY <1>1, <1>8, <2>1
  <2>4. got' \in Seq(Nat) /\ Len(got') = Len(got) + chunk.len /\ got' = Upto(Len(got'))
    BY <2>2, <2>3, StreamGrows, ZenonT(30)
  <2>5. Len(got') = read
    BY <2>1, <2>2, <2>4
  <2>6. replies' \subseteq Answers /\ flight' \subseteq Requests /\ OneAnswer'
    <3>1. Applied("up")' = seq["up"] + 1 /\ Applied("up") = seq["up"]
      BY <2>1 DEF Applied
    <3>2. Applied("down")' = Applied("down")
      BY <1>1 DEF Applied
    <3>3. \A c \in Channels : Applied(c) = seq[c] + 1 => Applied(c)' = Applied(c)
      BY <1>3, <3>1, <3>2, ZenonT(30) DEF Channels
    <3> QED
      BY <1>1, <1>2, <1>8, <3>1, <3>3, Answering, ZenonT(30)
  <2>7. Types'
    <3>1. Types
      BY ZenonT(30) DEF IInv
    <3>2. TypeOK'
      BY <1>1, <3>1, ZenonT(30) DEF Types, TypeOK
    <3>3. upNext' \in Nat
      BY <1>3, <2>1
    <3> QED
      BY <1>1, <2>4, <2>6, <3>1, <3>2, <3>3, ZenonT(30) DEF Types
  <2>8. InTurn'
    <3>1. pc["up"] \notin {"off", "reading"}
      BY <1>1, <1>3, <1>8, <2>1 DEF IInv, OnTheWay
    <3> QED
      BY <1>1, <2>1, <3>1 DEF IInv, InTurn, Applied, Channels
  <2>9. UpKept'
    <3>1. UpPrefix'
      BY <1>1, <2>2, <2>4, <2>5, ZenonT(30) DEF UpPrefix
    <3>2. gotEof' => localEof /\ Len(got') = written
      BY <1>1, <1>8, <2>1, <2>2, <2>5, ZenonT(30)
    <3>3. \A p \in flight' : p.channel = "up" => p.seq # upNext'
      BY <1>1, <1>3, <2>1 DEF IInv, OnTheWay, Types, Requests
    <3>4. upNext' # seq["up"] /\ Len(got') = read
      BY <1>3, <2>1, <2>5
    <3> QED
      BY <1>1, <2>2, <3>1, <3>2, <3>3, <3>4 DEF UpKept
  <2> QED
    BY <1>6, <1>7, <2>6, <2>7, <2>8, <2>9, ZenonT(30) DEF IInv
<1>9. CASE q.seq # upNext
  <2>1. UNCHANGED <<upNext, got, gotEof>> /\ Answer(q, q.seq < upNext, NoChunk)
    BY <1>1, <1>9
  <2>2. \A c \in Channels : Applied(c)' = Applied(c)
    BY <1>1, <2>1 DEF Applied
  <2>3. q.alive => Applied(q.channel)' = seq[q.channel] + 1
    BY <1>1, <1>3, <1>4, <1>5, <1>9, <2>1 DEF Applied
  <2>4. (q.seq < upNext) \in BOOLEAN
    BY <1>3
  <2>5. replies' \subseteq Answers /\ flight' \subseteq Requests /\ OneAnswer'
    BY <1>1, <1>2, <2>1, <2>2, <2>3, <2>4, Answering, ZenonT(30)
  <2>6. Types'
    BY <1>1, <2>1, <2>5, ZenonT(30) DEF IInv, Types, TypeOK
  <2>7. InTurn' /\ UpKept'
    BY <1>1, <2>1 DEF IInv, InTurn, Applied, UpKept, UpPrefix
  <2> QED
    BY <1>6, <1>7, <2>5, <2>6, <2>7 DEF IInv
<1> QED
  BY <1>8, <1>9

LEMMA RouterDownStep == ASSUME IInv, RouterDown PROVE IInv'
<1> USE DEF ends
<1>1. PICK q \in flight :
        /\ q.channel = "down"
        /\ flight' = flight \ {q}
        /\ IF q.seq = downNext
           THEN \E len \in 0 .. out - taken :
                  LET body == [from |-> taken, len |-> len, eof |-> outEof /\ taken + len = out]
                  IN  /\ downNext' = downNext + 1
                      /\ taken' = taken + len
                      /\ last' = body
                      /\ Answer(q, TRUE, body)
           ELSE /\ Answer(q, q.seq + 1 = downNext, IF q.seq + 1 = downNext THEN last ELSE NoChunk)
                /\ UNCHANGED <<downNext, last, taken>>
        /\ UNCHANGED <<bridge, pc, seq, retried, ends, read, chunk, delivered, shut, upNext, got,
                       gotEof, faults>>
  BY ZenonT(30) DEF RouterDown
<1>2. /\ q.seq \in Nat /\ downNext \in Nat /\ seq["down"] \in Nat
      /\ last \in Chunks /\ NoChunk \in Chunks
  BY DEF IInv, Types, TypeOK, Requests, Channels, NoChunk, Chunks
<1>3. q.seq <= seq["down"] /\ downNext \in {seq["down"], seq["down"] + 1}
  BY <1>1, ZenonT(30) DEF IInv, OnTheWay, InTurn, Applied, Channels
<1>4. q.alive => q.seq = seq["down"]
  BY <1>1, ZenonT(30) DEF IInv, OnTheWay
<1>5. OnTheWay'
  BY <1>1, FewerOnTheWay, ZenonT(30)
<1>6. UpKept'
  BY <1>1 DEF IInv, UpKept, UpPrefix
<1>7. CASE q.seq = downNext
  <2>1. PICK len \in 0 .. out - taken :
          /\ downNext' = downNext + 1
          /\ taken' = taken + len
          /\ last' = [from |-> taken, len |-> len, eof |-> outEof /\ taken + len = out]
          /\ Answer(q, TRUE, last')
    BY <1>1, <1>7, ZenonT(30)
  <2>2. downNext = seq["down"] /\ downNext' = seq["down"] + 1
    BY <1>2, <1>3, <1>7, <2>1
  <2>3. /\ taken \in Nat /\ out \in Nat /\ taken <= out /\ len \in Nat
        /\ taken' \in 0 .. out
    <3>1. taken \in 0 .. out /\ out \in Nat
      BY ZenonT(30) DEF IInv, Types, TypeOK
    <3>2. len \in 0 .. out - taken /\ taken' = taken + len
      BY <2>1, ZenonT(30)
    <3> QED
      BY <3>1, <3>2
  <2>4. last' \in Chunks
    BY <2>1, <2>3 DEF IInv, Types, Chunks
  <2>5. replies' \subseteq Answers /\ flight' \subseteq Requests /\ OneAnswer'
    <3>1. Applied("down")' = seq["down"] + 1 /\ Applied("down") = seq["down"]
      BY <2>2 DEF Applied
    <3>2. Applied("up")' = Applied("up")
      BY <1>1, ZenonT(30) DEF Applied
    <3>3. \A c \in Channels : Applied(c) = seq[c] + 1 => Applied(c)' = Applied(c)
      BY <1>2, <3>1, <3>2 DEF Channels
    <3>4. downNext # seq["down"] + 1
      BY <1>2, <2>2
    <3>5. PICK body : body = last'
      BY ZenonT(30)
    <3> QED
      BY <1>1, <2>1, <2>4, <3>1, <3>3, <3>4, <3>5, Answering, ZenonT(30)
  <2>6. Types'
    <3>1. TypeOK'
      BY <1>1, <2>3 DEF IInv, Types, TypeOK
    <3>2. downNext' \in Nat
      BY <1>2, <2>2
    <3>3. Types
      BY ZenonT(30) DEF IInv
    <3> QED
      BY <1>1, <2>4, <2>5, <3>1, <3>2, <3>3, ZenonT(30) DEF Types
  <2>7. InTurn'
    <3>1. pc["down"] \notin {"off", "reading"}
      <4>1. pc["down"] \in {"off", "reading"} => q.seq < seq["down"]
        BY <1>1, ZenonT(30) DEF IInv, OnTheWay
      <4>2. q.seq = seq["down"] /\ seq["down"] \in Nat
        BY <1>2, <1>7, <2>2, ZenonT(30)
      <4>3. ~(q.seq < seq["down"])
        BY <4>2, NotBefore, ZenonT(30)
      <4> QED
        BY <4>1, <4>3, ZenonT(30)
    <3> QED
      BY <1>1, <2>2, <3>1, ZenonT(30) DEF IInv, InTurn, Applied, Channels
  <2>8. DownKept'
    <3>1. Len(delivered) = taken
      BY <2>2 DEF IInv, DownKept
    <3>2. last'.from = taken /\ last'.len = len /\ (last'.eof => outEof /\ taken + len = out)
      BY <2>1, ZenonT(30)
    <3>3. downNext' # seq["down"]
      BY <1>2, <2>2
    <3> QED
      BY <1>1, <2>1, <3>1, <3>2, <3>3 DEF IInv, DownKept, DownPrefix
  <2> QED
    BY <1>5, <1>6, <2>5, <2>6, <2>7, <2>8 DEF IInv
<1>8. CASE q.seq # downNext
  <2>1. PICK body : body = IF q.seq + 1 = downNext THEN last ELSE NoChunk
    BY ZenonT(30)
  <2>2. UNCHANGED <<downNext, last, taken>> /\ Answer(q, q.seq + 1 = downNext, body)
    BY <1>1, <1>8, <2>1, ZenonT(30)
  <2>3. \A c \in Channels : Applied(c)' = Applied(c)
    BY <1>1, <2>2, ZenonT(30) DEF Applied
  <2>4. q.alive => Applied(q.channel)' = seq[q.channel] + 1
    BY <1>1, <1>2, <1>3, <1>4, <1>8, <2>2 DEF Applied
  <2>5. (q.seq + 1 = downNext) \in BOOLEAN /\ body \in Chunks /\ (q.seq + 1 = downNext => body = last')
    BY <1>2, <2>1, <2>2
  <2>6. replies' \subseteq Answers /\ flight' \subseteq Requests /\ OneAnswer'
    BY <1>1, <2>2, <2>3, <2>4, <2>5, Answering, ZenonT(30)
  <2>7. Types'
    BY <1>1, <2>2, <2>6, ZenonT(30) DEF IInv, Types, TypeOK
  <2>8. InTurn' /\ DownKept'
    BY <1>1, <2>2, ZenonT(30) DEF IInv, InTurn, Applied, DownKept, DownPrefix
  <2> QED
    BY <1>5, <1>6, <2>6, <2>7, <2>8 DEF IInv
<1> QED
  BY <1>7, <1>8

(***************************************************************************)
(* A loop that has lost its answer, and no longer has a connection for     *)
(* another one, repeats its request or ends.                               *)
(***************************************************************************)
Retrying(c) ==
  /\ pc[c] = "waiting" /\ Retry(c)
  /\ flight' \subseteq Requests
  /\ \A p \in flight' : \E q \in flight :
       /\ p.channel = q.channel /\ p.seq = q.seq /\ p.body = q.body
       /\ p.alive => q.alive /\ p.channel # c
  /\ replies' \subseteq {a \in replies : a.channel # c}
  /\ UNCHANGED <<bridge, ends, read, chunk, delivered, shut, router>>

LEMMA RetryStep == ASSUME IInv, NEW c \in Channels, Retrying(c) PROVE IInv'
<1>a. /\ UNCHANGED <<bridge, written, localEof, out, outEof, read, chunk, delivered, shut>>
      /\ UNCHANGED <<upNext, got, gotEof, downNext, last, taken>>
  BY ZenonT(30) DEF Retrying, ends, router
<1>b. flight' \subseteq Requests /\ replies' \subseteq {a \in replies : a.channel # c}
  BY DEF Retrying
<1>c. \A p \in flight' : \E q \in flight :
        /\ p.channel = q.channel /\ p.seq = q.seq /\ p.body = q.body
        /\ p.alive => q.alive /\ p.channel # c
  BY DEF Retrying
<1>1. /\ pc' \in [Channels -> {"off", "reading", "ready", "waiting", "ended"}]
      /\ pc'[c] \in {"ready", "ended"} /\ \A d \in Channels \ {c} : pc'[d] = pc[d]
      /\ retried' \in [Channels -> BOOLEAN] /\ seq' = seq
  <2>1. /\ pc \in [Channels -> {"off", "reading", "ready", "waiting", "ended"}]
        /\ retried \in [Channels -> BOOLEAN]
    BY ZenonT(30) DEF IInv, Types, TypeOK
  <2>2. \/ pc' = [pc EXCEPT ![c] = "ended"] /\ retried' = retried
        \/ pc' = [pc EXCEPT ![c] = "ready"] /\ retried' = [retried EXCEPT ![c] = TRUE]
    BY DEF Retrying, Retry
  <2>3. seq' = seq
    BY DEF Retrying, Retry
  <2> QED
    BY <2>1, <2>2, <2>3, ZenonT(30)
<1>2. Types'
  <2>1. TypeOK'
    BY <1>a, <1>1 DEF IInv, Types, TypeOK
  <2>2. flight' \subseteq Requests /\ replies' \subseteq Answers
    BY <1>b DEF IInv, Types
  <2> QED
    BY <1>a, <2>1, <2>2 DEF IInv, Types
<1>3. InTurn'
  <2> SUFFICES ASSUME NEW d \in Channels
               PROVE  /\ Applied(d)' \in {seq'[d], seq'[d] + 1}
                      /\ pc'[d] \in {"off", "reading"} => Applied(d)' = seq'[d]
                      /\ bridge' = "creating" => pc'[d] = "off"
    BY ZenonT(30) DEF InTurn
  <2>1. Applied(d)' = Applied(d) /\ seq' = seq /\ bridge' = bridge
    BY <1>a, <1>1 DEF Applied
  <2>2. /\ Applied(d) \in {seq[d], seq[d] + 1}
        /\ pc[d] \in {"off", "reading"} => Applied(d) = seq[d]
        /\ bridge = "creating" => pc[d] = "off" /\ pc[c] = "off"
    BY ZenonT(30) DEF IInv, InTurn
  <2>3. pc'[d] = pc[d] \/ (pc'[d] \in {"ready", "ended"} /\ pc[c] = "waiting")
    BY <1>1, ZenonT(30) DEF Retrying
  <2> QED
    BY <2>1, <2>2, <2>3, ZenonT(30)
<1>4. OnTheWay'
  <2> SUFFICES ASSUME NEW p \in flight'
               PROVE  /\ p.seq <= seq'[p.channel]
                      /\ p.alive => p.seq = seq'[p.channel] /\ pc'[p.channel] \in {"waiting", "ended"}
                      /\ pc'[p.channel] \in {"off", "reading"} => p.seq < seq'[p.channel]
                      /\ p.channel = "up" /\ p.seq = seq'["up"] => p.body = chunk'
                      /\ p.channel = "down" => p.body = NoChunk
    BY ZenonT(30) DEF OnTheWay
  <2>1. PICK q \in flight : /\ p.channel = q.channel /\ p.seq = q.seq /\ p.body = q.body
                            /\ p.alive => q.alive /\ p.channel # c
    BY <1>c
  <2>2. /\ q.seq <= seq[q.channel]
        /\ q.alive => q.seq = seq[q.channel] /\ pc[q.channel] \in {"waiting", "ended"}
        /\ pc[q.channel] \in {"off", "reading"} => q.seq < seq[q.channel]
        /\ q.channel = "up" /\ q.seq = seq["up"] => q.body = chunk
        /\ q.channel = "down" => q.body = NoChunk
    BY DEF IInv, OnTheWay
  <2>3. q.channel \in Channels
    BY DEF IInv, Types, Requests
  <2>4. /\ p.seq <= seq[p.channel] /\ p.channel \in Channels
        /\ pc[p.channel] \in {"off", "reading"} => p.seq < seq[p.channel]
        /\ p.channel = "up" /\ p.seq = seq["up"] => p.body = chunk
        /\ p.channel = "down" => p.body = NoChunk
    BY <2>1, <2>2, <2>3, ZenonT(30)
  <2>5. p.alive => /\ p.seq = seq[p.channel] /\ p.channel # c
                   /\ pc[p.channel] \in {"waiting", "ended"}
    BY <2>1, <2>2, ZenonT(30)
  <2>6. p.channel # c => pc'[p.channel] = pc[p.channel]
    BY <1>1, <2>4, ZenonT(30)
  <2>7. p.channel = c => pc'[p.channel] \in {"ready", "ended"}
    BY <1>1, ZenonT(30)
  <2>8. p.alive => p.seq = seq[p.channel] /\ pc'[p.channel] \in {"waiting", "ended"}
    BY <2>5, <2>6, ZenonT(30)
  <2>9. pc'[p.channel] \in {"off", "reading"} => p.seq < seq[p.channel]
    BY <2>4, <2>6, <2>7, ZenonT(30)
  <2> QED
    BY <1>a, <1>1, <2>4, <2>8, <2>9, ZenonT(30)
<1>5. OneAnswer'
  <2> SUFFICES ASSUME NEW a \in replies'
               PROVE  /\ pc'[a.channel] \in {"waiting", "ended"}
                      /\ a.ok => Applied(a.channel)' = seq'[a.channel] + 1
                      /\ a.ok /\ a.channel = "down" => a.body = last'
                      /\ \A p \in flight' : p.channel = a.channel => ~p.alive
                      /\ \A b \in replies' : b.channel = a.channel => b = a
    BY ZenonT(30) DEF OneAnswer
  <2>1. a \in replies /\ a.channel # c /\ a.channel \in Channels
    BY <1>b DEF IInv, Types, Answers
  <2>2. /\ pc[a.channel] \in {"waiting", "ended"}
        /\ a.ok => Applied(a.channel) = seq[a.channel] + 1
        /\ a.ok /\ a.channel = "down" => a.body = last
        /\ \A q \in flight : q.channel = a.channel => ~q.alive
        /\ \A b \in replies : b.channel = a.channel => b = a
    BY <2>1 DEF IInv, OneAnswer
  <2>3. Applied(a.channel)' = Applied(a.channel)
    BY <1>a, ZenonT(30) DEF Applied
  <2>4. \A p \in flight' : p.channel = a.channel => ~p.alive
    BY <1>c, <2>2
  <2>5. last' = last /\ seq' = seq
    BY <1>a, <1>1
  <2>6. pc'[a.channel] = pc[a.channel]
    BY <1>1, <2>1, ZenonT(30)
  <2>7. \A b \in replies' : b.channel = a.channel => b = a
    BY <1>b, <2>2, ZenonT(30)
  <2> QED
    BY <2>2, <2>3, <2>4, <2>5, <2>6, <2>7, ZenonT(30)
<1>6. UpKept'
  <2>1. pc'["up"] = pc["up"] \/ (pc["up"] = "waiting" /\ pc'["up"] \in {"ready", "ended"})
    BY <1>1, ZenonT(30) DEF Channels, Retrying
  <2>2. \A q \in flight : q.channel = "up" /\ q.seq = upNext => Len(got) = chunk.from
    BY DEF IInv, UpKept
  <2>3. \A p \in flight' : p.channel = "up" /\ p.seq = upNext => Len(got) = chunk.from
    BY <1>c, <2>2
  <2>4. seq' = seq
    BY <1>1
  <2> QED
    BY <1>a, <2>1, <2>3, <2>4, ZenonT(30) DEF IInv, UpKept, UpPrefix
<1>7. DownKept'
  BY <1>a, <1>1 DEF IInv, DownKept, DownPrefix
<1> QED
  BY <1>2, <1>3, <1>4, <1>5, <1>6, <1>7, ZenonT(30) DEF IInv

LEMMA BreaksStep == ASSUME IInv, NEW c \in Channels, Breaks(c) PROVE IInv'
<1> USE DEF Breaks
<1>1. flight \subseteq Requests
  BY DEF IInv, Types
<1>2. /\ flight' \subseteq Requests
      /\ \A p \in flight' : \E q \in flight :
           /\ p.channel = q.channel /\ p.seq = q.seq /\ p.body = q.body
           /\ p.alive => q.alive /\ p.channel # c
  <2> SUFFICES ASSUME NEW p \in flight'
               PROVE  /\ p \in Requests
                      /\ \E q \in flight :
                           /\ p.channel = q.channel /\ p.seq = q.seq /\ p.body = q.body
                           /\ p.alive => q.alive /\ p.channel # c
    OBVIOUS
  <2>1. CASE flight' = {q \in flight : q.channel # c}
    BY <1>1, <2>1
  <2>2. CASE flight' = {IF q.channel = c THEN [q EXCEPT !.alive = FALSE] ELSE q : q \in flight}
    <3>1. PICK q \in flight : p = IF q.channel = c THEN [q EXCEPT !.alive = FALSE] ELSE q
      BY <2>2
    <3>2. q \in Requests
      BY <1>1
    <3>3. CASE q.channel = c
      <4>1. p = [channel |-> q.channel, seq |-> q.seq, alive |-> FALSE, body |-> q.body]
        BY <3>1, <3>2, <3>3, ZenonT(30) DEF Requests
      <4> QED
        BY <3>2, <4>1 DEF Requests
    <3>4. CASE q.channel # c
      BY <3>1, <3>2, <3>4
    <3> QED
      BY <3>3, <3>4
  <2> QED
    BY <2>1, <2>2
<1>3. Retrying(c)
  BY <1>2, ZenonT(30) DEF Retrying
<1> QED
  BY <1>3, RetryStep

(***************************************************************************)
(* What the answer of a loop says: the router has applied the request, and *)
(* neither another answer nor a request that could bring one is left.      *)
(***************************************************************************)
LEMMA AnswerTaken ==
  ASSUME IInv, NEW c \in Channels, NEW a \in Awaited(c), replies' = replies \ {a}, flight' = flight
  PROVE  /\ a \in replies /\ a \in Answers /\ a.channel = c
         /\ replies' \subseteq {b \in replies : b.channel # c}
         /\ \A q \in flight : q.channel = c => ~q.alive
         /\ a.ok => Applied(c) = seq[c] + 1
         /\ a.ok /\ c = "down" => a.body = last
<1>1. a \in replies /\ a \in Answers /\ a.channel = c
  BY DEF Awaited, IInv, Types
<1> QED
  BY <1>1 DEF IInv, OneAnswer

LEMMA RetryAfterAnswer ==
  ASSUME IInv, NEW c \in Channels, NEW a \in Awaited(c), replies' = replies \ {a}, flight' = flight,
         pc[c] = "waiting", Retry(c),
         UNCHANGED <<bridge, ends, read, chunk, delivered, shut, router>>
  PROVE  IInv'
<1>1. /\ replies' \subseteq {b \in replies : b.channel # c}
      /\ \A q \in flight : q.channel = c => ~q.alive
  BY AnswerTaken
<1>2. flight' \subseteq Requests
  BY DEF IInv, Types
<1>3. \A p \in flight' : \E q \in flight :
        /\ p.channel = q.channel /\ p.seq = q.seq /\ p.body = q.body
        /\ p.alive => q.alive /\ p.channel # c
  BY <1>1, ZenonT(30)
<1>4. Retrying(c)
  BY <1>1, <1>2, <1>3, ZenonT(30) DEF Retrying
<1> QED
  BY <1>4, RetryStep

(***************************************************************************)
(* A loop takes a good answer and goes on to its next number: what is      *)
(* still on its way for it is old.                                         *)
(***************************************************************************)
LEMMA AdvanceStep ==
  ASSUME IInv, NEW c \in Channels, NEW a \in Awaited(c), replies' = replies \ {a}, flight' = flight,
         a.ok, pc[c] = "waiting",
         seq' = [seq EXCEPT ![c] = @ + 1],
         pc' \in [Channels -> {"off", "reading", "ready", "waiting", "ended"}],
         \A d \in Channels \ {c} : pc'[d] = pc[d],
         UNCHANGED <<bridge, chunk, router>>
  PROVE  /\ seq' \in [Channels -> Nat] /\ seq'[c] = Applied(c)
         /\ \A d \in Channels \ {c} : seq'[d] = seq[d]
         /\ \A q \in flight : q.channel = c => q.seq < seq'[c]
         /\ replies' \subseteq Answers
         /\ InTurn' /\ OnTheWay' /\ OneAnswer'
<1> USE DEF router
<1>1. /\ replies' \subseteq {b \in replies : b.channel # c}
      /\ \A q \in flight : q.channel = c => ~q.alive
      /\ Applied(c) = seq[c] + 1
  BY AnswerTaken
<1>2. /\ seq \in [Channels -> Nat] /\ flight \subseteq Requests /\ replies \subseteq Answers
  BY DEF IInv, Types, TypeOK
<1>3. /\ seq' \in [Channels -> Nat] /\ seq'[c] = Applied(c) /\ seq'[c] = seq[c] + 1
      /\ \A d \in Channels \ {c} : seq'[d] = seq[d]
  <2>1. PICK n \in Nat : n = seq[c] + 1
    BY <1>2
  <2>2. seq' = [seq EXCEPT ![c] = n]
    BY <2>1
  <2>3. seq' \in [Channels -> Nat] /\ seq'[c] = n /\ \A d \in Channels \ {c} : seq'[d] = seq[d]
    BY <1>2, <2>2, ZenonT(30)
  <2> QED
    BY <1>1, <2>1, <2>3, ZenonT(30)
<1>4. \A d \in Channels : Applied(d)' = Applied(d)
  BY DEF Applied
<1>5. bridge' # "creating"
  BY DEF IInv, InTurn
<1>6. InTurn'
  <2> SUFFICES ASSUME NEW d \in Channels
               PROVE  /\ Applied(d)' \in {seq'[d], seq'[d] + 1}
                      /\ pc'[d] \in {"off", "reading"} => Applied(d)' = seq'[d]
    BY <1>5, ZenonT(30) DEF InTurn
  <2>1. CASE d = c
    BY <1>3, <1>4, <2>1, ZenonT(30)
  <2>2. CASE d # c
    <3>1. seq'[d] = seq[d] /\ pc'[d] = pc[d] /\ Applied(d)' = Applied(d)
      BY <1>3, <1>4, <2>2, ZenonT(30)
    <3> QED
      BY <3>1, ZenonT(30) DEF IInv, InTurn
  <2> QED
    BY <2>1, <2>2, ZenonT(30)
<1>7. \A q \in flight : q.channel \in Channels /\ q.seq \in Nat
  BY <1>2, ZenonT(30) DEF Requests
<1>8. \A q \in flight : q.channel = c => q.seq < seq'[c]
  <2> SUFFICES ASSUME NEW q \in flight, q.channel = c
               PROVE  q.seq < seq'[c]
    BY ZenonT(30)
  <2>1. q.seq <= seq[c]
    BY ZenonT(30) DEF IInv, OnTheWay
  <2>2. q.seq \in Nat /\ seq[c] \in Nat /\ seq'[c] = seq[c] + 1
    BY <1>2, <1>3, <1>7, ZenonT(30)
  <2> QED
    BY <2>1, <2>2, BeforeNext, ZenonT(30)
<1>9. OnTheWay'
  <2> SUFFICES ASSUME NEW q \in flight
               PROVE  /\ q.seq <= seq'[q.channel]
                      /\ q.alive => q.seq = seq'[q.channel] /\ pc'[q.channel] \in {"waiting", "ended"}
                      /\ pc'[q.channel] \in {"off", "reading"} => q.seq < seq'[q.channel]
                      /\ q.channel = "up" /\ q.seq = seq'["up"] => q.body = chunk
                      /\ q.channel = "down" => q.body = NoChunk
    BY DEF OnTheWay
  <2>1. /\ q.seq <= seq[q.channel]
        /\ q.alive => q.seq = seq[q.channel] /\ pc[q.channel] \in {"waiting", "ended"}
        /\ pc[q.channel] \in {"off", "reading"} => q.seq < seq[q.channel]
        /\ q.channel = "up" /\ q.seq = seq["up"] => q.body = chunk
        /\ q.channel = "down" => q.body = NoChunk
    BY ZenonT(30) DEF IInv, OnTheWay
  <2>2. CASE q.channel = c
    BY <1>1, <1>2, <1>3, <1>7, <1>8, <2>1, <2>2
  <2>3. CASE q.channel # c
    BY <1>3, <1>7, <2>1, <2>3, ZenonT(30)
  <2> QED
    BY <2>2, <2>3, ZenonT(30)
<1>10. OneAnswer'
  <2> SUFFICES ASSUME NEW b \in replies'
               PROVE  /\ pc'[b.channel] \in {"waiting", "ended"}
                      /\ b.ok => Applied(b.channel)' = seq'[b.channel] + 1
                      /\ b.ok /\ b.channel = "down" => b.body = last'
                      /\ \A q \in flight' : q.channel = b.channel => ~q.alive
                      /\ \A d \in replies' : d.channel = b.channel => d = b
    BY ZenonT(30) DEF OneAnswer
  <2>1. b \in replies /\ b.channel # c /\ b.channel \in Channels
    BY <1>1, <1>2, ZenonT(30) DEF Answers
  <2>2. Applied(b.channel)' = Applied(b.channel) /\ pc'[b.channel] = pc[b.channel]
        /\ seq'[b.channel] = seq[b.channel]
    BY <1>3, <1>4, <2>1
  <2> QED
    BY <1>1, <2>1, <2>2 DEF IInv, OneAnswer
<1> QED
  BY <1>1, <1>2, <1>3, <1>6, <1>8, <1>9, <1>10

LEMMA UploadReplyStep == ASSUME IInv, UploadReply PROVE IInv'
<1> USE DEF ends, router
<1>1. PICK a \in Awaited("up") :
        /\ replies' = replies \ {a}
        /\ IF a.ok THEN Advance("up", IF chunk.eof THEN "ended" ELSE "reading") ELSE Retry("up")
  BY DEF UploadReply
<1>2. /\ pc["up"] = "waiting" /\ "up" \in Channels
      /\ UNCHANGED <<bridge, ends, read, chunk, delivered, shut, flight, router, faults>>
  BY DEF UploadReply, Channels
<1>3. CASE ~a.ok
  BY <1>1, <1>2, <1>3, RetryAfterAnswer
<1>4. CASE a.ok
  <2>1. /\ seq' = [seq EXCEPT !["up"] = @ + 1]
        /\ retried' = [retried EXCEPT !["up"] = FALSE]
        /\ \/ pc' = [pc EXCEPT !["up"] = IF chunk.eof THEN "ended" ELSE "reading"]
           \/ pc' = [pc EXCEPT !["up"] = "ended"]
    BY <1>1, <1>4 DEF Advance
  <2>2. /\ pc \in [Channels -> {"off", "reading", "ready", "waiting", "ended"}]
        /\ retried \in [Channels -> BOOLEAN]
    BY DEF IInv, Types, TypeOK
  <2>3. /\ pc' \in [Channels -> {"off", "reading", "ready", "waiting", "ended"}]
        /\ retried' \in [Channels -> BOOLEAN]
        /\ pc'["up"] \in {"ended", "reading"}
        /\ \A d \in Channels \ {"up"} : pc'[d] = pc[d]
    BY <1>2, <2>1, <2>2
  <2>4. /\ seq' \in [Channels -> Nat] /\ seq'["up"] = Applied("up")
        /\ \A d \in Channels \ {"up"} : seq'[d] = seq[d]
        /\ \A q \in flight : q.channel = "up" => q.seq < seq'["up"]
        /\ replies' \subseteq Answers
        /\ InTurn' /\ OnTheWay' /\ OneAnswer'
    BY <1>1, <1>2, <1>4, <2>1, <2>3, AdvanceStep, ZenonT(30)
  <2>5. Types'
    <3>1. TypeOK'
      BY <1>2, <2>3, <2>4, ZenonT(30) DEF IInv, Types, TypeOK
    <3> QED
      BY <1>2, <2>4, <3>1, ZenonT(30) DEF IInv, Types
  <2>6. UpKept'
    <3>1. upNext = seq["up"] + 1
      BY <1>1, <1>2, <1>4, AnswerTaken, ZenonT(30) DEF Applied
    <3>2. Len(got) = read
      BY <1>2, <3>1 DEF IInv, Types, TypeOK, UpKept
    <3>3. upNext \in Nat /\ \A q \in flight : q.seq \in Nat
      BY DEF IInv, Types, Requests
    <3>4. \A q \in flight : q.channel = "up" => q.seq # upNext
      BY <2>4, <3>3 DEF Applied
    <3> QED
      BY <1>2, <2>3, <3>2, <3>4, ZenonT(30) DEF IInv, UpKept, UpPrefix
  <2>7. DownKept'
    <3>1. seq'["down"] = seq["down"]
      BY <2>4 DEF Channels
    <3> QED
      BY <1>2, <3>1 DEF IInv, DownKept, DownPrefix
  <2> QED
    BY <2>4, <2>5, <2>6, <2>7 DEF IInv
<1> QED
  BY <1>3, <1>4

LEMMA DownloadReplyStep == ASSUME IInv, DownloadReply PROVE IInv'
<1> USE DEF ends, router
<1>1. PICK a \in Awaited("down") :
        /\ replies' = replies \ {a}
        /\ IF ~a.ok
           THEN Retry("down") /\ UNCHANGED <<delivered, shut>>
           ELSE /\ delivered' = delivered \o Bytes(a.body.from, a.body.len)
                /\ shut' = a.body.eof
                /\ IF a.body.eof
                   THEN /\ pc' = [pc EXCEPT !["down"] = "ended"]
                        /\ seq' = [seq EXCEPT !["down"] = @ + 1]
                        /\ UNCHANGED retried
                   ELSE Advance("down", "ready")
  BY DEF DownloadReply
<1>2. /\ pc["down"] = "waiting" /\ "down" \in Channels
      /\ UNCHANGED <<bridge, ends, read, chunk, flight, router, faults>>
  BY ZenonT(30) DEF DownloadReply, Channels
<1>3. CASE ~a.ok
  BY <1>1, <1>2, <1>3, RetryAfterAnswer
<1>4. CASE a.ok
  <2>1. /\ seq' = [seq EXCEPT !["down"] = @ + 1]
        /\ retried' \in {retried, [retried EXCEPT !["down"] = FALSE]}
        /\ pc' \in {[pc EXCEPT !["down"] = "ended"], [pc EXCEPT !["down"] = "ready"]}
    BY <1>1, <1>4 DEF Advance
  <2>2. /\ pc \in [Channels -> {"off", "reading", "ready", "waiting", "ended"}]
        /\ retried \in [Channels -> BOOLEAN]
    BY DEF IInv, Types, TypeOK
  <2>3. /\ pc' \in [Channels -> {"off", "reading", "ready", "waiting", "ended"}]
        /\ retried' \in [Channels -> BOOLEAN]
        /\ \A d \in Channels \ {"down"} : pc'[d] = pc[d]
    BY <1>2, <2>1, <2>2, ZenonT(30)
  <2>4. /\ seq' \in [Channels -> Nat] /\ seq'["down"] = Applied("down")
        /\ \A d \in Channels \ {"down"} : seq'[d] = seq[d]
        /\ replies' \subseteq Answers
        /\ InTurn' /\ OnTheWay' /\ OneAnswer'
    BY <1>1, <1>2, <1>4, <2>1, <2>3, AdvanceStep, ZenonT(30)
  <2>5. downNext = seq["down"] + 1 /\ a.body = last
    BY <1>1, <1>2, <1>4, AnswerTaken, ZenonT(30) DEF Applied
  <2>6. /\ Len(delivered) = last.from /\ last.from + last.len = taken
        /\ last.eof => outEof /\ taken = out
        /\ delivered \in Seq(Nat) /\ delivered = Upto(Len(delivered)) /\ last.len \in Nat
        /\ taken \in Nat /\ out \in Nat /\ taken <= out
    <3>1. /\ delivered \in Seq(Nat) /\ last \in Chunks /\ out \in Nat /\ taken \in 0 .. out
      BY ZenonT(30) DEF IInv, Types, TypeOK
    <3>2. last.len \in Nat /\ taken \in Nat /\ taken <= out
      BY <3>1 DEF Chunks
    <3>3. DownKept /\ DownPrefix
      BY ZenonT(30) DEF IInv, DownKept
    <3> QED
      BY <2>5, <3>1, <3>2, <3>3, ZenonT(30) DEF DownKept, DownPrefix
  <2>7. delivered' = delivered \o Bytes(Len(delivered), last.len) /\ shut' = last.eof
    BY <1>1, <1>4, <2>5, <2>6
  <2>8. /\ delivered' \in Seq(Nat) /\ Len(delivered') = Len(delivered) + last.len
        /\ delivered' = Upto(Len(delivered'))
    BY <2>6, <2>7, StreamGrows, ZenonT(30)
  <2>9. Len(delivered') = taken
    BY <2>6, <2>8
  <2>10. Types'
    <3>1. TypeOK'
      BY <1>2, <2>3, <2>4 DEF IInv, Types, TypeOK
    <3> QED
      BY <1>2, <2>4, <2>8, <3>1, ZenonT(30) DEF IInv, Types
  <2>11. UpKept'
    <3>1. seq'["up"] = seq["up"] /\ pc'["up"] = pc["up"]
      BY <2>3, <2>4 DEF Channels
    <3>2. UNCHANGED <<written, localEof, read, chunk, flight, upNext, got, gotEof>>
      BY <1>2
    <3> QED
      BY <3>1, <3>2, ZenonT(30) DEF IInv, UpKept, UpPrefix
  <2>12. DownKept'
    <3>1. downNext = seq'["down"] /\ downNext \in Nat
      BY <2>4 DEF Applied, IInv, Types
    <3>2. out' = out /\ outEof' = outEof /\ downNext' = downNext /\ taken' = taken
      BY <1>2
    <3>3. DownPrefix'
      BY <2>6, <2>8, <2>9, <3>2 DEF DownPrefix
    <3>4. shut' => outEof' /\ Len(delivered') = out'
      BY <2>6, <2>7, <2>9, <3>2
    <3>5. downNext' = seq'["down"] /\ downNext' # seq'["down"] + 1 /\ Len(delivered') = taken'
      BY <2>9, <3>1, <3>2
    <3> QED
      BY <3>3, <3>4, <3>5, ZenonT(30) DEF DownKept
  <2> QED
    BY <2>4, <2>10, <2>11, <2>12 DEF IInv
<1> QED
  BY <1>3, <1>4, ZenonT(30)

LEMMA Inductive == IInv /\ [Next]_vars => IInv'
<1> SUFFICES ASSUME IInv, [Next]_vars PROVE IInv'
  OBVIOUS
<1>1. CASE UNCHANGED vars
  <2> USE <1>1 DEF vars, ends, net, router
  <2>1. Types'
    BY ZenonT(30) DEF IInv, Types, TypeOK
  <2>2. InTurn' /\ OnTheWay' /\ OneAnswer'
    BY ZenonT(30) DEF IInv, InTurn, OnTheWay, OneAnswer, Applied
  <2>3. UpKept' /\ DownKept'
    BY DEF IInv, UpKept, UpPrefix, DownKept, DownPrefix
  <2> QED
    BY <2>1, <2>2, <2>3, ZenonT(30) DEF IInv
<1>2. CASE Create(TRUE) \/ Create(FALSE)
  BY <1>2, CreateStep, ZenonT(30)
<1>3. CASE Loops
  BY <1>3, ReadStep, UploadReplyStep, DownloadReplyStep, SendStep DEF Loops
<1>4. CASE Join
  BY <1>4, JoinStep
<1>5. CASE \E c \in Channels : Breaks(c)
  BY <1>5, BreaksStep
<1>6. CASE RouterUp \/ RouterDown \/ Refuses
  BY <1>6, RouterUpStep, RouterDownStep, RefusesStep
<1> QED
  BY <1>1, <1>2, <1>3, <1>4, <1>5, <1>6, ZenonT(30) DEF Next

-------------------------------------------------------------------------------
(***************************************************************************)
(* In every behaviour of the bridge the loops and the router stay within   *)
(* one request of each other, only the current request can be answered,    *)
(* and what has arrived and what is kept for repetition join without a     *)
(* gap.                                                                    *)
(***************************************************************************)
THEOREM BridgeInvariance == Spec => []IInv
  BY InitInv, Inductive, PTL DEF Spec

(***************************************************************************)
(* Whatever upload_loop and download_loop repeat, and whichever HTTP       *)
(* connections break, both byte streams arrive as they were written: in    *)
(* order, nothing twice, nothing left out, and an end only after every     *)
(* byte before it.                                                         *)
(***************************************************************************)
THEOREM StreamsPassUnchanged == Spec => []StreamsKept
<1>1. IInv => StreamsKept
  <2> SUFFICES ASSUME IInv PROVE StreamsKept
    OBVIOUS
  <2>1. TypeOK /\ UpPrefix /\ DownPrefix
    BY DEF IInv, Types, UpKept, DownKept
  <2>2. EndsComplete
    BY DEF IInv, Types, UpKept, DownKept, EndsComplete
  <2> QED
    BY <2>1, <2>2 DEF StreamsKept
<1> QED
  BY <1>1, BridgeInvariance, PTL
===============================================================================
