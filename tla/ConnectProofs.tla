---------------------------- MODULE ConnectProofs -----------------------------
(***************************************************************************)
(* Proofs about Connect and Authenticate, for any pins, endpoints, offers, *)
(* calls and number of damaged messages.                                   *)
(*                                                                         *)
(* The handshake is sequential, so the state of an attempt is one of the   *)
(* fourteen stages of Flow; a damaged message is in the same stage as the  *)
(* one that was sent.  A tag contains the hash it was made with, so a tag  *)
(* that fits was made by an end that mixed in the same points: a node that *)
(* goes on after the first message holds the pinned key, and a client that *)
(* goes on after the reply shares its session.                             *)
(*                                                                         *)
(* The calls on the connected Client interleave freely.  Order says which  *)
(* requests each may have sent, Accepted that nothing is taken for         *)
(* accepted before the node accepted it, and InTurn follows calls that are *)
(* made one after the other.                                               *)
(***************************************************************************)
EXTENDS Authenticate, TLAPS

(***************************************************************************)
(* One attempt                                                             *)
(***************************************************************************)

\* The state both ends have when the first message fits, before its tag.
Asked ==
  mix_key(mix_hash(new(Pins[pin]), <<"point", ClientPoint(attempts)>>),
          Shared(ClientPoint(attempts), Pins[pin]))

\* The state both ends have when the reply fits, before its tag.
Agreed ==
  mix_key(mix_hash(Hashed(Asked), <<"point", NodePoint(attempts)>>),
          Shared(ClientPoint(attempts), NodePoint(attempts)))

Key(half) == <<Agreed.ck, half>>

\* The session of the client after it sealed a and opened b records.
Ours(a, b) ==
  [seal |-> [key |-> Key(1), nonce |-> a], open |-> [key |-> Key(2), nonce |-> b],
   hash |-> Hashed(Agreed).h]

\* The node after it opened and sealed n records.
Theirs(where, n) ==
  [at |-> where, state |-> Hashed(Agreed),
   session |-> [seal |-> [key |-> Key(2), nonce |-> n],
                open |-> [key |-> Key(1), nonce |-> n], hash |-> Hashed(Agreed).h]]

\* Every message as it is sent, and as it may arrive.
Junk == <<"junk">>
Preface == [kind |-> "preface", good |-> TRUE]
Hello == [kind |-> "hello", good |-> TRUE, point |-> ClientPoint(attempts), tag |-> Tag(Asked)]
Header == [kind |-> "header", good |-> TRUE]
Reply == [kind |-> "message", point |-> NodePoint(attempts), tag |-> Tag(Agreed)]
Question == Record([key |-> Key(1), nonce |-> 0], Hashed(Agreed).h, "HELLO")
Offer == Record([key |-> Key(2), nonce |-> 0], Hashed(Agreed).h, Node.offer)

AnyPreface == [kind : {"preface"}, good : BOOLEAN]
AnyHello == [kind : {"hello"}, good : BOOLEAN,
             point : {ZeroPoint, Garbled, ClientPoint(attempts)}, tag : {Junk, Tag(Asked)}]
AnyHeader == [kind : {"header"}, good : BOOLEAN]
AnyReply == [kind : {"message"}, point : {ZeroPoint, Garbled, NodePoint(attempts)},
             tag : {Junk, Tag(Agreed)}]
AnyQuestion == {[Question EXCEPT !.hash = x] : x \in {<<>>, Hashed(Agreed).h}}
AnyOffer == {[Offer EXCEPT !.hash = x] : x \in {<<>>, Hashed(Agreed).h}}

\* One message on its way, damaged only if something went wrong.
One(q, any, sent) == \E m \in any : q = <<m>> /\ (~hit => m = sent)

Two(q, any, sent, anyNext, sentNext) ==
  \E m \in any, n \in anyNext : q = <<m, n>> /\ (~hit => m = sent /\ n = sentNext)

\* A node hangs up on an undamaged message only if the pin is not its key.
PeerFair == "at" \in DOMAIN peer /\ (peer.at = "gone" => hit \/ Pins[pin] # Node.static)

Resting ==
  /\ pc \in {"pin", "open", "failed"}
  /\ peer = NoPeer /\ up = <<>> /\ down = <<>> /\ ~hit
  /\ state = NoState /\ session = NoSession

Opening ==
  /\ state = NoState /\ session = NoSession /\ down = <<>>
  /\ \/ pc = "preface" /\ peer.at = "mux" /\ up = <<>>
     \/ pc = "hello" /\ peer.at = "mux" /\ One(up, AnyPreface, Preface)
     \/ pc = "hello" /\ peer.at \in {"hello", "gone"} /\ up = <<>>

Asking ==
  /\ pc = "header" /\ state = Hashed(Asked) /\ session = NoSession /\ down = <<>>
  /\ \/ peer.at = "mux" /\ Two(up, AnyPreface, Preface, AnyHello, Hello)
     \/ peer.at \in {"hello", "gone"} /\ One(up, AnyHello, Hello)
     \/ peer.at = "gone" /\ up = <<>>

Replied ==
  /\ state = Hashed(Asked) /\ session = NoSession /\ up = <<>>
  /\ peer = Theirs("negotiate", 0)
  /\ \/ pc = "header" /\ Two(down, AnyHeader, Header, AnyReply, Reply)
     \/ pc = "message" /\ One(down, AnyReply, Reply)

Sharing ==
  /\ state = Hashed(Agreed)
  /\ \/ /\ pc = "negotiate" /\ session = Ours(0, 0) /\ peer = Theirs("negotiate", 0)
        /\ up = <<>> /\ down = <<>>
     \/ /\ pc = "answer" /\ session = Ours(1, 0) /\ peer = Theirs("negotiate", 0)
        /\ One(up, AnyQuestion, Question) /\ down = <<>>
     \/ /\ pc = "answer" /\ session = Ours(1, 0) /\ peer = Theirs("gone", 0)
        /\ up = <<>> /\ down = <<>>
     \/ /\ pc = "answer" /\ session = Ours(1, 0) /\ peer = Theirs("up", 1)
        /\ up = <<>> /\ One(down, AnyOffer, Offer)
     \/ /\ pc = "connected" /\ session = Ours(1, 1) /\ peer = Theirs("up", 1)
        /\ up = <<>> /\ down = <<>> /\ Accepts(Kind, Node.offer)

\* Where an attempt is.  From the reply on, the node holds the pinned key.
Flow ==
  /\ Resting \/ Opening \/ Asking \/ Replied \/ Sharing
  /\ Replied \/ Sharing => Node.static = Pins[pin]
  /\ PeerFair

(***************************************************************************)
(* The loops over pins and endpoints                                       *)
(***************************************************************************)

\* What never changes.
Given ==
  /\ config \in Configs
  /\ list \in Candidates(config.endpoints, config.mode)
  /\ list \in Seq(Kinds)
  /\ nodes \in [DOMAIN list -> [static : Statics, offer : config.offers]]

\* Attempts there can be up to this pin and endpoint.
Tried(p, a) == (p - 1) * Len(list) + a

Loops ==
  /\ attempts \in Nat /\ faults \in 0 .. config.faults /\ hit \in BOOLEAN
  /\ failures \subseteq [pin : DOMAIN Pins, at : DOMAIN list, hit : BOOLEAN]
  /\ \/ pc = "failed" /\ attempts = 0 /\ (Pins = <<>> \/ list = <<>>) /\ pin = 1 /\ at = 1
     \/ /\ pin \in DOMAIN Pins /\ at \in DOMAIN list
        /\ pc = "pin" => at = 1
        /\ attempts <= Tried(pin, at)
        /\ pc \in {"pin", "open"} => attempts < Tried(pin, at)
        /\ pc = "failed" => pin = Len(Pins)
        /\ \A a \in DOMAIN list : a < at => \E f \in failures : f.pin = pin /\ f.at = a

ConnectInv == Given /\ Flow /\ Loops /\ FailedForCause

(***************************************************************************)
(* The calls on the Client                                                 *)
(***************************************************************************)

\* The requests a call may have sent when it is at s.
Sent(s) ==
  IF s \in {"idle", "begin"} THEN {}
  ELSE IF s \in {"auth", "joining", "command"} THEN {"auth"}
  ELSE IF s \in {"login", "join"} THEN {"auth", s}
  ELSE IF s = "query" THEN {"query"}
  ELSE Waiting

\* Each request is sent once, later calls follow the entry, and from the first
\* request on the connection stands and the node has what the entry needs.
Order ==
  /\ AuthTypeOK
  /\ \A i \in DOMAIN wire : wire[i].kind \in Sent(task[wire[i].task])
  /\ task[0] \in {"idle", "begin", "auth", "joining", "join", "ok", "error"}
  /\ \A t \in Tasks : t # 0 /\ task[t] # "idle" => task[0] = "ok"
  /\ \A t \in Tasks : t # 0 => task[t] \notin {"begin", "joining", "join"}
  /\ task[0] \notin {"idle", "error"} => pc = "connected" /\ socket \in {"open", "lost"}
  /\ wire # <<>> => pc = "connected"
  /\ wire # <<>> \/ task[0] \notin {"idle", "begin", "error"} =>
       Needs(Do(0)) \subseteq Node.offer.features

\* Nothing is taken for accepted that the node has not accepted.
Accepted ==
  /\ principal # None => seat # None
  /\ \A t \in Tasks :
       \/ task[t] \in {"joining", "command", "login", "join", "query"}
       \/ task[t] = "auth" /\ answer[t] = "yes"
       => seat # None
  /\ \A i \in DOMAIN wire : wire[i].kind # "auth" => seat # None

\* The call t has an answer that will set the principal.
Decided(t) == task[t] \in {"auth", "login"} /\ answer[t] # None

\* Calls made one after the other: one is under way, what is on the wire is
\* its request, and between the node's answer and set_principal alone do
\* principal and seat differ.
InTurn ==
  /\ ~config.overlap
  /\ \A t \in Tasks : task[t] # "error"
  => /\ \A t, u \in Tasks : Active(t) /\ Active(u) => t = u
     /\ \A i \in DOMAIN wire :
          task[wire[i].task] = wire[i].kind /\ answer[wire[i].task] = None
     /\ \A t \in Tasks : Decided(t) /\ answer[t] = "yes" => seat = Speaker(t, task[t])
     /\ (\A t \in Tasks : ~Decided(t)) => principal = seat

AuthInv == ConnectInv /\ Order /\ Accepted /\ InTurn

-----------------------------------------------------------------------------
(* Sequences and records.                                                  *)

\* The lengths of tuples.
LEMMA Lengths ==
  ASSUME NEW a, NEW b, NEW c, NEW d, NEW e
  PROVE  /\ Len(<<>>) = 0 /\ Len(<<a>>) = 1 /\ Len(<<a, b>>) = 2
         /\ Len(<<a, b, c>>) = 3 /\ Len(<<a, b, c, d, e>>) = 5
         /\ Len(<<>>) <= 2 /\ Len(<<a>>) <= 2 /\ Len(<<a, b>>) <= 2
OBVIOUS

\* Numbers up to a, and one above them.
LEMMA Below ==
  ASSUME NEW a \in Nat, NEW b \in Nat, NEW c \in 1 .. a + b
  PROVE  /\ c \notin 1 .. a => c > a
         /\ c > a => \A n \in 1 .. a : n \in 1 .. a + b /\ n < c
OBVIOUS

\* Counting on within a bound.
LEMMA OneMore == ASSUME NEW b \in Nat, NEW a \in 0 .. b, a < b PROVE a + 1 \in 0 .. b
OBVIOUS

\* Changing one value of a function keeps its type.
LEMMA Put ==
  ASSUME NEW S, NEW V, NEW f \in [S -> V], NEW x \in S, NEW v \in V
  PROVE  [f EXCEPT ![x] = v] \in [S -> V]
OBVIOUS

\* The empty sequence and the first numbers.
LEMMA Empty ==
  /\ DOMAIN <<>> = {} /\ \A S : <<>> \in Seq(S)
  /\ 0 \in 0 .. 1 /\ 1 \in 0 .. 1 /\ 0 \in Nat /\ 0 < 1 /\ 0 <= 1
OBVIOUS

\* What is in a queue after something was added.
LEMMA OnWire ==
  ASSUME NEW S, NEW q \in Seq(S), NEW m \in S
  PROVE  /\ Append(q, m) \in Seq(S)
         /\ \A i \in DOMAIN Append(q, m) :
              (i \in DOMAIN q /\ Append(q, m)[i] = q[i]) \/ (i = Len(q) + 1 /\ Append(q, m)[i] = m)
OBVIOUS

\* What is in a queue after its head was taken.
LEMMA OffWire ==
  ASSUME NEW S, NEW q \in Seq(S), q # <<>>
  PROVE  /\ Tail(q) \in Seq(S) /\ 1 \in DOMAIN q /\ Head(q) = q[1] /\ q[1] \in S
         /\ \A i \in DOMAIN Tail(q) : i + 1 \in DOMAIN q /\ i + 1 # 1 /\ Tail(q)[i] = q[i + 1]
OBVIOUS

\* What is new to a sequence is in it once.
LEMMA OnceOnWire ==
  ASSUME NEW S, NEW q \in Seq(S), NEW m \in S,
         \A i \in DOMAIN q : q[i] # m,
         \A i, j \in DOMAIN q : q[i] = q[j] => i = j
  PROVE  \A i, j \in DOMAIN Append(q, m) : Append(q, m)[i] = Append(q, m)[j] => i = j
OBVIOUS

\* The fields of a request and of a symmetric state.
LEMMA Fields ==
  /\ \A t, k : [task |-> t, kind |-> k].task = t /\ [task |-> t, kind |-> k].kind = k
  /\ \A c, h, k, n : LET s == [ck |-> c, h |-> h, key |-> k, n |-> n]
                     IN  s.ck = c /\ s.h = h /\ s.n = n
OBVIOUS

\* Requests with the same fields are the same.
LEMMA SameFields ==
  ASSUME NEW T, NEW K, NEW x \in [task : T, kind : K], NEW y \in [task : T, kind : K],
         x.task = y.task, x.kind = y.kind
  PROVE  x = y
OBVIOUS

\* The sessions of both ends, field by field.
LEMMA SessionFields ==
  /\ \A a, b : /\ Ours(a, b).seal.nonce = a /\ Ours(a, b).open.nonce = b
               /\ Ours(a, b).seal.key = Key(1) /\ Ours(a, b).open.key = Key(2)
               /\ Ours(a, b).hash = Hashed(Agreed).h
  /\ \A w, n : /\ Theirs(w, n).session.seal.nonce = n /\ Theirs(w, n).session.open.nonce = n
               /\ Theirs(w, n).session.seal.key = Key(2) /\ Theirs(w, n).session.open.key = Key(1)
               /\ Theirs(w, n).session.hash = Hashed(Agreed).h
               /\ Theirs(w, n).at = w /\ Theirs(w, n)'.at = w
  /\ NoSession.seal.nonce = 0 /\ NoSession.open.nonce = 0 /\ NoPeer.at = "none"
  /\ Key(1) # Key(2)
BY DEF Ours, Theirs, NoSession, NoCipher, NoPeer, Key

\* The nonces of the sessions that occur.
LEMMA SessionNonces ==
  /\ Ours(0, 0).seal.nonce = 0 /\ Ours(0, 0).open.nonce = 0
  /\ Ours(1, 0).seal.nonce = 1 /\ Ours(1, 0).open.nonce = 0
  /\ Ours(1, 1).seal.nonce = 1 /\ Ours(1, 1).open.nonce = 1
  /\ Theirs("up", 1).session.open.nonce = 1 /\ Theirs("up", 1).session.seal.nonce = 1
BY SessionFields

\* Sessions of the two forms have hash and keys in common.
LEMMA SessionKeys ==
  ASSUME NEW a, NEW b, NEW w, NEW n, session = Ours(a, b), peer = Theirs(w, n)
  PROVE  /\ session.hash = peer.session.hash
         /\ session.seal.key = peer.session.open.key
         /\ session.open.key = peer.session.seal.key
         /\ session.seal.key = Key(1) /\ session.open.key = Key(2)
BY SessionFields

\* The node after it opened and sealed its first record.
LEMMA TheirsUsed ==
  LET p == Theirs("negotiate", 0)
  IN  Theirs("up", 1) = [at |-> "up", state |-> p.state,
                         session |-> [seal |-> Used(p.session.seal), open |-> Used(p.session.open),
                                      hash |-> p.session.hash]]
BY DEF Theirs, Used

\* A record whose hash is replaced by the same is the same.
LEMMA RecordKept ==
  ASSUME NEW c, NEW h, NEW d
  PROVE  [Record(c, h, d) EXCEPT !.hash = h] = Record(c, h, d)
BY DEF Record

\* The lists a transport policy allows.
LEMMA AutoCandidates ==
  ASSUME NEW l, NEW c \in Candidates(l, "auto")
  PROVE  \E raw \in Raw(l), m5oh \in M5oh(l) : c = raw \o m5oh
BY DEF Candidates, select_endpoint

\* The list that each mode leads to.
LEMMA CandidatesOf ==
  ASSUME NEW l, NEW m, NEW c \in Candidates(l, m)
  PROVE  /\ m = "client" => c = l
         /\ m = "auto" => \E raw \in Raw(l), m5oh \in M5oh(l) : c = raw \o m5oh
         /\ m = "mst5" => c \in Raw(l)
         /\ m \notin {"client", "auto", "mst5"} => c \in M5oh(l)
BY DEF Candidates, select_endpoint

-----------------------------------------------------------------------------
(* Points, hashes and tags.                                                *)

\* A sequence of known length is a tuple.
LEMMA Tuples ==
  ASSUME NEW S, NEW q \in Seq(S)
  PROVE  /\ Len(q) = 1 => q = <<q[1]>>
         /\ Len(q) = 2 => q = <<q[1], q[2]>>
         /\ Len(q) = 3 => q = <<q[1], q[2], q[3]>>
         /\ Len(q) = 4 => q = <<q[1], q[2], q[3], q[4]>>
         /\ Len(q) = 5 => q = <<q[1], q[2], q[3], q[4], q[5]>>
OBVIOUS

\* Appending to a tuple.
LEMMA Appended ==
  ASSUME NEW a, NEW b, NEW c, NEW d
  PROVE  /\ Append(<<>>, a) = <<a>>
         /\ Append(<<a>>, b) = <<a, b>>
         /\ Append(<<a, b>>, c) = <<a, b, c>>
         /\ Append(<<a, b, c>>, d) = <<a, b, c, d>>
<1> DEFINE S == {a, b, c, d}
<1>1. a \in S /\ b \in S /\ c \in S /\ d \in S
  OBVIOUS
<1> HIDE DEF S
<1>2. Append(<<>>, a) = <<a>>
  <2>1. Append(<<>>, a) \in Seq(S) /\ Len(Append(<<>>, a)) = 1
    BY <1>1
  <2>2. /\ Append(<<>>, a)[1] = a
    BY <1>1
  <2> QED BY <2>1, <2>2, Tuples
<1>3. Append(<<a>>, b) = <<a, b>>
  <2>1. Append(<<a>>, b) \in Seq(S) /\ Len(Append(<<a>>, b)) = 2
    BY <1>1
  <2>2. /\ Append(<<a>>, b)[1] = a
        /\ Append(<<a>>, b)[2] = b
    BY <1>1
  <2> QED BY <2>1, <2>2, Tuples, ZenonT(30)
<1>4. Append(<<a, b>>, c) = <<a, b, c>>
  <2>1. Append(<<a, b>>, c) \in Seq(S) /\ Len(Append(<<a, b>>, c)) = 3
    BY <1>1
  <2>2. /\ Append(<<a, b>>, c)[1] = a
        /\ Append(<<a, b>>, c)[2] = b
        /\ Append(<<a, b>>, c)[3] = c
    BY <1>1
  <2> QED BY <2>1, <2>2, Tuples, ZenonT(30)
<1>5. Append(<<a, b, c>>, d) = <<a, b, c, d>>
  <2>1. Append(<<a, b, c>>, d) \in Seq(S) /\ Len(Append(<<a, b, c>>, d)) = 4
    BY <1>1
  <2>2. /\ Append(<<a, b, c>>, d)[1] = a
        /\ Append(<<a, b, c>>, d)[2] = b
        /\ Append(<<a, b, c>>, d)[3] = c
        /\ Append(<<a, b, c>>, d)[4] = d
    BY <1>1
  <2> QED BY <2>1, <2>2, Tuples, ZenonT(30)
<1> QED BY <1>2, <1>3, <1>4, <1>5

\* Appending a fifth element.
LEMMA AppendedFifth ==
  ASSUME NEW a, NEW b, NEW c, NEW d, NEW e
  PROVE  Append(<<a, b, c, d>>, e) = <<a, b, c, d, e>>
<1> DEFINE S == {a, b, c, d, e}
<1>1. a \in S /\ b \in S /\ c \in S /\ d \in S /\ e \in S
  OBVIOUS
<1> HIDE DEF S
<1>2. Append(<<a, b, c, d>>, e) \in Seq(S) /\ Len(Append(<<a, b, c, d>>, e)) = 5
  BY <1>1
<1>3. /\ Append(<<a, b, c, d>>, e)[1] = a
      /\ Append(<<a, b, c, d>>, e)[2] = b
      /\ Append(<<a, b, c, d>>, e)[3] = c
      /\ Append(<<a, b, c, d>>, e)[4] = d
      /\ Append(<<a, b, c, d>>, e)[5] = e
  BY <1>1
<1> QED BY <1>2, <1>3, Tuples, ZenonT(30)

\* The state after the first point and secret are mixed in.
LEMMA FirstForm ==
  ASSUME NEW p, NEW e, NEW x
  PROVE  mix_key(mix_hash(new(p), <<"point", e>>), x) =
           [ck |-> <<x>>, h |-> <<<<"point", p>>, <<"point", e>>>>,
            key |-> <<x>>, n |-> 0]
<1>1. new(p) = [ck |-> <<>>, h |-> <<<<"point", p>>>>, key |-> <<>>, n |-> 0]
  BY Appended DEF new, mix_hash, NoState
<1>2. mix_hash(new(p), <<"point", e>>) =
        [ck |-> <<>>, h |-> <<<<"point", p>>, <<"point", e>>>>, key |-> <<>>, n |-> 0]
  BY <1>1, Appended DEF mix_hash
<1>3. Append(<<>>, x) = <<x>>
  BY Appended, ZenonT(30)
<1>4. mix_hash(new(p), <<"point", e>>).ck = <<>>
      /\ mix_hash(new(p), <<"point", e>>).h = <<<<"point", p>>, <<"point", e>>>>
  BY <1>2
<1> QED BY <1>3, <1>4, ZenonT(30) DEF mix_key

\* The state after a tag.
LEMMA HashedForm ==
  ASSUME NEW c, NEW h, NEW k
  PROVE  Hashed([ck |-> c, h |-> h, key |-> k, n |-> 0]) =
           [ck |-> c, h |-> Append(h, <<"tag", k, 0, h>>), key |-> k, n |-> 1]
BY DEF Hashed, mix_hash, Tag

\* The state after the second point and secret are mixed in.
LEMMA SecondForm ==
  ASSUME NEW x, NEW a, NEW b, NEW c, NEW e, NEW y, NEW k
  PROVE  mix_key(mix_hash([ck |-> <<x>>, h |-> <<a, b, c>>, key |-> k, n |-> 1],
                          <<"point", e>>), y) =
           [ck |-> <<x, y>>, h |-> <<a, b, c, <<"point", e>>>>, key |-> <<x, y>>, n |-> 0]
BY Appended DEF mix_key, mix_hash

\* Asked and Agreed spelled out.
LEMMA AskedForm ==
  LET x == Shared(ClientPoint(attempts), Pins[pin])
      a == <<"point", Pins[pin]>>
      b == <<"point", ClientPoint(attempts)>>
  IN /\ Asked = [ck |-> <<x>>, h |-> <<a, b>>, key |-> <<x>>, n |-> 0]
     /\ Tag(Asked) = <<"tag", <<x>>, 0, <<a, b>>>>
     /\ Hashed(Asked) = [ck |-> <<x>>, h |-> <<a, b, Tag(Asked)>>, key |-> <<x>>, n |-> 1]
<1> DEFINE x == Shared(ClientPoint(attempts), Pins[pin])
           a == <<"point", Pins[pin]>>
           b == <<"point", ClientPoint(attempts)>>
<1>1. Asked = [ck |-> <<x>>, h |-> <<a, b>>, key |-> <<x>>, n |-> 0]
  BY FirstForm DEF Asked
<1> HIDE DEF x, a, b
<1>2. Tag(Asked) = <<"tag", <<x>>, 0, <<a, b>>>>
  BY <1>1 DEF Tag
<1>3. Hashed(Asked) = [ck |-> <<x>>, h |-> Append(<<a, b>>, Tag(Asked)), key |-> <<x>>, n |-> 1]
  BY <1>1, <1>2, HashedForm, ZenonT(30)
<1>4. Append(<<a, b>>, Tag(Asked)) = <<a, b, Tag(Asked)>>
  BY Appended, ZenonT(30)
<1> QED BY <1>1, <1>2, <1>3, <1>4, ZenonT(30) DEF x, a, b

\* The second state, likewise.
LEMMA AgreedForm ==
  LET x == Shared(ClientPoint(attempts), Pins[pin])
      y == Shared(ClientPoint(attempts), NodePoint(attempts))
      a == <<"point", Pins[pin]>>
      b == <<"point", ClientPoint(attempts)>>
      d == <<"point", NodePoint(attempts)>>
  IN /\ Agreed = [ck |-> <<x, y>>, h |-> <<a, b, Tag(Asked), d>>, key |-> <<x, y>>, n |-> 0]
     /\ Tag(Agreed) = <<"tag", <<x, y>>, 0, <<a, b, Tag(Asked), d>>>>
     /\ Hashed(Agreed) = [ck |-> <<x, y>>, h |-> <<a, b, Tag(Asked), d, Tag(Agreed)>>,
                          key |-> <<x, y>>, n |-> 1]
<1> DEFINE x == Shared(ClientPoint(attempts), Pins[pin])
           y == Shared(ClientPoint(attempts), NodePoint(attempts))
           a == <<"point", Pins[pin]>>
           b == <<"point", ClientPoint(attempts)>>
           c == Tag(Asked)
           d == <<"point", NodePoint(attempts)>>
<1>1. Agreed = [ck |-> <<x, y>>, h |-> <<a, b, c, d>>, key |-> <<x, y>>, n |-> 0]
  <2>1. Hashed(Asked) = [ck |-> <<x>>, h |-> <<a, b, c>>, key |-> <<x>>, n |-> 1]
    BY AskedForm
  <2> HIDE DEF x, a, b, c
  <2> QED BY <2>1, SecondForm DEF Agreed
<1> HIDE DEF x, y, a, b, c, d
<1>2. Tag(Agreed) = <<"tag", <<x, y>>, 0, <<a, b, c, d>>>>
  BY <1>1 DEF Tag
<1>3. Hashed(Agreed) = [ck |-> <<x, y>>, h |-> Append(<<a, b, c, d>>, Tag(Agreed)),
                        key |-> <<x, y>>, n |-> 1]
  BY <1>1, <1>2, HashedForm, ZenonT(30)
<1>4. Append(<<a, b, c, d>>, Tag(Agreed)) = <<a, b, c, d, Tag(Agreed)>>
  BY AppendedFifth
<1> QED BY <1>1, <1>2, <1>3, <1>4, ZenonT(30) DEF x, y, a, b, c, d

\* How much has been mixed into a state.
LEMMA StateSizes ==
  ASSUME NEW s \in {NoState, Hashed(Asked), Hashed(Agreed)}
  PROVE  Len(s.ck) <= 2 /\ s.n \in 0 .. 1 /\ Len(s.h) \in {0, 3, 5}
<1>1. CASE s = NoState
  BY <1>1, Lengths DEF NoState
<1>2. CASE s = Hashed(Asked)
  <2> DEFINE x == Shared(ClientPoint(attempts), Pins[pin])
             a == <<"point", Pins[pin]>>
             b == <<"point", ClientPoint(attempts)>>
  <2>1. Hashed(Asked) = [ck |-> <<x>>, h |-> <<a, b, Tag(Asked)>>, key |-> <<x>>, n |-> 1]
    BY AskedForm, ZenonT(30)
  <2> HIDE DEF x, a, b
  <2>2. Len(s.ck) = 1 /\ s.n = 1 /\ Len(s.h) = 3
    BY <1>2, <2>1, Lengths, Fields
  <2> QED BY <2>2
<1>3. CASE s = Hashed(Agreed)
  <2> DEFINE x == Shared(ClientPoint(attempts), Pins[pin])
             y == Shared(ClientPoint(attempts), NodePoint(attempts))
             a == <<"point", Pins[pin]>>
             b == <<"point", ClientPoint(attempts)>>
             d == <<"point", NodePoint(attempts)>>
  <2>1. Hashed(Agreed) = [ck |-> <<x, y>>, h |-> <<a, b, Tag(Asked), d, Tag(Agreed)>>,
                          key |-> <<x, y>>, n |-> 1]
    BY AgreedForm, ZenonT(30)
  <2> HIDE DEF x, y, a, b, d
  <2>2. Len(s.ck) = 2 /\ s.n = 1 /\ Len(s.h) = 5
    BY <1>3, <2>1, Lengths, Fields
  <2> QED BY <2>2
<1> QED BY <1>1, <1>2, <1>3, ZenonT(30)

\* No tag is junk.
LEMMA TagNotJunk == ASSUME NEW s PROVE Tag(s) # Junk
BY DEF Tag, Junk

\* An end that finds the first tag right has the same static key and point.
LEMMA FirstFits ==
  ASSUME NEW p, NEW e, NEW x,
         Tag(mix_key(mix_hash(new(p), <<"point", e>>), x)) = Tag(Asked)
  PROVE  p = Pins[pin] /\ e = ClientPoint(attempts)
<1> DEFINE s == mix_key(mix_hash(new(p), <<"point", e>>), x)
<1>3. s = [ck |-> <<x>>, h |-> <<<<"point", p>>, <<"point", e>>>>, key |-> <<x>>, n |-> 0]
  BY FirstForm
<1> HIDE DEF s
<1>1. Tag(s) = <<"tag", <<x>>, 0, <<<<"point", p>>, <<"point", e>>>>>>
  BY <1>3 DEF Tag
<1>2. <<<<"point", p>>, <<"point", e>>>>
        = <<<<"point", Pins[pin]>>, <<"point", ClientPoint(attempts)>>>>
  BY <1>1, AskedForm DEF s
<1> QED BY <1>2

\* An end that finds the second tag right has the same point of the node.
LEMMA SecondFits ==
  ASSUME NEW e, NEW y,
         Tag(mix_key(mix_hash(Hashed(Asked), <<"point", e>>), y)) = Tag(Agreed)
  PROVE  e = NodePoint(attempts)
<1> DEFINE x == Shared(ClientPoint(attempts), Pins[pin])
           a == <<"point", Pins[pin]>>
           b == <<"point", ClientPoint(attempts)>>
<1>0. Hashed(Asked) = [ck |-> <<x>>, h |-> <<a, b, Tag(Asked)>>, key |-> <<x>>, n |-> 1]
  BY AskedForm, ZenonT(30)
<1> HIDE DEF x, a, b
<1>1. mix_key(mix_hash(Hashed(Asked), <<"point", e>>), y)
        = [ck |-> <<x, y>>, h |-> <<a, b, Tag(Asked), <<"point", e>>>>, key |-> <<x, y>>, n |-> 0]
  BY <1>0, SecondForm
<1>2. Tag(mix_key(mix_hash(Hashed(Asked), <<"point", e>>), y))
        = <<"tag", <<x, y>>, 0, <<a, b, Tag(Asked), <<"point", e>>>>>>
  BY <1>1 DEF Tag
<1>3. <<a, b, Tag(Asked), <<"point", e>>>> = <<a, b, Tag(Asked), <<"point", NodePoint(attempts)>>>>
  BY <1>2, AgreedForm DEF a, b, x
<1> QED BY <1>3, ZenonT(30)

\* Both ends compute the same secret.
LEMMA SharedCommutes == ASSUME NEW a, NEW b PROVE Shared(a, b) = Shared(b, a)
BY DEF Shared

-----------------------------------------------------------------------------
(* The loops.                                                              *)

\* Attempts up to a pair are at most one for every pair.
LEMMA TriedBound ==
  ASSUME NEW P \in Nat, NEW L \in Nat, NEW p \in 1 .. P, NEW a \in 1 .. L
  PROVE  (p - 1) * L + a \in Nat /\ (p - 1) * L + a <= P * L
<1>1. PICK k \in Nat : P = p + k
  <2>1. P - p \in Nat /\ P = p + (P - p)
    OBVIOUS
  <2> QED BY <2>1
<1>2. P * L = (p - 1) * L + L + k * L
  BY <1>1
<1>3. k * L \in Nat /\ (p - 1) * L \in Nat
  BY <1>1
<1> QED BY <1>2, <1>3

\* The first endpoint of the next pin comes after the last one of this pin.
LEMMA TriedNext ==
  ASSUME NEW L \in Nat, NEW p \in Nat \ {0}
  PROVE  ((p + 1) - 1) * L + 1 = ((p - 1) * L + L) + 1
OBVIOUS

\* The number of a pair is a natural number, and so are its parts.
LEMMA TriedNat ==
  ASSUME NEW P \in Nat, NEW L \in Nat, NEW p \in 1 .. P, NEW a \in 1 .. L
  PROVE  /\ (p - 1) * L \in Nat /\ (p - 1) * L + a \in Nat
         /\ p \in Nat \ {0} /\ a \in Nat
OBVIOUS

\* The point of order one is no node's static key.
LEMMA ZeroIsNoKey == ZeroPoint \notin 2 .. 99
BY DEF ZeroPoint

\* An attempt fits under the next pair's number.
LEMMA OneMoreTried ==
  ASSUME NEW n \in Nat, NEW t \in Nat, n <= t, NEW u, u = t + 1
  PROVE  u \in Nat /\ n < u /\ n <= u
OBVIOUS

\* What is given has its types.
LEMMA GivenTypes ==
  ASSUME Given
  PROVE  /\ Pins \in Seq(Statics \cup {BadPin, ZeroPoint})
         /\ Len(Pins) \in Nat /\ DOMAIN Pins = 1 .. Len(Pins)
         /\ Len(list) \in Nat /\ DOMAIN list = 1 .. Len(list)
         /\ \A a \in DOMAIN list : nodes[a].static \in 2 .. 99
         /\ config.faults \in Nat
<1>1. Pins \in Seq(Statics \cup {BadPin, ZeroPoint}) /\ config.faults \in Nat
  BY ConnectAssumption DEF Given, Pins
<1>2. list \in Seq(Kinds)
  BY DEF Given
<1>3. \A a \in DOMAIN list : nodes[a].static \in 2 .. 99
  BY ConnectAssumption, ZenonT(30) DEF Given
<1> QED BY <1>1, <1>2, <1>3

\* A reason to give up a pair.
Cause(p, a) ==
  \/ list[a] = "bad"
  \/ Pins[p] # nodes[a].static
  \/ ~Accepts(list[a], nodes[a].offer)

\* An attempt that fails for a reason leads to the next pair, or to the end.
LEMMA FailStep ==
  ASSUME ConnectInv, NEW broken \in BOOLEAN, pc # "failed", Fail(broken),
         broken \/ Cause(pin, at)
  PROVE  ConnectInv'
<1> DEFINE f == [pin |-> pin, at |-> at, hit |-> broken]
<1>1. /\ Given /\ Loops /\ FailedForCause
      /\ UNCHANGED fixed /\ UNCHANGED <<attempts, faults>>
      /\ failures' = failures \cup {f}
      /\ hit' = FALSE
  BY DEF ConnectInv, Fail
<1>2. Given' /\ Pins' = Pins
  BY <1>1 DEF Given, fixed, Pins
<1>3. /\ pin \in DOMAIN Pins /\ at \in DOMAIN list /\ attempts \in Nat
      /\ attempts <= Tried(pin, at)
      /\ faults \in 0 .. config.faults
      /\ failures \subseteq [pin : DOMAIN Pins, at : DOMAIN list, hit : BOOLEAN]
      /\ \A a \in DOMAIN list : a < at => \E g \in failures : g.pin = pin /\ g.at = a
  BY <1>1, ZenonT(30) DEF Loops
<1>4. /\ Len(Pins) \in Nat /\ DOMAIN Pins = 1 .. Len(Pins)
      /\ Len(list) \in Nat /\ DOMAIN list = 1 .. Len(list)
  BY <1>1, GivenTypes
<1>5. Flow'
  <2>1. Resting'
    BY ZenonT(30) DEF Fail, Resting
  <2>2. ~Replied' /\ ~Sharing' /\ PeerFair'
    BY <2>1 DEF Resting, Replied, Sharing, PeerFair, NoPeer
  <2> QED BY <2>1, <2>2 DEF Flow
<1>6. f \in [pin : DOMAIN Pins, at : DOMAIN list, hit : BOOLEAN]
  BY <1>3
<1>7. Loops'
  <2>1. failures' \subseteq [pin : DOMAIN Pins, at : DOMAIN list, hit : BOOLEAN]
    BY <1>1, <1>3, <1>6
  <2>2. /\ attempts' \in Nat /\ faults' \in 0 .. config'.faults /\ hit' \in BOOLEAN
        /\ failures' \subseteq [pin : DOMAIN Pins', at : DOMAIN list', hit : BOOLEAN]
    BY <1>1, <1>2, <1>3, <2>1, ZenonT(30) DEF fixed
  <2>3. CASE at < Len(list)
    <3>1. pc' = "open" /\ at' = at + 1 /\ pin' = pin
      BY <2>3 DEF Fail
    <3>2. at' \in DOMAIN list' /\ pin' \in DOMAIN Pins'
      <4>1. at + 1 \in 1 .. Len(list)
        BY <1>3, <1>4, <2>3
      <4> QED BY <1>1, <1>2, <1>3, <1>4, <3>1, <4>1, ZenonT(30) DEF fixed
    <3>3. attempts' < Tried(pin, at)' /\ attempts' <= Tried(pin, at)'
      <4>1. Tried(pin, at) \in Nat /\ (pin - 1) * Len(list) \in Nat /\ at \in Nat
        BY <1>3, <1>4, TriedNat, ZenonT(30) DEF Tried
      <4>2. Tried(pin, at)' = (pin - 1) * Len(list) + (at + 1)
        BY <1>1, <3>1, ZenonT(30) DEF Tried, fixed
      <4>3. Tried(pin, at)' = Tried(pin, at) + 1
        BY <4>1, <4>2 DEF Tried
      <4>4. attempts' = attempts
        BY <1>1, ZenonT(30)
      <4> QED BY <1>3, <4>1, <4>3, <4>4, OneMoreTried, ZenonT(30)
    <3>4. \A a \in DOMAIN list' : a < at' => \E g \in failures' : g.pin = pin' /\ g.at = a
      <4> SUFFICES ASSUME NEW a \in DOMAIN list, a < at + 1
                   PROVE  \E g \in failures' : g.pin = pin /\ g.at = a
        BY <1>1, <3>1 DEF fixed
      <4>1. CASE a < at
        BY <1>1, <1>3, <4>1, ZenonT(30)
      <4>2. CASE a = at
        <5>1. f \in failures' /\ f.pin = pin /\ f.at = at
          BY <1>1, ZenonT(30)
        <5> QED BY <4>2, <5>1, ZenonT(30)
      <4>3. a \in Nat /\ at \in Nat
        BY <1>3, <1>4
      <4>4. a < at \/ a = at
        BY <4>3
      <4> QED BY <4>1, <4>2, <4>4, ZenonT(30)
    <3> QED BY <2>2, <3>1, <3>2, <3>3, <3>4, ZenonT(30) DEF Loops
  <2>4. CASE at = Len(list) /\ pin < Len(Pins)
    <3>1. pc' = "pin" /\ at' = 1 /\ pin' = pin + 1
      BY <2>4, <1>4 DEF Fail
    <3>2. at' \in DOMAIN list' /\ pin' \in DOMAIN Pins'
      <4>1. pin + 1 \in 1 .. Len(Pins) /\ 1 \in 1 .. Len(list)
        BY <1>3, <1>4, <2>4
      <4> QED BY <1>1, <1>2, <1>4, <3>1, <4>1, ZenonT(30) DEF fixed
    <3>3. attempts' < Tried(pin, at)' /\ attempts' <= Tried(pin, at)'
      <4>1. Tried(pin, at) \in Nat /\ pin \in Nat \ {0}
        BY <1>3, <1>4, TriedNat, ZenonT(30) DEF Tried
      <4>2. Tried(pin, at)' = ((pin + 1) - 1) * Len(list) + 1
        BY <1>1, <3>1, ZenonT(30) DEF Tried, fixed
      <4>3. Tried(pin, at)' = Tried(pin, at) + 1
        BY <1>4, <2>4, <4>1, <4>2, TriedNext, ZenonT(30) DEF Tried
      <4>4. attempts' = attempts
        BY <1>1, ZenonT(30)
      <4> QED BY <1>3, <4>1, <4>3, <4>4, OneMoreTried, ZenonT(30)
    <3>4. \A a \in DOMAIN list' : ~(a < at')
      BY <1>1, <1>4, <3>1 DEF fixed
    <3> QED BY <2>2, <3>1, <3>2, <3>3, <3>4, ZenonT(30) DEF Loops
  <2>5. CASE at = Len(list) /\ pin = Len(Pins)
    <3>1. pc' = "failed" /\ at' = at /\ pin' = pin
      BY <2>5, <1>4 DEF Fail
    <3>2. at' \in DOMAIN list' /\ pin' \in DOMAIN Pins' /\ pin' = Len(Pins')
      BY <1>1, <1>2, <1>3, <2>5, <3>1, ZenonT(30) DEF fixed
    <3>3. attempts' <= Tried(pin, at)'
      BY <1>1, <1>3, <3>1 DEF Tried, fixed
    <3>4. \A a \in DOMAIN list' : a < at' => \E g \in failures' : g.pin = pin' /\ g.at = a
      BY <1>1, <1>3, <3>1 DEF fixed
    <3> QED BY <2>2, <3>1, <3>2, <3>3, <3>4, ZenonT(30) DEF Loops
  <2> QED BY <1>3, <1>4, <2>3, <2>4, <2>5
<1>8. FailedForCause'
  <2> SUFFICES ASSUME NEW p \in DOMAIN Pins, NEW a \in DOMAIN list, Before(p, a)'
               PROVE  Cause(p, a) \/ [pin |-> p, at |-> a, hit |-> TRUE] \in failures'
    BY <1>1, <1>2, ZenonT(30) DEF FailedForCause, Cause, fixed
  <2>1. Before(p, a) \/ (p = pin /\ a = at)
    BY <1>3, <1>4 DEF Before, Fail
  <2>2. CASE Before(p, a)
    BY <1>1, <2>2 DEF FailedForCause, Cause
  <2>3. CASE p = pin /\ a = at
    BY <1>1, <2>3, ZenonT(30)
  <2> QED BY <2>1, <2>2, <2>3, ZenonT(30)
<1> QED BY <1>2, <1>5, <1>7, <1>8, ZenonT(30) DEF ConnectInv

\* A pin that does not decode is no node's key.
LEMMA DecodePinStep == ConnectInv /\ DecodePin => ConnectInv'
<1> SUFFICES ASSUME ConnectInv, DecodePin PROVE ConnectInv'
  OBVIOUS
<1>1. /\ Given /\ Flow /\ Loops /\ FailedForCause
      /\ pc = "pin"
      /\ UNCHANGED fixed
      /\ UNCHANGED <<at, attempts, state, session, up, down, peer, faults, hit, failures>>
  BY ZenonT(30) DEF ConnectInv, DecodePin
<1>2. Given' /\ Pins' = Pins
  BY <1>1 DEF Given, fixed, Pins
<1>3. /\ pin \in DOMAIN Pins /\ at \in DOMAIN list /\ at = 1 /\ attempts \in Nat
      /\ attempts < Tried(pin, at)
      /\ faults \in 0 .. config.faults /\ hit \in BOOLEAN
      /\ failures \subseteq [pin : DOMAIN Pins, at : DOMAIN list, hit : BOOLEAN]
  BY <1>1, ZenonT(30) DEF Loops
<1>4. /\ Len(Pins) \in Nat /\ DOMAIN Pins = 1 .. Len(Pins)
      /\ Len(list) \in Nat /\ DOMAIN list = 1 .. Len(list)
      /\ \A a \in DOMAIN list : nodes[a].static \in 2 .. 99
  BY <1>1, GivenTypes, ZenonT(30)
<1>5. Flow'
  <2>1. Resting
    BY <1>1, ZenonT(30) DEF Flow, Resting, Opening, Asking, Replied, Sharing
  <2>2. Resting'
    BY <1>1, <2>1 DEF Resting, DecodePin
  <2>3. ~Replied' /\ ~Sharing' /\ PeerFair'
    BY <2>2, ZenonT(30) DEF Resting, Replied, Sharing, PeerFair, NoPeer
  <2> QED BY <2>2, <2>3, ZenonT(30) DEF Flow
<1>6. /\ pc' \in {"pin", "open", "failed"} /\ pin' \in DOMAIN Pins
      /\ pc' = "failed" => pin' = Len(Pins)
      /\ pin' = pin \/ pin' = pin + 1
  <2>1. pin \in 1 .. Len(Pins) /\ Len(Pins) \in Nat
    BY <1>3, <1>4, ZenonT(30)
  <2>2. pin < Len(Pins) => pin + 1 \in 1 .. Len(Pins)
    BY <2>1
  <2>3. ~(pin < Len(Pins)) => pin = Len(Pins)
    BY <2>1
  <2> QED BY <1>3, <1>4, <2>2, <2>3, ZenonT(30) DEF DecodePin
<1>7. Loops'
  <2>1. Tried(pin, at)' \in Nat /\ attempts' < Tried(pin, at)'
    <3>1. CASE pin' = pin
      BY <1>1, <1>3, <1>4, <3>1, TriedBound, ZenonT(30) DEF Tried, fixed
    <3>2. CASE pin' = pin + 1
      <4>1. pin \in Nat \ {0} /\ (pin - 1) * Len(list) \in Nat /\ Len(list) \in Nat \ {0}
        BY <1>3, <1>4
      <4>2. Tried(pin, at)' = ((pin + 1) - 1) * Len(list) + 1
        BY <1>1, <1>3, <3>2, ZenonT(30) DEF Tried, fixed
      <4>3. Tried(pin, at)' = ((pin - 1) * Len(list) + Len(list)) + 1
        BY <1>4, <4>1, <4>2, TriedNext, ZenonT(30)
      <4>4. attempts' = attempts /\ attempts \in Nat /\ attempts < (pin - 1) * Len(list) + 1
        BY <1>1, <1>3, ZenonT(30) DEF Tried
      <4> HIDE <1>1, <1>3, <1>4
      <4>5. PICK b \in Nat : b = (pin - 1) * Len(list)
        BY <4>1, ZenonT(30)
      <4>6. b + Len(list) + 1 \in Nat /\ attempts < b + Len(list) + 1
        <5>1. Len(list) \in Nat /\ attempts \in Nat /\ attempts < b + 1
          BY <4>1, <4>4, <4>5, ZenonT(30)
        <5> QED BY <5>1
      <4> QED BY <4>3, <4>4, <4>5, <4>6, ZenonT(30)
    <3> QED BY <1>6, <3>1, <3>2, ZenonT(30)
  <2>2. \A a \in DOMAIN list' : ~(a < at')
    BY <1>1, <1>3, <1>4 DEF fixed
  <2>3. /\ attempts' \in Nat /\ faults' \in 0 .. config'.faults /\ hit' \in BOOLEAN
        /\ failures' \subseteq [pin : DOMAIN Pins', at : DOMAIN list', hit : BOOLEAN]
    BY <1>1, <1>2, <1>3 DEF fixed
  <2>4. attempts' <= Tried(pin, at)'
    BY <2>1, <2>3
  <2>5. /\ pin' \in DOMAIN Pins' /\ at' \in DOMAIN list' /\ at' = 1
        /\ pc' = "failed" => pin' = Len(Pins')
    BY <1>1, <1>2, <1>3, <1>6, ZenonT(30) DEF fixed
  <2> QED BY <2>1, <2>2, <2>3, <2>4, <2>5 DEF Loops
<1>8. FailedForCause'
  <2> SUFFICES ASSUME NEW p \in DOMAIN Pins, NEW a \in DOMAIN list, Before(p, a)'
               PROVE  Cause(p, a) \/ [pin |-> p, at |-> a, hit |-> TRUE] \in failures
    BY <1>1, <1>2, ZenonT(30) DEF FailedForCause, Cause, fixed
  <2>1. Before(p, a) \/ (p = pin /\ Pins[pin] = BadPin)
    BY <1>1, <1>3, <1>4 DEF Before, DecodePin
  <2>2. CASE Before(p, a)
    BY <1>1, <2>2, ZenonT(30) DEF FailedForCause, Cause
  <2>3. CASE p = pin /\ Pins[pin] = BadPin
    <3>1. nodes[a].static # BadPin
      <4>1. nodes[a].static \in 2 .. 99
        BY <1>4, ZenonT(30)
      <4> QED BY <4>1 DEF BadPin
    <3> QED BY <2>3, <3>1, ZenonT(30) DEF Cause
  <2> QED BY <2>1, <2>2, <2>3, ZenonT(30)
<1> QED BY <1>2, <1>5, <1>7, <1>8 DEF ConnectInv

\* Steps within an attempt: the pair stays, and nothing has failed.
Within ==
  /\ UNCHANGED fixed
  /\ UNCHANGED <<pin, at, failures>>
  /\ pc \notin {"pin", "failed"} /\ pc' \notin {"pin", "open", "failed"}
  /\ \/ attempts' = attempts
     \/ attempts' = attempts + 1 /\ pc = "open"

\* A step within an attempt keeps everything but its stage.
LEMMA WithinStep ==
  ASSUME ConnectInv, Within, faults' \in 0 .. config.faults, hit' \in BOOLEAN, Flow'
  PROVE  ConnectInv'
<1>1. /\ Given /\ Loops /\ FailedForCause
      /\ UNCHANGED fixed
      /\ UNCHANGED <<pin, at, failures>>
      /\ pc \notin {"pin", "failed"} /\ pc' \notin {"pin", "open", "failed"}
  BY ZenonT(30) DEF ConnectInv, Within
<1>2. Given' /\ Pins' = Pins /\ config' = config /\ list' = list /\ nodes' = nodes
  BY <1>1 DEF Given, fixed, Pins
<1>3. /\ pin \in DOMAIN Pins /\ at \in DOMAIN list /\ attempts \in Nat
      /\ attempts <= Tried(pin, at)
      /\ pc = "open" => attempts < Tried(pin, at)
      /\ failures \subseteq [pin : DOMAIN Pins, at : DOMAIN list, hit : BOOLEAN]
      /\ \A a \in DOMAIN list : a < at => \E g \in failures : g.pin = pin /\ g.at = a
  BY <1>1, ZenonT(30) DEF Loops
<1>4. Tried(pin, at)' = Tried(pin, at) /\ Tried(pin, at) \in Nat
  BY <1>1, <1>2, <1>3, GivenTypes, TriedBound DEF Tried
<1>5. attempts' \in Nat /\ attempts' <= Tried(pin, at)'
  BY <1>3, <1>4 DEF Within
<1>6. Loops'
  BY <1>1, <1>2, <1>3, <1>5 DEF Loops
<1>7. FailedForCause'
  BY <1>1, <1>2, ZenonT(30) DEF FailedForCause, Before
<1> QED BY <1>2, <1>6, <1>7 DEF ConnectInv

-----------------------------------------------------------------------------
(* The steps of an attempt.                                                *)

\* The stage of an attempt is told by where the client is.
LEMMA Stages ==
  ASSUME Flow
  PROVE  /\ pc \in {"pin", "open", "failed"} => Resting
         /\ pc \in {"preface", "hello"} => Opening
         /\ pc = "header" => Asking \/ Replied
         /\ pc = "message" => Replied
         /\ pc \in {"negotiate", "answer", "connected"} => Sharing
BY ZenonT(30) DEF Flow, Resting, Opening, Asking, Replied, Sharing

\* What the stages are told by stays, while the attempt goes on.
LEMMA SameAttempt ==
  ASSUME UNCHANGED fixed, UNCHANGED <<pin, at, attempts>>
  PROVE  /\ Asked' = Asked /\ Agreed' = Agreed
         /\ Pins' = Pins /\ Node' = Node /\ Kind' = Kind
<1>1. Pins' = Pins /\ Node' = Node /\ Kind' = Kind
  BY DEF fixed, Pins, Node, Kind
<1>2. Asked' = Asked
  BY <1>1 DEF Asked
<1> QED BY <1>1, <1>2, ZenonT(30) DEF Agreed

\* Messages are the same while the attempt is.
LEMMA SameMessages ==
  ASSUME UNCHANGED fixed, UNCHANGED <<pin, at, attempts>>
  PROVE  /\ Hello' = Hello /\ AnyHello' = AnyHello
         /\ Reply' = Reply /\ AnyReply' = AnyReply
         /\ Question' = Question /\ AnyQuestion' = AnyQuestion
         /\ Offer' = Offer /\ AnyOffer' = AnyOffer
         /\ \A a, b : Ours(a, b)' = Ours(a, b)
         /\ \A w, a : Theirs(w, a)' = Theirs(w, a)
<1>1. Asked' = Asked /\ Agreed' = Agreed /\ Node' = Node
  BY SameAttempt, ZenonT(30)
<1>2. Hello' = Hello /\ AnyHello' = AnyHello /\ Reply' = Reply /\ AnyReply' = AnyReply
  BY <1>1 DEF Hello, AnyHello, Reply, AnyReply
<1>3. Question' = Question /\ Offer' = Offer
  BY <1>1 DEF Question, Offer, Key
<1>4. AnyQuestion' = AnyQuestion /\ AnyOffer' = AnyOffer
  BY <1>1, <1>3, ZenonT(30) DEF AnyQuestion, AnyOffer
<1>5. /\ \A a, b : Ours(a, b)' = Ours(a, b)
      /\ \A w, a : Theirs(w, a)' = Theirs(w, a)
  BY <1>1 DEF Ours, Theirs, Key
<1> QED BY <1>2, <1>3, <1>4, <1>5

\* Opening a socket begins an attempt.
LEMMA OpenStep == ConnectInv /\ Open => ConnectInv'
<1> SUFFICES ASSUME ConnectInv, Open PROVE ConnectInv'
  OBVIOUS
<1>1. pc = "open" /\ Given /\ Flow /\ Loops
  BY DEF ConnectInv, Open
<1>2. Resting
  BY <1>1, Stages
<1>3. CASE Kind = "bad"
  <2>1. Fail(hit) /\ Cause(pin, at) /\ hit \in BOOLEAN
    BY <1>1, <1>3 DEF Open, Cause, Kind, Loops
  <2> QED BY <1>1, <2>1, FailStep
<1>4. CASE Kind # "bad"
  <2>1. Within /\ faults' \in 0 .. config.faults /\ hit' \in BOOLEAN
    BY <1>1, <1>4 DEF Open, Within, Loops
  <2>2. /\ Opening' /\ peer'.at \in {"mux", "hello"} /\ pc' \in {"preface", "hello"}
        /\ "at" \in DOMAIN peer'
    BY <1>2, <1>4, ZenonT(30) DEF Open, Opening, Resting, NoPeer
  <2>3. Flow'
    BY <2>2, ZenonT(30) DEF Flow, PeerFair, Replied, Sharing
  <2> QED BY <2>1, <2>3, WithinStep
<1> QED BY <1>3, <1>4

\* The route preface is sent.
LEMMA PrefaceStep == ConnectInv /\ write_router_preface => ConnectInv'
<1> SUFFICES ASSUME ConnectInv, write_router_preface PROVE ConnectInv'
  OBVIOUS
<1>1. pc = "preface" /\ pc' = "hello" /\ Flow /\ Loops
  BY DEF ConnectInv, write_router_preface
<1>2. Opening /\ up = <<>> /\ peer.at = "mux"
  BY <1>1, Stages, ZenonT(30) DEF Opening
<1>3. Within /\ faults' \in 0 .. config.faults /\ hit' \in BOOLEAN
  BY <1>1 DEF write_router_preface, Within, Loops
<1>4. up' = <<Preface>>
  BY <1>2, Appended, ZenonT(30) DEF write_router_preface, Preface
<1>5. Opening'
  <2>1. One(up, AnyPreface, Preface)'
    BY <1>4, ZenonT(30) DEF One, AnyPreface, Preface
  <2> QED BY <1>1, <1>2, <2>1 DEF Opening, write_router_preface
<1>6. Flow'
  BY <1>1, <1>2, <1>5, ZenonT(30) DEF Flow, PeerFair, Replied, Sharing, write_router_preface
<1> QED BY <1>3, <1>6, WithinStep

\* The first message; a pin of order one fails, and is no node's key.
LEMMA SendHelloStep == ConnectInv /\ SendHello => ConnectInv'
<1> SUFFICES ASSUME ConnectInv, SendHello PROVE ConnectInv'
  OBVIOUS
<1> DEFINE es == Shared(ClientPoint(attempts), Pins[pin])
<1>1. pc = "hello" /\ Given /\ Flow /\ Loops
  BY DEF ConnectInv, SendHello
<1>2. Opening
  BY <1>1, Stages
<1>3. CASE es = {}
  <2>1. Fail(hit) /\ hit \in BOOLEAN
    BY <1>1, <1>3, ZenonT(30) DEF SendHello, Loops
  <2>2. Pins[pin] = ZeroPoint
    <3>1. attempts \in Nat
      BY <1>1, ZenonT(30) DEF Loops
    <3>2. ClientPoint(attempts) # ZeroPoint
      BY <3>1 DEF ClientPoint, ZeroPoint
    <3> QED BY <1>3, <3>2, ZenonT(30) DEF Shared
  <2>3. nodes[at].static \in 2 .. 99
    BY <1>1, GivenTypes, ZenonT(30) DEF Loops
  <2>4. Cause(pin, at)
    <3> QED BY <2>2, <2>3, ZeroIsNoKey, ZenonT(30) DEF Cause
  <2> QED BY <1>1, <2>1, <2>4, FailStep, ZenonT(30)
<1>4. CASE es # {}
  <2>1. /\ UNCHANGED fixed /\ UNCHANGED <<pin, at, attempts>>
        /\ UNCHANGED <<session, down, peer, faults, hit, failures>>
        /\ pc' = "header" /\ state' = Hashed(Asked) /\ up' = Append(up, Hello)
    BY <1>4 DEF SendHello, Hello, Asked
  <2>2. Within /\ faults' \in 0 .. config.faults /\ hit' \in BOOLEAN
    BY <1>1, <2>1, ZenonT(30) DEF Within, Loops
  <2>3. Hello' = Hello /\ AnyHello' = AnyHello /\ Asked' = Asked /\ Node' = Node /\ Pins' = Pins
    BY <2>1, SameAttempt, SameMessages
  <2>4. Hello \in AnyHello
    BY DEF Hello, AnyHello
  <2>5. Asking'
    <3>1. CASE peer.at = "mux"
      <4>1. PICK m \in AnyPreface : up = <<m>> /\ (~hit => m = Preface)
        BY <1>1, <1>2, <3>1 DEF Opening, One
      <4>2. up' = <<m, Hello>>
        BY <2>1, <4>1, Appended, ZenonT(30)
      <4>3. Two(up, AnyPreface, Preface, AnyHello, Hello)'
        BY <2>1, <2>3, <2>4, <4>1, <4>2, ZenonT(30) DEF Two, AnyPreface, Preface
      <4> QED BY <1>2, <2>1, <2>3, <3>1, <4>3, ZenonT(30) DEF Asking, Opening
    <3>2. CASE peer.at # "mux"
      <4>1. up = <<>> /\ peer.at \in {"hello", "gone"}
        BY <1>1, <1>2, <3>2, ZenonT(30) DEF Opening
      <4>2. up' = <<Hello>>
        BY <2>1, <4>1, Appended, ZenonT(30)
      <4>3. One(up, AnyHello, Hello)'
        BY <2>1, <2>3, <2>4, <4>2, ZenonT(30) DEF One
      <4> QED BY <1>2, <2>1, <2>3, <4>1, <4>3, ZenonT(30) DEF Asking, Opening
    <3> QED BY <3>1, <3>2, ZenonT(30)
  <2>6. Flow'
    <3>1. ~Replied' /\ ~Sharing'
      <4>1. peer'.at \in {"mux", "hello", "gone"}
        BY <1>2, <2>1, ZenonT(30) DEF Opening
      <4> QED BY <2>1, <4>1 DEF Replied, Sharing, Theirs
    <3>2. PeerFair'
      BY <1>1, <2>1, <2>3, ZenonT(30) DEF Flow, PeerFair
    <3> QED BY <2>5, <3>1, <3>2, ZenonT(30) DEF Flow
  <2> QED BY <2>2, <2>6, WithinStep
<1> QED BY <1>3, <1>4, ZenonT(30)

\* The ends of a queue of one or two.
LEMMA Ends ==
  ASSUME NEW m, NEW n
  PROVE  /\ Head(<<m>>) = m /\ Tail(<<m>>) = <<>> /\ <<m>> # <<>>
         /\ Head(<<m, n>>) = m /\ Tail(<<m, n>>) = <<n>> /\ <<m, n>> # <<>>
         /\ SubSeq(<<m, n>>, 3, Len(<<m, n>>)) = <<>>
OBVIOUS

\* The header of the reply arrives: it fits, or something went wrong.
LEMMA ReadHeaderStep == ConnectInv /\ ReadHeader => ConnectInv'
<1> SUFFICES ASSUME ConnectInv, ReadHeader PROVE ConnectInv'
  OBVIOUS
<1>1. pc = "header" /\ Flow /\ Loops /\ down # <<>>
  BY ZenonT(30) DEF ConnectInv, ReadHeader
<1>2. Replied /\ Node.static = Pins[pin]
  BY <1>1, Stages, ZenonT(30) DEF Asking, Flow
<1>3. PICK m \in AnyHeader, n \in AnyReply :
        down = <<m, n>> /\ (~hit => m = Header /\ n = Reply)
  BY <1>1, <1>2, ZenonT(30) DEF Replied, Two
<1>4. Head(down) = m /\ Tail(down) = <<n>>
  BY <1>3, Ends
<1>5. CASE ~m.good
  <2>1. hit
    <3>1. Header.good
      BY ZenonT(30) DEF Header
    <3> QED BY <1>3, <1>5, <3>1, ZenonT(30)
  <2>2. Fail(hit) /\ hit \in BOOLEAN
    BY <1>1, <1>4, <1>5 DEF ReadHeader, Loops
  <2> QED BY <1>1, <2>1, <2>2, FailStep, ZenonT(30)
<1>6. CASE m.good
  <2>1. /\ UNCHANGED fixed /\ UNCHANGED <<pin, at, attempts>>
        /\ UNCHANGED <<state, session, up, peer, faults, hit, failures>>
        /\ pc' = "message" /\ down' = <<n>>
    BY <1>4, <1>6, ZenonT(30) DEF ReadHeader
  <2>2. Within /\ faults' \in 0 .. config.faults /\ hit' \in BOOLEAN
    BY <1>1, <2>1, ZenonT(30) DEF Within, Loops
  <2>3. /\ Reply' = Reply /\ AnyReply' = AnyReply /\ Asked' = Asked /\ Node' = Node /\ Pins' = Pins
        /\ Theirs("negotiate", 0)' = Theirs("negotiate", 0)
    BY <2>1, SameAttempt, SameMessages, ZenonT(30)
  <2>4. One(down, AnyReply, Reply)'
    BY <1>3, <2>1, <2>3, ZenonT(30) DEF One
  <2>5. Replied'
    BY <1>2, <2>1, <2>3, <2>4, ZenonT(30) DEF Replied
  <2>6. PeerFair'
    BY <1>1, <2>1, <2>3, ZenonT(30) DEF Flow, PeerFair
  <2>7. Flow'
    BY <1>2, <2>1, <2>3, <2>5, <2>6, ZenonT(30) DEF Flow
  <2> QED BY <2>2, <2>7, WithinStep
<1> QED BY <1>5, <1>6

\* A client that finds the tag of the reply right shares the node's session.
LEMMA FinishStep ==
  ASSUME ConnectInv, Replied, NEW m \in AnyReply, ~hit => m = Reply, Finish(m, <<>>)
  PROVE  ConnectInv'
<1> DEFINE ee == Shared(ClientPoint(attempts), m.point)
           s == mix_key(mix_hash(state, <<"point", m.point>>), ee)
<1>1. Flow /\ Loops /\ pc \in {"header", "message"} /\ Node.static = Pins[pin]
  BY ZenonT(30) DEF ConnectInv, Flow, Replied
<1>2. state = Hashed(Asked) /\ up = <<>> /\ peer = Theirs("negotiate", 0)
  BY DEF Replied
<1>3. m.tag \in {Junk, Tag(Agreed)}
  BY DEF AnyReply
<1>4. m.point = NodePoint(attempts) => s = Agreed /\ ee # {}
  <2>1. attempts \in Nat
    BY <1>1 DEF Loops
  <2>2. Shared(ClientPoint(attempts), NodePoint(attempts)) # {}
    BY <2>1 DEF Shared, ClientPoint, NodePoint, ZeroPoint
  <2> QED BY <1>2, <2>2 DEF Agreed
<1>5. CASE ee = {} \/ m.tag # Tag(s)
  <2>1. hit
    <3>1. Reply.point = NodePoint(attempts) /\ Reply.tag = Tag(Agreed)
      BY ZenonT(30) DEF Reply
    <3> QED BY <1>4, <1>5, <3>1, ZenonT(30)
  <2>2. Fail(hit) /\ hit \in BOOLEAN
    BY <1>1, <1>5 DEF Finish, Loops
  <2> QED BY <1>1, <2>1, <2>2, FailStep, ZenonT(30)
<1>6. CASE ~(ee = {} \/ m.tag # Tag(s))
  <2>1. s = Agreed
    <3>1. Tag(s) = Tag(Agreed)
      BY <1>3, <1>6, TagNotJunk, ZenonT(30)
    <3>2. m.point = NodePoint(attempts)
      BY <1>2, <3>1, SecondFits, ZenonT(30)
    <3> QED BY <1>4, <3>2
  <2>2. /\ UNCHANGED fixed /\ UNCHANGED <<pin, at, attempts>>
        /\ UNCHANGED <<up, peer, faults, hit, failures>>
        /\ state' = Hashed(Agreed) /\ down' = <<>> /\ pc' = "negotiate"
        /\ session' = [seal |-> Cipher(Hashed(Agreed), 1), open |-> Cipher(Hashed(Agreed), 2),
                       hash |-> Hashed(Agreed).h]
    BY <1>6, <2>1, ZenonT(30) DEF Finish
  <2>3. session' = Ours(0, 0)
    BY <2>2, ZenonT(30) DEF Cipher, Ours, Key, Hashed
  <2>4. Within /\ faults' \in 0 .. config.faults /\ hit' \in BOOLEAN
    BY <1>1, <2>2, ZenonT(30) DEF Within, Loops
  <2>5. /\ Agreed' = Agreed /\ Node' = Node /\ Pins' = Pins
        /\ Ours(0, 0)' = Ours(0, 0) /\ Theirs("negotiate", 0)' = Theirs("negotiate", 0)
    BY <2>2, SameAttempt, SameMessages
  <2>6. Sharing'
    BY <1>2, <2>2, <2>3, <2>5, ZenonT(30) DEF Sharing
  <2>7. PeerFair'
    BY <1>1, <2>2, <2>5, ZenonT(30) DEF Flow, PeerFair
  <2>8. Flow'
    BY <1>1, <2>2, <2>5, <2>6, <2>7, ZenonT(30) DEF Flow
  <2> QED BY <2>4, <2>8, WithinStep, ZenonT(30)
<1> QED BY <1>5, <1>6, ZenonT(30)

\* The reply arrives at a native client.
LEMMA ReadMessageStep == ConnectInv /\ ReadMessage => ConnectInv'
<1> SUFFICES ASSUME ConnectInv, ReadMessage PROVE ConnectInv'
  OBVIOUS
<1>1. pc = "message" /\ Flow
  BY DEF ConnectInv, ReadMessage
<1>2. Replied
  BY <1>1, Stages
<1>3. PICK m \in AnyReply : down = <<m>> /\ (~hit => m = Reply)
  BY <1>1, <1>2 DEF Replied, One
<1>4. Finish(m, <<>>)
  BY <1>3, Ends DEF ReadMessage
<1> QED BY <1>2, <1>3, <1>4, FinishStep

\* Header and reply arrive at the browser at once.
LEMMA BrowserReplyStep == ConnectInv /\ BrowserReply => ConnectInv'
<1> SUFFICES ASSUME ConnectInv, BrowserReply PROVE ConnectInv'
  OBVIOUS
<1>1. pc = "header" /\ Flow /\ Loops /\ down # <<>>
  BY DEF ConnectInv, BrowserReply
<1>2. Replied
  BY <1>1, Stages DEF Asking
<1>3. PICK m \in AnyHeader, n \in AnyReply :
        down = <<m, n>> /\ (~hit => m = Header /\ n = Reply)
  BY <1>1, <1>2 DEF Replied, Two
<1>4. down[1] = m /\ down[2] = n /\ SubSeq(down, 3, Len(down)) = <<>>
  BY <1>3, Ends, ZenonT(30)
<1>5. CASE ~m.good
  <2>1. hit
    <3>1. Header.good
      BY DEF Header
    <3> QED BY <1>3, <1>5, <3>1
  <2>2. Fail(hit) /\ hit \in BOOLEAN
    BY <1>1, <1>4, <1>5 DEF BrowserReply, Loops
  <2> QED BY <1>1, <2>1, <2>2, FailStep, ZenonT(30)
<1>6. CASE m.good
  <2>1. Finish(n, <<>>)
    BY <1>4, <1>6, ZenonT(30) DEF BrowserReply
  <2> QED BY <1>2, <1>3, <2>1, FinishStep
<1> QED BY <1>5, <1>6

\* HELLO is sealed and sent.
LEMMA NegotiateStep == ConnectInv /\ Negotiate => ConnectInv'
<1> SUFFICES ASSUME ConnectInv, Negotiate PROVE ConnectInv'
  OBVIOUS
<1>1. /\ Flow /\ Loops /\ pc = "negotiate" /\ pc' = "answer"
      /\ UNCHANGED fixed /\ UNCHANGED <<pin, at, attempts>>
      /\ UNCHANGED <<state, down, peer, faults, hit, failures>>
  BY DEF ConnectInv, Negotiate
<1>2. /\ state = Hashed(Agreed) /\ session = Ours(0, 0) /\ peer = Theirs("negotiate", 0)
      /\ up = <<>> /\ down = <<>> /\ Node.static = Pins[pin]
  BY <1>1, Stages, ZenonT(30) DEF Sharing, Flow
<1>3. /\ Agreed' = Agreed /\ Node' = Node /\ Pins' = Pins
      /\ Ours(1, 0)' = Ours(1, 0) /\ Theirs("negotiate", 0)' = Theirs("negotiate", 0)
      /\ Question' = Question /\ AnyQuestion' = AnyQuestion
  BY <1>1, SameAttempt, SameMessages
<1>4. session' = Ours(1, 0)
  BY <1>2 DEF Negotiate, Ours, Used
<1>5. up' = <<Question>>
  <2>1. Record(session.seal, session.hash, "HELLO") = Question
    BY <1>2 DEF Ours, Question
  <2> QED BY <1>2, <2>1, Appended, ZenonT(30) DEF Negotiate
<1>6. One(up, AnyQuestion, Question)'
  <2>1. Question \in AnyQuestion
    BY RecordKept, ZenonT(30) DEF AnyQuestion, Question
  <2> QED BY <1>3, <1>5, <2>1 DEF One
<1>7. Sharing'
  BY <1>1, <1>2, <1>3, <1>4, <1>6, ZenonT(30) DEF Sharing
<1>8. PeerFair'
  BY <1>1, <1>3, ZenonT(30) DEF Flow, PeerFair
<1>9. Flow'
  BY <1>1, <1>2, <1>3, <1>7, <1>8, ZenonT(30) DEF Flow
<1>10. Within /\ faults' \in 0 .. config.faults /\ hit' \in BOOLEAN
  BY <1>1 DEF Within, Loops
<1> QED BY <1>9, <1>10, WithinStep

\* An answer that does not open was damaged; one that opens is the node's.
LEMMA AnswerStep == ConnectInv /\ Answer => ConnectInv'
<1> SUFFICES ASSUME ConnectInv, Answer PROVE ConnectInv'
  OBVIOUS
<1>1. Flow /\ Loops /\ pc = "answer" /\ down # <<>>
  BY ZenonT(30) DEF ConnectInv, Answer
<1>2. /\ state = Hashed(Agreed) /\ session = Ours(1, 0) /\ peer = Theirs("up", 1)
      /\ up = <<>> /\ Node.static = Pins[pin]
      /\ One(down, AnyOffer, Offer)
  BY <1>1, Stages, ZenonT(30) DEF Sharing, Flow
<1>3. PICK m \in AnyOffer : down = <<m>> /\ (~hit => m = Offer)
  BY <1>2 DEF One
<1>4. Head(down) = m /\ Tail(down) = <<>>
  BY <1>3, Ends
<1>5. m.payload = Node.offer
  BY DEF AnyOffer, Offer, Record
<1>6. CASE ~Opens(m, session.open, session.hash)
  <2>1. hit
    <3>1. Opens(Offer, session.open, session.hash)
      BY <1>2, ZenonT(30) DEF Opens, Offer, Record, Ours
    <3> QED BY <1>3, <1>6, <3>1
  <2>2. Fail(hit) /\ hit \in BOOLEAN
    BY <1>1, <1>4, <1>6 DEF Answer, Loops
  <2> QED BY <1>1, <2>1, <2>2, FailStep, ZenonT(30)
<1>7. CASE ~Accepts(Kind, m.payload)
  <2>1. Cause(pin, at)
    BY <1>5, <1>7 DEF Cause, Kind, Node
  <2>2. Fail(hit) /\ hit \in BOOLEAN
    BY <1>1, <1>4, <1>7 DEF Answer, Loops
  <2> QED BY <1>1, <2>1, <2>2, FailStep, ZenonT(30)
<1>8. CASE Opens(m, session.open, session.hash) /\ Accepts(Kind, m.payload)
  <2>1. /\ UNCHANGED fixed /\ UNCHANGED <<pin, at, attempts>>
        /\ UNCHANGED <<state, up, peer, faults, hit, failures>>
        /\ session' = [session EXCEPT !.open = Used(@)]
        /\ down' = <<>> /\ pc' = "connected"
    BY <1>4, <1>8, ZenonT(30) DEF Answer
  <2>2. session' = Ours(1, 1)
    BY <1>2, <2>1 DEF Ours, Used
  <2>3. /\ Agreed' = Agreed /\ Node' = Node /\ Pins' = Pins /\ Kind' = Kind
        /\ Ours(1, 1)' = Ours(1, 1) /\ Theirs("up", 1)' = Theirs("up", 1)
    BY <2>1, SameAttempt, SameMessages
  <2>4. Accepts(Kind, Node.offer)'
    BY <1>5, <1>8, <2>3, ZenonT(30) DEF Accepts
  <2>5. Sharing'
    BY <1>2, <2>1, <2>2, <2>3, <2>4 DEF Sharing
  <2>6. PeerFair'
    BY <1>1, <2>1, <2>3 DEF Flow, PeerFair
  <2>7. Flow'
    BY <1>2, <2>1, <2>3, <2>5, <2>6 DEF Flow
  <2>8. Within /\ faults' \in 0 .. config.faults /\ hit' \in BOOLEAN
    BY <1>1, <2>1 DEF Within, Loops
  <2> QED BY <2>7, <2>8, WithinStep
<1> QED BY <1>6, <1>7, <1>8

\* An attempt ends because of the network.
LEMMA TimeOutStep == ConnectInv /\ TimeOut => ConnectInv'
BY FailStep, ZenonT(30) DEF TimeOut

\* An attempt ends because the node hung up.
LEMMA EndOfStreamStep == ConnectInv /\ EndOfStream => ConnectInv'
<1> SUFFICES ASSUME ConnectInv, EndOfStream PROVE ConnectInv'
  OBVIOUS
<1>1. pc # "failed" /\ Fail(hit) /\ hit \in BOOLEAN
  BY ZenonT(30) DEF EndOfStream, ConnectInv, Loops
<1>2. hit \/ Cause(pin, at)
  BY DEF EndOfStream, ConnectInv, Flow, PeerFair, Cause, Node
<1> QED BY <1>1, <1>2, FailStep, ZenonT(30)

-----------------------------------------------------------------------------
(* The node.                                                               *)

\* Where a node finds something to read.
LEMMA NodeStages ==
  ASSUME Flow, up # <<>>
  PROVE  /\ peer.at = "mux" =>
              \/ Opening /\ pc = "hello" /\ One(up, AnyPreface, Preface)
              \/ Asking /\ Two(up, AnyPreface, Preface, AnyHello, Hello)
         /\ peer.at = "hello" => Asking /\ One(up, AnyHello, Hello)
         /\ peer.at = "negotiate" =>
              /\ Sharing /\ pc = "answer" /\ session = Ours(1, 0) /\ down = <<>>
              /\ peer = Theirs("negotiate", 0) /\ One(up, AnyQuestion, Question)
<1>1. ~Resting /\ ~Replied
  BY ZenonT(30) DEF Resting, Replied
<1>2. CASE Opening
  BY <1>2, ZenonT(30) DEF Opening
<1>3. CASE Asking
  BY <1>3, ZenonT(30) DEF Asking
<1>4. CASE Sharing
  <2>1. /\ pc = "answer" /\ session = Ours(1, 0) /\ peer = Theirs("negotiate", 0)
        /\ One(up, AnyQuestion, Question) /\ down = <<>>
    BY <1>4, ZenonT(30) DEF Sharing
  <2>2. peer.at = "negotiate"
    BY <2>1, SessionFields, ZenonT(30)
  <2> QED BY <1>4, <2>1, <2>2, ZenonT(30)
<1> QED BY <1>1, <1>2, <1>3, <1>4, ZenonT(30) DEF Flow

\* What no step of a node touches.
LEMMA NodeWithin ==
  ASSUME ConnectInv, pc \notin {"pin", "open", "failed"}, UNCHANGED fixed,
         UNCHANGED <<pc, pin, at, attempts, state, session, faults, hit, failures>>
  PROVE  Within /\ faults' \in 0 .. config.faults /\ hit' \in BOOLEAN
BY ZenonT(30) DEF ConnectInv, Loops, Within

\* The router reads the preface.
LEMMA MuxStep == ConnectInv /\ Mux => ConnectInv'
<1> SUFFICES ASSUME ConnectInv, Mux PROVE ConnectInv'
  OBVIOUS
<1>1. /\ Flow /\ peer.at = "mux" /\ up # <<>> /\ up' = Tail(up)
      /\ UNCHANGED fixed
      /\ UNCHANGED <<pc, pin, at, attempts, state, session, faults, hit, failures>>
  BY ZenonT(30) DEF ConnectInv, Mux, NodeStep
<1>2. /\ Hello' = Hello /\ AnyHello' = AnyHello /\ Asked' = Asked /\ Node' = Node /\ Pins' = Pins
  BY <1>1, SameAttempt, SameMessages, ZenonT(30)
<1>3. PICK m \in AnyPreface : Head(up) = m /\ (~hit => m = Preface)
  BY <1>1, NodeStages, Ends DEF One, Two
<1>4. /\ down' = down /\ "at" \in DOMAIN peer'
      /\ peer'.at = IF m.good THEN "hello" ELSE "gone"
  <2>1. m.kind = "preface" /\ "at" \in DOMAIN peer
    BY <1>1 DEF AnyPreface, Flow, PeerFair
  <2> QED BY <1>3, <2>1, ZenonT(30) DEF Mux, NodeStep, Hangup
<1>5. peer'.at \in {"hello", "gone"} /\ (peer'.at = "gone" => hit)
  <2>1. Preface.good
    BY ZenonT(30) DEF Preface
  <2> QED BY <1>3, <1>4, <2>1
<1>6. pc \notin {"pin", "open", "failed"} /\ (Opening' \/ Asking')
  <2>1. CASE Opening /\ pc = "hello" /\ One(up, AnyPreface, Preface)
    <3>1. up' = <<>>
      BY <1>1, <2>1, Ends, ZenonT(30) DEF One
    <3> QED BY <1>1, <1>4, <1>5, <2>1, <3>1, ZenonT(30) DEF Opening
  <2>2. CASE Asking /\ Two(up, AnyPreface, Preface, AnyHello, Hello)
    <3>1. PICK x \in AnyPreface, n \in AnyHello :
            up = <<x, n>> /\ (~hit => x = Preface /\ n = Hello)
      BY <2>2, ZenonT(30) DEF Two
    <3>2. up' = <<n>>
      BY <1>1, <3>1, Ends, ZenonT(30)
    <3>3. One(up, AnyHello, Hello)'
      BY <1>1, <1>2, <3>1, <3>2, ZenonT(30) DEF One
    <3> QED BY <1>1, <1>2, <1>4, <1>5, <2>2, <3>3, ZenonT(30) DEF Asking
  <2> QED BY <1>1, <2>1, <2>2, NodeStages, ZenonT(30)
<1>7. PeerFair'
  BY <1>1, <1>4, <1>5 DEF PeerFair
<1>8. ~Replied' /\ ~Sharing'
  <2>1. pc' \in {"preface", "hello", "header"}
    BY <1>6, ZenonT(30) DEF Opening, Asking
  <2>2. ~Sharing'
    BY <2>1, ZenonT(30) DEF Sharing
  <2>3. ~Replied'
    BY <1>5 DEF Replied, Theirs
  <2> QED BY <2>2, <2>3, ZenonT(30)
<1>9. Flow'
  BY <1>6, <1>7, <1>8 DEF Flow
<1> QED BY <1>1, <1>6, <1>9, NodeWithin, WithinStep

\* A node that goes on after the first message holds the pinned key; one that
\* hangs up got a damaged message or does not.
LEMMA NodeHelloStep == ConnectInv /\ NodeHello => ConnectInv'
<1> SUFFICES ASSUME ConnectInv, NodeHello PROVE ConnectInv'
  OBVIOUS
<1>1. /\ Flow /\ peer.at = "hello" /\ up # <<>> /\ up' = Tail(up)
      /\ UNCHANGED fixed
      /\ UNCHANGED <<pc, pin, at, attempts, state, session, faults, hit, failures>>
  BY ZenonT(30) DEF ConnectInv, NodeHello, NodeStep
<1>2. /\ Asked' = Asked /\ Node' = Node /\ Pins' = Pins
      /\ Reply' = Reply /\ AnyReply' = AnyReply
      /\ Theirs("negotiate", 0)' = Theirs("negotiate", 0)
  BY <1>1, SameAttempt, SameMessages, ZenonT(30)
<1>3. Asking
  BY <1>1, NodeStages, ZenonT(30)
<1>4. PICK m \in AnyHello : up = <<m>> /\ (~hit => m = Hello)
  BY <1>1, NodeStages DEF One
<1>5. Head(up) = m /\ up' = <<>> /\ m.kind = "hello" /\ m.tag \in {Junk, Tag(Asked)}
  BY <1>1, <1>4, Ends, ZenonT(30) DEF AnyHello
<1> DEFINE s == mix_key(mix_hash(new(Node.static), <<"point", m.point>>),
                        Shared(Node.static, m.point))
           t == mix_key(mix_hash(Hashed(s), <<"point", NodePoint(attempts)>>),
                        Shared(NodePoint(attempts), m.point))
<1>6. IF ~m.good \/ m.tag # Tag(s) THEN Hangup
      ELSE /\ peer' = [at |-> "negotiate", state |-> Hashed(t),
                       session |-> [seal |-> Cipher(Hashed(t), 2),
                                    open |-> Cipher(Hashed(t), 1), hash |-> Hashed(t).h]]
           /\ down' = down \o <<[kind |-> "header", good |-> TRUE],
                                [kind |-> "message", point |-> NodePoint(attempts),
                                 tag |-> Tag(t)]>>
  BY <1>5, ZenonT(30) DEF NodeHello, NodeStep
<1>7. m.point = ClientPoint(attempts) /\ Node.static = Pins[pin] => s = Asked
  BY SharedCommutes, ZenonT(30) DEF Asked
<1>8. CASE ~m.good \/ m.tag # Tag(s)
  <2>1. peer'.at = "gone" /\ "at" \in DOMAIN peer' /\ down' = down
    BY <1>1, <1>6, <1>8, ZenonT(30) DEF Hangup, Flow, PeerFair
  <2>2. hit \/ Pins[pin] # Node.static
    <3>1. Hello.good /\ Hello.tag = Tag(Asked) /\ Hello.point = ClientPoint(attempts)
      BY ZenonT(30) DEF Hello
    <3> QED BY <1>4, <1>7, <1>8, <3>1, ZenonT(30)
  <2>3. PeerFair'
    BY <1>1, <1>2, <2>1, <2>2, ZenonT(30) DEF PeerFair
  <2>4. Asking'
    BY <1>1, <1>2, <1>3, <1>5, <2>1, ZenonT(30) DEF Asking
  <2>5. ~Replied' /\ ~Sharing'
    <3>1. Theirs("negotiate", 0)'.at = "negotiate"
      BY SessionFields, ZenonT(30)
    <3>2. ~Replied'
      BY <2>1, <3>1, ZenonT(30) DEF Replied
    <3>3. ~Sharing'
      BY <1>1, <1>3, ZenonT(30) DEF Sharing, Asking
    <3> QED BY <3>2, <3>3
  <2>6. Flow'
    BY <2>3, <2>4, <2>5, ZenonT(30) DEF Flow
  <2> QED BY <1>1, <1>3, <2>6, NodeWithin, WithinStep DEF Asking
<1>9. CASE m.good /\ m.tag = Tag(s)
  <2>1. Tag(s) = Tag(Asked)
    BY <1>5, <1>9, TagNotJunk, ZenonT(30)
  <2>2. Node.static = Pins[pin] /\ m.point = ClientPoint(attempts)
    BY <2>1, FirstFits, ZenonT(30)
  <2>3. t = Agreed
    BY <1>7, <2>2, SharedCommutes, ZenonT(30) DEF Agreed
  <2>4. peer' = Theirs("negotiate", 0)
    BY <1>6, <1>9, <2>3, ZenonT(30) DEF Theirs, Cipher, Key, Hashed
  <2>5. down' = <<Header, Reply>>
    <3>1. down' = down \o <<Header, Reply>> /\ down = <<>>
      BY <1>3, <1>6, <1>9, <2>3, ZenonT(30) DEF Header, Reply, Asking
    <3> QED BY <3>1
  <2>6. Two(down, AnyHeader, Header, AnyReply, Reply)'
    <3>1. Header \in AnyHeader /\ Reply \in AnyReply
      BY ZenonT(30) DEF Header, AnyHeader, Reply, AnyReply
    <3> QED BY <1>2, <2>5, <3>1, ZenonT(30) DEF Two, Header, AnyHeader
  <2>7. Replied'
    BY <1>1, <1>2, <1>3, <1>5, <2>4, <2>6 DEF Replied, Asking
  <2>8. PeerFair'
    BY <2>4, ZenonT(30) DEF PeerFair, Theirs
  <2>9. Flow'
    BY <1>1, <1>2, <2>2, <2>7, <2>8, ZenonT(30) DEF Flow
  <2> QED BY <1>1, <1>3, <2>9, NodeWithin, WithinStep DEF Asking
<1> QED BY <1>8, <1>9, ZenonT(30)

\* The node opens HELLO and answers.
LEMMA NodeNegotiateStep == ConnectInv /\ NodeNegotiate => ConnectInv'
<1> SUFFICES ASSUME ConnectInv, NodeNegotiate PROVE ConnectInv'
  OBVIOUS
<1>1. /\ Flow /\ peer.at = "negotiate" /\ up # <<>> /\ up' = Tail(up)
      /\ UNCHANGED fixed
      /\ UNCHANGED <<pc, pin, at, attempts, state, session, faults, hit, failures>>
  BY ZenonT(30) DEF ConnectInv, NodeNegotiate, NodeStep
<1>2. /\ Agreed' = Agreed /\ Node' = Node /\ Pins' = Pins
      /\ Offer' = Offer /\ AnyOffer' = AnyOffer /\ Ours(1, 0)' = Ours(1, 0)
      /\ Theirs("gone", 0)' = Theirs("gone", 0) /\ Theirs("up", 1)' = Theirs("up", 1)
  BY <1>1, SameAttempt, SameMessages
<1>3. /\ Sharing /\ pc = "answer" /\ session = Ours(1, 0) /\ down = <<>>
      /\ peer = Theirs("negotiate", 0)
  BY <1>1, NodeStages, ZenonT(30)
<1>4. state = Hashed(Agreed) /\ Node.static = Pins[pin]
  BY <1>1, <1>3, ZenonT(30) DEF Sharing, Flow
<1>5. PICK m \in AnyQuestion : up = <<m>> /\ (~hit => m = Question)
  BY <1>1, NodeStages DEF One
<1>6. Head(up) = m /\ up' = <<>> /\ m.kind = "record"
  BY <1>1, <1>5, Ends, ZenonT(30) DEF AnyQuestion, Question, Record
<1>7. CASE ~Opens(m, peer.session.open, peer.session.hash)
  <2>1. peer' = Theirs("gone", 0) /\ down' = <<>>
    BY <1>3, <1>6, <1>7 DEF NodeNegotiate, NodeStep, Hangup, Theirs
  <2>2. hit
    <3>1. Opens(Question, peer.session.open, peer.session.hash)
      BY <1>3, ZenonT(30) DEF Opens, Question, Record, Theirs
    <3> QED BY <1>5, <1>7, <3>1, ZenonT(30)
  <2>3. Sharing'
    BY <1>1, <1>2, <1>3, <1>4, <1>6, <2>1, ZenonT(30) DEF Sharing
  <2>4. PeerFair'
    BY <1>1, <2>1, <2>2, ZenonT(30) DEF PeerFair, Theirs
  <2>5. Flow'
    BY <1>1, <1>2, <1>4, <2>3, <2>4, ZenonT(30) DEF Flow
  <2> QED BY <1>1, <1>3, <2>5, NodeWithin, WithinStep
<1>8. CASE Opens(m, peer.session.open, peer.session.hash)
  <2>1. peer' = Theirs("up", 1)
    BY <1>3, <1>6, <1>8, TheirsUsed, ZenonT(30) DEF NodeNegotiate, NodeStep
  <2>2. down' = <<Offer>>
    <3>1. Record(peer.session.seal, peer.session.hash, Node.offer) = Offer
      BY <1>3 DEF Theirs, Offer
    <3> QED BY <1>3, <1>6, <1>8, <3>1, Appended, ZenonT(30) DEF NodeNegotiate, NodeStep
  <2>3. One(down, AnyOffer, Offer)'
    <3>1. Offer \in AnyOffer
      BY RecordKept, ZenonT(30) DEF AnyOffer, Offer
    <3> QED BY <1>2, <2>2, <3>1 DEF One
  <2>4. Sharing'
    BY <1>1, <1>2, <1>3, <1>4, <1>6, <2>1, <2>3, ZenonT(30) DEF Sharing
  <2>5. PeerFair'
    BY <2>1, ZenonT(30) DEF PeerFair, Theirs
  <2>6. Flow'
    BY <1>1, <1>2, <1>4, <2>4, <2>5 DEF Flow
  <2> QED BY <1>1, <1>3, <2>6, NodeWithin, WithinStep
<1> QED BY <1>7, <1>8, ZenonT(30)

-----------------------------------------------------------------------------
(* The network.                                                            *)

\* A damaged message stays what it may arrive as.
LEMMA DamagedStays ==
  /\ \A m \in AnyPreface : Damaged(m) \subseteq AnyPreface
  /\ \A m \in AnyHello : Damaged(m) \subseteq AnyHello
  /\ \A m \in AnyHeader : Damaged(m) \subseteq AnyHeader
  /\ \A m \in AnyReply : Damaged(m) \subseteq AnyReply
  /\ \A m \in AnyQuestion : Damaged(m) \subseteq AnyQuestion
  /\ \A m \in AnyOffer : Damaged(m) \subseteq AnyOffer
<1>1. \A m \in AnyPreface : Damaged(m) \subseteq AnyPreface
  BY ZenonT(30) DEF AnyPreface, Damaged
<1>2. \A m \in AnyHello : Damaged(m) \subseteq AnyHello
  <2> SUFFICES ASSUME NEW m \in AnyHello, NEW d \in Damaged(m) PROVE d \in AnyHello
    OBVIOUS
  <2>1. m.kind = "hello"
    BY DEF AnyHello
  <2>2. \/ d = [m EXCEPT !.good = FALSE] \/ d = [m EXCEPT !.tag = Junk]
        \/ d = [m EXCEPT !.point = Garbled] \/ d = [m EXCEPT !.point = ZeroPoint]
    BY <2>1 DEF Damaged, Junk
  <2> QED BY <2>2, ZenonT(30) DEF AnyHello
<1>3. \A m \in AnyHeader : Damaged(m) \subseteq AnyHeader
  BY ZenonT(30) DEF AnyHeader, Damaged
<1>4. \A m \in AnyReply : Damaged(m) \subseteq AnyReply
  BY DEF AnyReply, Damaged, Junk
<1>5. \A m \in AnyQuestion : Damaged(m) \subseteq AnyQuestion
  BY DEF AnyQuestion, Question, Record, Damaged
<1>6. \A m \in AnyOffer : Damaged(m) \subseteq AnyOffer
  BY DEF AnyOffer, Offer, Record, Damaged
<1> QED BY <1>1, <1>2, <1>3, <1>4, <1>5, <1>6, ZenonT(30)

\* One message that may be damaged, still is one.
LEMMA OneDamaged ==
  ASSUME NEW q, NEW any, NEW sent, \A m \in any : Damaged(m) \subseteq any,
         One(q, any, sent), NEW i \in DOMAIN q, NEW d \in Damaged(q[i])
  PROVE  \E m \in any : [q EXCEPT ![i] = d] = <<m>>
<1>1. PICK m \in any : q = <<m>>
  BY DEF One
<1>2. i = 1 /\ d \in any
  BY <1>1
<1>3. [q EXCEPT ![i] = d] = <<d>>
  BY <1>1, <1>2
<1> QED BY <1>2, <1>3

\* So are two.
LEMMA TwoDamaged ==
  ASSUME NEW q, NEW any, NEW sent, \A m \in any : Damaged(m) \subseteq any,
         NEW anyNext, NEW sentNext, \A m \in anyNext : Damaged(m) \subseteq anyNext,
         Two(q, any, sent, anyNext, sentNext), NEW i \in DOMAIN q, NEW d \in Damaged(q[i])
  PROVE  \E m \in any, n \in anyNext : [q EXCEPT ![i] = d] = <<m, n>>
<1>1. PICK m \in any, n \in anyNext : q = <<m, n>>
  BY DEF Two
<1>2. CASE i = 1
  <2>1. d \in any /\ [q EXCEPT ![i] = d] = <<d, n>>
    BY <1>1, <1>2
  <2> QED BY <2>1, ZenonT(30)
<1>3. CASE i = 2
  <2>1. d \in anyNext /\ [q EXCEPT ![i] = d] = <<m, d>>
    BY <1>1, <1>3
  <2> QED BY <2>1, ZenonT(30)
<1>4. i \in 1 .. 2
  BY <1>1
<1> QED BY <1>2, <1>3, <1>4

\* Damage leaves an attempt in its stage.
LEMMA DamageStep == ConnectInv /\ Damage => ConnectInv'
<1> SUFFICES ASSUME ConnectInv, Damage PROVE ConnectInv'
  OBVIOUS
<1>1. /\ Flow /\ Loops /\ Given /\ hit' = TRUE
      /\ UNCHANGED fixed
      /\ UNCHANGED <<pc, pin, at, attempts, state, session, peer, failures>>
      /\ faults' = faults + 1 /\ faults < config.faults
  BY ZenonT(30) DEF ConnectInv, Damage
<1>2. /\ Asked' = Asked /\ Agreed' = Agreed /\ Node' = Node /\ Pins' = Pins /\ Kind' = Kind
      /\ Hello' = Hello /\ AnyHello' = AnyHello
      /\ Reply' = Reply /\ AnyReply' = AnyReply
      /\ Question' = Question /\ AnyQuestion' = AnyQuestion
      /\ Offer' = Offer /\ AnyOffer' = AnyOffer
      /\ \A a, b : Ours(a, b)' = Ours(a, b)
      /\ \A w, a : Theirs(w, a)' = Theirs(w, a)
  BY <1>1, SameAttempt, SameMessages, ZenonT(30)
<1>3. \/ \E i \in DOMAIN up : \E d \in Damaged(up[i]) :
           up' = [up EXCEPT ![i] = d] /\ down' = down
      \/ \E i \in DOMAIN down : \E d \in Damaged(down[i]) :
           down' = [down EXCEPT ![i] = d] /\ up' = up
  BY DEF Damage
<1>4. (up = <<>> => up' = <<>>) /\ (down = <<>> => down' = <<>>)
  BY <1>3
<1>5. ASSUME NEW any, NEW sent, \A m \in any : Damaged(m) \subseteq any
      PROVE  /\ One(up, any, sent) => \E m \in any : up' = <<m>>
             /\ One(down, any, sent) => \E m \in any : down' = <<m>>
  <2>1. ASSUME NEW q, One(q, any, sent), NEW i \in DOMAIN q, NEW d \in Damaged(q[i])
        PROVE  \E m \in any : [q EXCEPT ![i] = d] = <<m>>
    BY <1>5, <2>1, OneDamaged
  <2>2. ASSUME NEW q, One(q, any, sent)
        PROVE  \E m \in any : q = <<m>>
    BY <2>2, ZenonT(30) DEF One
  <2> QED BY <1>3, <2>1, <2>2
<1>6. ASSUME NEW any, NEW sent, \A m \in any : Damaged(m) \subseteq any,
             NEW anyNext, NEW sentNext, \A m \in anyNext : Damaged(m) \subseteq anyNext
      PROVE  /\ Two(up, any, sent, anyNext, sentNext) =>
                  \E m \in any, n \in anyNext : up' = <<m, n>>
             /\ Two(down, any, sent, anyNext, sentNext) =>
                  \E m \in any, n \in anyNext : down' = <<m, n>>
  <2>1. ASSUME NEW q, Two(q, any, sent, anyNext, sentNext),
               NEW i \in DOMAIN q, NEW d \in Damaged(q[i])
        PROVE  \E m \in any, n \in anyNext : [q EXCEPT ![i] = d] = <<m, n>>
    BY <1>6, <2>1, TwoDamaged
  <2>2. ASSUME NEW q, Two(q, any, sent, anyNext, sentNext)
        PROVE  \E m \in any, n \in anyNext : q = <<m, n>>
    BY <2>2, ZenonT(30) DEF Two
  <2> QED BY <1>3, <2>1, <2>2
<1>7. /\ One(up, AnyPreface, Preface) => One(up, AnyPreface, Preface)'
      /\ One(up, AnyHello, Hello) => One(up, AnyHello, Hello)'
      /\ One(down, AnyReply, Reply) => One(down, AnyReply, Reply)'
      /\ One(up, AnyQuestion, Question) => One(up, AnyQuestion, Question)'
      /\ One(down, AnyOffer, Offer) => One(down, AnyOffer, Offer)'
  <2>1. One(up, AnyPreface, Preface) => One(up, AnyPreface, Preface)'
    BY <1>1, <1>5, DamagedStays, ZenonT(30) DEF One, AnyPreface
  <2>2. One(up, AnyHello, Hello) => One(up, AnyHello, Hello)'
    BY <1>1, <1>2, <1>5, DamagedStays, ZenonT(30) DEF One
  <2>3. One(down, AnyReply, Reply) => One(down, AnyReply, Reply)'
    BY <1>1, <1>2, <1>5, DamagedStays, ZenonT(30) DEF One
  <2>4. One(up, AnyQuestion, Question) => One(up, AnyQuestion, Question)'
    BY <1>1, <1>2, <1>5, DamagedStays, ZenonT(30) DEF One
  <2>5. One(down, AnyOffer, Offer) => One(down, AnyOffer, Offer)'
    BY <1>1, <1>2, <1>5, DamagedStays, ZenonT(30) DEF One
  <2> QED BY <2>1, <2>2, <2>3, <2>4, <2>5
<1>8. /\ Two(up, AnyPreface, Preface, AnyHello, Hello)
           => Two(up, AnyPreface, Preface, AnyHello, Hello)'
      /\ Two(down, AnyHeader, Header, AnyReply, Reply)
           => Two(down, AnyHeader, Header, AnyReply, Reply)'
  <2>1. Two(up, AnyPreface, Preface, AnyHello, Hello)
          => Two(up, AnyPreface, Preface, AnyHello, Hello)'
    <3>1. Two(up, AnyPreface, Preface, AnyHello, Hello) =>
            \E m \in AnyPreface, n \in AnyHello : up' = <<m, n>>
      BY <1>6, DamagedStays
    <3>2. AnyPreface' = AnyPreface
      BY ZenonT(30) DEF AnyPreface
    <3> QED BY <1>1, <1>2, <3>1, <3>2, ZenonT(30) DEF Two
  <2>2. Two(down, AnyHeader, Header, AnyReply, Reply)
          => Two(down, AnyHeader, Header, AnyReply, Reply)'
    <3>1. Two(down, AnyHeader, Header, AnyReply, Reply) =>
            \E m \in AnyHeader, n \in AnyReply : down' = <<m, n>>
      BY <1>6, DamagedStays
    <3>2. AnyHeader' = AnyHeader
      BY ZenonT(30) DEF AnyHeader
    <3> QED BY <1>1, <1>2, <3>1, <3>2, ZenonT(30) DEF Two
  <2> QED BY <2>1, <2>2, ZenonT(30)
<1>9. ~Resting /\ pc \notin {"pin", "open", "failed"}
  <2>1. ~(up = <<>> /\ down = <<>>)
    BY <1>3
  <2> QED BY <1>1, <2>1, Stages DEF Resting
<1>10. Opening => Opening'
  BY <1>1, <1>4, <1>7, ZenonT(30) DEF Opening
<1>11. Asking => Asking'
  BY <1>1, <1>2, <1>4, <1>7, <1>8, ZenonT(30) DEF Asking
<1>12. Replied => Replied'
  BY <1>1, <1>2, <1>4, <1>7, <1>8, ZenonT(30) DEF Replied
<1>13. Sharing => Sharing'
  <2>1. Accepts(Kind, Node.offer) => Accepts(Kind, Node.offer)'
    BY <1>2, ZenonT(30) DEF Accepts
  <2> QED BY <1>1, <1>2, <1>4, <1>7, <2>1, ZenonT(30) DEF Sharing
<1>14. (Replied' => Replied) /\ (Sharing' => Sharing \/ Replied)
  <2>1. pc \in {"preface", "hello"} => Opening
    BY <1>1, Stages
  <2>2. Asking => peer.at \in {"mux", "hello", "gone"}
    BY ZenonT(30) DEF Asking
  <2>3. Replied' => pc \in {"header", "message"} /\ peer.at = "negotiate"
    BY <1>1 DEF Replied, Theirs
  <2>4. Sharing' => pc \in {"negotiate", "answer", "connected"}
    BY <1>1, ZenonT(30) DEF Sharing
  <2> QED BY <1>1, <2>1, <2>2, <2>3, <2>4, Stages, ZenonT(30)
<1>15. PeerFair'
  BY <1>1, <1>2, ZenonT(30) DEF Flow, PeerFair
<1>16. Flow'
  BY <1>1, <1>2, <1>9, <1>10, <1>11, <1>12, <1>13, <1>14, <1>15, ZenonT(30) DEF Flow
<1>17. Within /\ faults' \in 0 .. config.faults /\ hit' \in BOOLEAN
  <2>1. config.faults \in Nat /\ faults \in 0 .. config.faults
    BY <1>1, GivenTypes DEF Loops
  <2>2. Within /\ hit' \in BOOLEAN
    BY <1>1, <1>9, ZenonT(30) DEF Within
  <2> QED BY <1>1, <1>9, <2>1, <2>2, OneMore, ZenonT(30)
<1> QED BY <1>16, <1>17, WithinStep

-----------------------------------------------------------------------------
(* The lists of select_endpoint.                                           *)

\* A filtered list has the entries at the positions kept.
LEMMA KeptList ==
  ASSUME NEW l \in Seq(Kinds), NEW positions, positions \subseteq DOMAIN l,
         NEW r \in Kept(l, positions)
  PROVE  /\ r \in Seq(Kinds)
         /\ \E f \in [DOMAIN r -> positions] :
              /\ \A n \in DOMAIN r : r[n] = l[f[n]]
              /\ \A i \in positions : \E n \in DOMAIN r : f[n] = i
<1>1. PICK f \in InOrder(l, positions) : r = [n \in DOMAIN f |-> l[f[n]]]
  BY ZenonT(30) DEF Kept
<1>2. PICK n \in 0 .. Len(l) : f \in [1 .. n -> positions]
  BY DEF InOrder
<1>3. n \in Nat /\ \A i \in positions : l[i] \in Kinds
  OBVIOUS
<1>4. r \in [1 .. n -> Kinds]
  BY <1>1, <1>2, <1>3, ZenonT(30)
<1>5. r \in Seq(Kinds) /\ DOMAIN r = 1 .. n
  BY <1>3, <1>4
<1>6. \A i \in positions : \E k \in DOMAIN f : f[k] = i
  BY DEF InOrder
<1> QED BY <1>1, <1>2, <1>5, <1>6, ZenonT(30)

\* What the entries of a filtered list have in common.
LEMMA RawList ==
  ASSUME NEW l \in Seq(Kinds), NEW r \in Raw(l)
  PROVE  /\ r \in Seq(Kinds) /\ \A n \in DOMAIN r : ~IsM5oh(r[n])
         /\ \E f \in [DOMAIN r -> DOMAIN l] :
              /\ \A n \in DOMAIN r : r[n] = l[f[n]]
              /\ \A i \in DOMAIN l : ~IsM5oh(l[i]) => \E n \in DOMAIN r : f[n] = i
<1> DEFINE P == {i \in DOMAIN l : ~IsM5oh(l[i])}
<1>1. P \subseteq DOMAIN l /\ r \in Kept(l, P)
  BY DEF Raw
<1>2. \A i \in DOMAIN l : i \in P <=> ~IsM5oh(l[i])
  BY ZenonT(30)
<1> HIDE DEF P
<1>3. r \in Seq(Kinds)
  BY <1>1, KeptList, ZenonT(30)
<1>4. PICK f \in [DOMAIN r -> P] : /\ \A n \in DOMAIN r : r[n] = l[f[n]]
                                  /\ \A i \in P : \E n \in DOMAIN r : f[n] = i
  BY <1>1, KeptList
<1>5. f \in [DOMAIN r -> DOMAIN l]
  BY <1>1, ZenonT(30)
<1>6. \A n \in DOMAIN r : f[n] \in P /\ ~IsM5oh(r[n])
  BY <1>1, <1>2, <1>4, ZenonT(30)
<1> QED BY <1>2, <1>3, <1>4, <1>5, <1>6, ZenonT(30)

\* The entries of the other list.
LEMMA M5ohList ==
  ASSUME NEW l \in Seq(Kinds), NEW r \in M5oh(l)
  PROVE  r \in Seq(Kinds) /\ \A n \in DOMAIN r : IsM5oh(r[n])
<1> DEFINE P == {i \in DOMAIN l : IsM5oh(l[i])}
<1>1. P \subseteq DOMAIN l /\ r \in Kept(l, P)
  BY DEF M5oh
<1>2. \A i \in P : IsM5oh(l[i])
  BY ZenonT(30)
<1> HIDE DEF P
<1>3. r \in Seq(Kinds)
  BY <1>1, KeptList, ZenonT(30)
<1>4. PICK f \in [DOMAIN r -> P] : \A n \in DOMAIN r : r[n] = l[f[n]]
  BY <1>1, KeptList
<1> QED BY <1>2, <1>3, <1>4, ZenonT(30)

\* The list that is tried is a list of endpoints.
LEMMA CandidatesType ==
  ASSUME NEW l \in Seq(Kinds), NEW m, NEW c \in Candidates(l, m)
  PROVE  c \in Seq(Kinds)
<1>1. CASE m = "client"
  BY <1>1 DEF Candidates
<1>2. CASE m = "auto"
  <2>1. PICK raw \in Raw(l), m5oh \in M5oh(l) : c = raw \o m5oh
    BY <1>2, CandidatesOf
  <2>2. raw \in Seq(Kinds) /\ m5oh \in Seq(Kinds)
    BY RawList, M5ohList, ZenonT(30)
  <2> QED BY <2>1, <2>2
<1>3. CASE m \notin {"client", "auto"}
  <2>1. c \in Raw(l) \/ c \in M5oh(l)
    BY <1>3, CandidatesOf, ZenonT(30)
  <2> QED BY <2>1, RawList, M5ohList, ZenonT(30)
<1> QED BY <1>1, <1>2, <1>3

\* Before the first attempt.
LEMMA ConnectInit == Init => ConnectInv
<1> SUFFICES ASSUME Init PROVE ConnectInv
  BY ZenonT(30)
<1>1. Given
  <2>1. config \in Configs /\ config.endpoints \in Seq(Kinds)
    BY ConnectAssumption, ZenonT(30) DEF Init
  <2>2. list \in Seq(Kinds)
    BY <2>1, CandidatesType, ZenonT(30) DEF Init
  <2> QED BY <2>1, <2>2, ZenonT(30) DEF Init, Given
<1>2. pc \in {"pin", "failed"} /\ (pc = "failed" <=> list = <<>> \/ Pins = <<>>)
  BY ZenonT(30) DEF Init
<1>3. Flow
  <2>1. Resting
    BY <1>2, ZenonT(30) DEF Init, Resting
  <2>2. ~Replied /\ ~Sharing /\ PeerFair
    BY <2>1, ZenonT(30) DEF Resting, Replied, Sharing, PeerFair, NoPeer
  <2> QED BY <2>1, <2>2 DEF Flow
<1>4. /\ Pins \in Seq(Statics \cup {BadPin, ZeroPoint}) /\ list \in Seq(Kinds)
      /\ Len(Pins) \in Nat /\ DOMAIN Pins = 1 .. Len(Pins)
      /\ Len(list) \in Nat /\ DOMAIN list = 1 .. Len(list)
      /\ config.faults \in Nat
  BY <1>1, GivenTypes, ZenonT(30) DEF Given
<1>5. pc = "pin" => 1 \in DOMAIN Pins /\ 1 \in DOMAIN list
  <2>1. Pins # <<>> => Len(Pins) > 0
    BY <1>4
  <2>2. list # <<>> => Len(list) > 0
    BY <1>4
  <2> QED BY <1>2, <1>4, <2>1, <2>2
<1>6. Loops
  <2>1. Tried(1, 1) = 1
    BY <1>4 DEF Tried
  <2>2. \A a \in DOMAIN list : ~(a < 1)
    BY <1>4
  <2>3. /\ attempts = 0 /\ faults = 0 /\ hit = FALSE /\ failures = {} /\ pin = 1 /\ at = 1
        /\ pc \in {"pin", "failed"}
    BY <1>2 DEF Init
  <2>4. faults \in 0 .. config.faults
    BY <1>4, <2>3
  <2>5. attempts \in Nat /\ attempts < Tried(pin, at) /\ attempts <= Tried(pin, at)
    BY <2>1, <2>3, Empty, ZenonT(30)
  <2> QED BY <1>2, <1>5, <2>2, <2>3, <2>4, <2>5, ZenonT(30) DEF Loops
<1>7. FailedForCause
  <2>1. pc = "failed" => DOMAIN Pins = {} \/ DOMAIN list = {}
    BY <1>2
  <2>2. pin = 1 /\ at = 1
    BY <1>2, ZenonT(30) DEF Init
  <2>3. \A x \in DOMAIN Pins, a \in DOMAIN list : ~(x < 1) /\ ~(a < 1)
    BY <1>4
  <2> QED BY <2>1, <2>2, <2>3, ZenonT(30) DEF FailedForCause, Before
<1> QED BY <1>1, <1>3, <1>6, <1>7 DEF ConnectInv

\* Every step of connecting keeps the invariant.
LEMMA ConnectInductive == ConnectInv /\ [Next]_vars => ConnectInv'
<1> SUFFICES ASSUME ConnectInv, [Next]_vars PROVE ConnectInv'
  OBVIOUS
<1>1. CASE UNCHANGED vars
  <2>1. /\ UNCHANGED fixed /\ UNCHANGED <<pin, at, attempts>>
        /\ UNCHANGED <<pc, state, session, up, down, peer, faults, hit, failures>>
    BY <1>1, ZenonT(30) DEF vars, fixed
  <2>2. Given' /\ Loops' /\ FailedForCause'
    BY <2>1, ZenonT(30) DEF ConnectInv, Given, Loops, FailedForCause, Before, Tried, Pins, fixed
  <2>3. /\ Asked' = Asked /\ Agreed' = Agreed /\ Node' = Node /\ Pins' = Pins /\ Kind' = Kind
        /\ Hello' = Hello /\ AnyHello' = AnyHello
        /\ Reply' = Reply /\ AnyReply' = AnyReply
        /\ Question' = Question /\ AnyQuestion' = AnyQuestion
        /\ Offer' = Offer /\ AnyOffer' = AnyOffer
        /\ \A a, b : Ours(a, b)' = Ours(a, b)
        /\ \A w, a : Theirs(w, a)' = Theirs(w, a)
    BY <2>1, SameAttempt, SameMessages, ZenonT(30)
  <2>4. Flow'
    BY <2>1, <2>3, ZenonT(30)
       DEF ConnectInv, Flow, Resting, Opening, Asking, Replied, Sharing, PeerFair,
           One, Two, AnyPreface, AnyHeader, Accepts
  <2> QED BY <2>2, <2>4 DEF ConnectInv
<1>2. CASE Next
  BY <1>2, DecodePinStep, OpenStep, PrefaceStep, SendHelloStep, ReadHeaderStep,
     ReadMessageStep, BrowserReplyStep, NegotiateStep, AnswerStep, TimeOutStep,
     EndOfStreamStep, MuxStep, NodeHelloStep, NodeNegotiateStep, DamageStep, ZenonT(30)
     DEF Next, Client
<1> QED BY <1>1, <1>2

\* The invariant of the loops and of the handshake, for any configuration.
THEOREM ConnectInvariance == Spec => []ConnectInv
BY ConnectInit, ConnectInductive, PTL DEF Spec

-----------------------------------------------------------------------------
(* What the invariant says.                                                *)

\* The variables keep their types and bounds.
LEMMA TypesHold == ConnectInv => TypeOK
<1> SUFFICES ASSUME ConnectInv PROVE TypeOK
  OBVIOUS
<1>1. Given /\ Flow /\ Loops
  BY ZenonT(30) DEF ConnectInv
<1>2. /\ Len(Pins) \in Nat /\ DOMAIN Pins = 1 .. Len(Pins)
      /\ Len(list) \in Nat /\ DOMAIN list = 1 .. Len(list)
  BY <1>1, GivenTypes, ZenonT(30)
<1>3. /\ pin \in 1 .. Len(Pins) \/ Pins = <<>>
      /\ at \in DOMAIN list \/ list = <<>>
      /\ attempts \in 0 .. Len(Pins) * Len(list)
  <2>1. Len(Pins) * Len(list) \in Nat
    BY <1>2
  <2>2. CASE pin \in DOMAIN Pins /\ at \in DOMAIN list /\ attempts <= Tried(pin, at)
    <3>1. /\ pin \in 1 .. Len(Pins) /\ at \in 1 .. Len(list) /\ attempts \in Nat
          /\ attempts <= (pin - 1) * Len(list) + at
      BY <1>1, <1>2, <2>2, ZenonT(30) DEF Loops, Tried
    <3>2. /\ (pin - 1) * Len(list) + at \in Nat
          /\ (pin - 1) * Len(list) + at <= Len(Pins) * Len(list)
      BY <1>2, <3>1, TriedBound
    <3>3. attempts <= Len(Pins) * Len(list)
      BY <2>1, <3>1, <3>2
    <3> QED BY <2>1, <2>2, <3>1, <3>3
  <2>3. CASE attempts = 0 /\ (Pins = <<>> \/ list = <<>>) /\ pin = 1 /\ at = 1
    <3>1. Pins # <<>> => Len(Pins) > 0
      BY <1>1, GivenTypes
    <3>2. list # <<>> => Len(list) > 0
      BY <1>1 DEF Given
    <3>3. Pins # <<>> => 1 \in 1 .. Len(Pins)
      BY <1>2, <3>1
    <3>4. list # <<>> => 1 \in 1 .. Len(list)
      BY <1>2, <3>2
    <3>5. 0 \in 0 .. Len(Pins) * Len(list)
      BY <2>1
    <3> QED BY <1>2, <2>3, <3>3, <3>4, <3>5, ZenonT(30)
  <2> QED BY <1>1, <2>2, <2>3 DEF Loops
<1>4. state \in {NoState, Hashed(Asked), Hashed(Agreed)}
  BY <1>1, ZenonT(30) DEF Flow, Resting, Opening, Asking, Replied, Sharing
<1>5. Len(state.ck) <= 2 /\ state.n \in 0 .. 1 /\ Len(state.h) \in {0, 3, 5}
  BY <1>4, StateSizes, ZenonT(30)
<1>6. session \in {NoSession, Ours(0, 0), Ours(1, 0), Ours(1, 1)}
  BY <1>1, ZenonT(30) DEF Flow, Resting, Opening, Asking, Replied, Sharing
<1>7. session.seal.nonce \in 0 .. 1 /\ session.open.nonce \in 0 .. 1
  <2>1. NoSession.seal.nonce = 0 /\ NoSession.open.nonce = 0 /\ 0 \in 0 .. 1 /\ 1 \in 0 .. 1
    BY SessionFields, Empty, ZenonT(30)
  <2> QED BY <1>6, <2>1, SessionNonces, ZenonT(30)
<1>8. peer.at \in {"none", "mux", "hello", "negotiate", "up", "gone"}
  <2>1. /\ NoPeer.at = "none" /\ Theirs("negotiate", 0).at = "negotiate"
        /\ Theirs("gone", 0).at = "gone" /\ Theirs("up", 1).at = "up"
    BY SessionFields, ZenonT(30)
  <2> QED BY <1>1, <2>1, ZenonT(30) DEF Flow, Resting, Opening, Asking, Replied, Sharing
<1>9. Len(up) <= 2 /\ Len(down) <= 2
  <2>1. ASSUME NEW q, q = <<>> \/ (\E m : q = <<m>>) \/ (\E m, n : q = <<m, n>>)
        PROVE  Len(q) <= 2
    BY <2>1, Lengths, ZenonT(30)
  <2>2. /\ up = <<>> \/ (\E m : up = <<m>>) \/ (\E m, n : up = <<m, n>>)
        /\ down = <<>> \/ (\E m : down = <<m>>) \/ (\E m, n : down = <<m, n>>)
    BY <1>1, ZenonT(30) DEF Flow, Resting, Opening, Asking, Replied, Sharing, One, Two
  <2> QED BY <2>1, <2>2
<1>10. pc \in {"pin", "open", "preface", "hello", "header", "message",
               "negotiate", "answer", "connected", "failed"}
  BY <1>1, ZenonT(30) DEF Flow, Resting, Opening, Asking, Replied, Sharing
<1> QED BY <1>1, <1>3, <1>5, <1>7, <1>8, <1>9, <1>10, ZenonT(30) DEF TypeOK, Given, Loops

\* In the stages of Sharing both ends have one session.
LEMMA SessionHolds == ConnectInv => SessionAgrees
<1> SUFFICES ASSUME ConnectInv, pc \in {"negotiate", "answer", "connected"} PROVE SessionAgrees
  BY ZenonT(30) DEF SessionAgrees
<1>1. Sharing /\ Node.static = Pins[pin]
  BY Stages DEF ConnectInv, Flow
<1>2. \E a, b, w, n : session = Ours(a, b) /\ peer = Theirs(w, n)
  BY <1>1, ZenonT(30) DEF Sharing
<1>3. /\ session.hash = peer.session.hash
      /\ session.seal.key = peer.session.open.key
      /\ session.open.key = peer.session.seal.key
      /\ session.seal.key = Key(1) /\ session.open.key = Key(2)
  BY <1>2, SessionKeys, ZenonT(30)
<1>4. Key(1) # Key(2)
  BY SessionFields, ZenonT(30)
<1>5. pc = "connected" => /\ session = Ours(1, 1) /\ peer = Theirs("up", 1)
                          /\ Accepts(Kind, Node.offer)
  BY <1>1, ZenonT(30) DEF Sharing
<1>6. pc = "connected" => /\ session.seal.nonce = peer.session.open.nonce
                          /\ session.open.nonce = peer.session.seal.nonce
                          /\ REQUIRED \subseteq Node.offer.features
  BY <1>5, SessionNonces, ZenonT(30) DEF Accepts
<1> QED BY <1>1, <1>3, <1>4, <1>6, ZenonT(30) DEF SessionAgrees

\* An M5oH endpoint comes after the others, and all before it have failed.
LEMMA PolicyHolds == ConnectInv => PolicyKept
<1> SUFFICES ASSUME ConnectInv, Trying PROVE PolicyKept
  BY ZenonT(30) DEF PolicyKept
<1> DEFINE l == config.endpoints
           P == {i \in DOMAIN l : ~IsM5oh(l[i])}
<1>1. /\ at \in DOMAIN list /\ list \in Candidates(l, config.mode) /\ l \in Seq(Kinds)
      /\ \A a \in DOMAIN list : a < at => \E g \in failures : g.pin = pin /\ g.at = a
  BY ConnectAssumption, ZenonT(30) DEF ConnectInv, Given, Loops, Trying
<1>2. config.mode = "mst5" => ~IsM5oh(Kind)
  <2>1. config.mode = "mst5" => list \in Raw(l)
    BY <1>1, CandidatesOf, ZenonT(30)
  <2> QED BY <1>1, <2>1, RawList, ZenonT(30) DEF Kind
<1>3. config.mode = "m5oh" => IsM5oh(Kind)
  <2>1. config.mode = "m5oh" => list \in M5oh(l)
    BY <1>1, CandidatesOf, ZenonT(30)
  <2> QED BY <1>1, <2>1, M5ohList DEF Kind
<1>4. ASSUME config.mode = "auto", IsM5oh(Kind)
      PROVE  \E g \in [P -> DOMAIN list] :
               /\ \A i, j \in DOMAIN g : g[i] = g[j] => i = j
               /\ \A i \in DOMAIN g : /\ list[g[i]] = l[i]
                                     /\ \E f \in failures : f.pin = pin /\ f.at = g[i]
  <2>1. PICK raw \in Raw(l), m5oh \in M5oh(l) : list = raw \o m5oh
    <3>1. list \in Candidates(l, "auto")
      BY <1>1, <1>4, ZenonT(30)
    <3> HIDE DEF l
    <3> QED BY <3>1, AutoCandidates, ZenonT(30)
  <2>2. /\ raw \in Seq(Kinds) /\ \A n \in DOMAIN raw : ~IsM5oh(raw[n])
        /\ m5oh \in Seq(Kinds)
    BY <1>1, RawList, M5ohList, ZenonT(30)
  <2>3. PICK f \in [DOMAIN raw -> DOMAIN l] :
          /\ \A n \in DOMAIN raw : raw[n] = l[f[n]]
          /\ \A i \in DOMAIN l : ~IsM5oh(l[i]) => \E n \in DOMAIN raw : f[n] = i
    BY <1>1, RawList, ZenonT(30)
  <2>4. /\ DOMAIN list = 1 .. Len(raw) + Len(m5oh) /\ Len(raw) \in Nat /\ Len(m5oh) \in Nat
        /\ DOMAIN raw = 1 .. Len(raw) /\ \A n \in 1 .. Len(raw) : list[n] = raw[n]
    BY <2>1, <2>2
  <2>5. at > Len(raw)
    <3>1. at \in 1 .. Len(raw) => list[at] = raw[at] /\ ~IsM5oh(raw[at])
      BY <2>2, <2>4, ZenonT(30)
    <3>2. at \notin 1 .. Len(raw)
      BY <1>4, <3>1, ZenonT(30) DEF Kind
    <3>3. at \in 1 .. Len(raw) + Len(m5oh)
      BY <1>1, <2>4, ZenonT(30)
    <3> QED BY <2>4, <3>2, <3>3, Below, ZenonT(30)
  <2>6. \A n \in DOMAIN raw : /\ n \in DOMAIN list /\ list[n] = l[f[n]]
                              /\ \E q \in failures : q.pin = pin /\ q.at = n
    <3>1. \A n \in DOMAIN raw : n \in DOMAIN list /\ n < at /\ list[n] = l[f[n]]
      <4>1. at \in 1 .. Len(raw) + Len(m5oh)
        BY <1>1, <2>4, ZenonT(30)
      <4>2. \A n \in 1 .. Len(raw) : n \in 1 .. Len(raw) + Len(m5oh) /\ n < at
        BY <2>4, <2>5, <4>1, Below, ZenonT(30)
      <4> QED BY <2>3, <2>4, <4>2, ZenonT(30)
    <3> QED BY <1>1, <3>1
  <2> DEFINE g == [i \in P |-> CHOOSE n \in DOMAIN raw : f[n] = i]
  <2>7. \A i \in P : g[i] \in DOMAIN raw /\ f[g[i]] = i
    BY <2>3, ZenonT(30)
  <2>8. DOMAIN g = P
    BY ZenonT(30)
  <2>9. g \in [P -> DOMAIN list]
    BY <2>6, <2>7, ZenonT(30)
  <2> HIDE DEF g
  <2>10. \A i, j \in DOMAIN g : g[i] = g[j] => i = j
    BY <2>7, <2>8, ZenonT(30)
  <2>11. \A i \in DOMAIN g : /\ list[g[i]] = l[i]
                             /\ \E q \in failures : q.pin = pin /\ q.at = g[i]
    BY <2>6, <2>7, <2>8, ZenonT(30)
  <2> QED BY <2>9, <2>10, <2>11, ZenonT(30)
<1> QED BY <1>2, <1>3, <1>4, ZenonT(30) DEF PolicyKept

\* Types, causes and policy: the parts of AttemptsJustified.
LEMMA AttemptsHold == ConnectInv => AttemptsJustified
BY TypesHold, PolicyHolds DEF AttemptsJustified, ConnectInv

\* A client that leaves client_handshake shares its session with a node that
\* holds the pinned key, whatever is damaged on the way.
THEOREM HandshakeAgrees == Spec => []SessionAgrees
BY ConnectInvariance, SessionHolds, PTL

\* The loops of connect_with_public_keys and connect_with_key_and_options give
\* up a pin and an endpoint only for a reason, and keep the transport mode.
THEOREM AttemptsAreJustified == Spec => []AttemptsJustified
BY AttemptsHold, ConnectInvariance, PTL

-----------------------------------------------------------------------------
(* The steps of the calls.                                                 *)

\* The configured calls: call 0 is an entry, the others are not.
LEMMA CallTypes ==
  ASSUME Given
  PROVE  /\ 0 \in Tasks /\ Tasks \subseteq Nat /\ Do(0) \in Entries
         /\ \A t \in Tasks : t # 0 => Do(t) \in {"authenticate", "login", "query"}
         /\ \A t \in Tasks : \A k : Speaker(t, k) \in Who /\ Speaker(t, k) # None
<1> DEFINE l == config.calls
           R == [do : Entries \cup {"authenticate", "login", "query"}, who : Who]
<1>1. /\ l \in Seq(R) /\ l # <<>> /\ None \notin Who /\ "anonymous" \in Who
      /\ \A i \in DOMAIN l : l[i].do \in Entries <=> i = 1
  BY AuthenticateAssumption, ZenonT(30) DEF Given
<1>2. Len(l) \in Nat /\ Len(l) > 0 /\ DOMAIN l = 1 .. Len(l)
  BY <1>1
<1>3. Tasks = 0 .. Len(l) - 1
  BY ZenonT(30) DEF Tasks
<1>4. \A t \in Tasks : t + 1 \in DOMAIN l /\ t \in Nat
  BY <1>2, <1>3
<1>5. \A t \in Tasks : l[t + 1] \in R
  <2> HIDE DEF R, l
  <2>1. \A i \in DOMAIN l : l[i] \in R
    BY <1>1
  <2> QED BY <1>4, <2>1, ZenonT(30)
<1>6. \A t \in Tasks : l[t + 1].who \in Who
                       /\ l[t + 1].do \in Entries \cup {"authenticate", "login", "query"}
  BY <1>5, ZenonT(30)
<1>7. 0 \in Tasks
  BY <1>2, <1>3
<1>8. \A t \in Tasks : Do(t) \in Entries <=> t = 0
  <2>1. \A t \in Tasks : t + 1 = 1 <=> t = 0
    BY <1>4
  <2> QED BY <1>1, <1>4, <2>1, ZenonT(30) DEF Do
<1>9. \A t \in Tasks : t # 0 => Do(t) \in {"authenticate", "login", "query"}
  BY <1>6, <1>8, ZenonT(30) DEF Do
<1>10. \A t \in Tasks : \A k : Speaker(t, k) \in Who
  BY <1>1, <1>6, ZenonT(30) DEF Speaker
<1> QED BY <1>1, <1>4, <1>7, <1>8, <1>9, <1>10, ZenonT(30)

\* What is said about the calls stays with the configuration.
LEMMA SameCalls ==
  ASSUME config' = config
  PROVE  /\ Tasks' = Tasks
         /\ \A t : Do(t)' = Do(t)
         /\ \A t, k : Speaker(t, k)' = Speaker(t, k)
BY ZenonT(30) DEF Tasks, Do, Speaker

\* A request goes out.
Sending(t, k) ==
  /\ t \in Tasks /\ Send(t, k)
  /\ \/ t = 0 /\ task[t] = "begin" /\ k = "auth" /\ Needs(Do(0)) \subseteq Node.offer.features
     \/ t = 0 /\ task[t] = "joining" /\ k = "join"
     \/ /\ t # 0 /\ task[t] = "idle" /\ task[0] = "ok"
        /\ k = "auth" \/ (k = "query" /\ principal # None)
        /\ config.overlap \/ \A u \in Tasks : ~Active(u)
     \/ t # 0 /\ task[t] = "command" /\ k = "login" /\ principal # None

\* A call fails.
Failing(t) ==
  /\ t \in Tasks /\ Failed(t) /\ task[t] \notin {"ok", "error"}
  /\ task[t] = "idle" /\ t # 0 => task[0] = "ok"

\* A call goes on, with the principal as it is.
Moving(t, w) ==
  /\ t \in Tasks /\ Goto(t, w) /\ UNCHANGED principal
  /\ \/ t = 0 /\ task[t] = "idle" /\ w = "begin" /\ pc = "connected" /\ socket' = "open"
     \/ t = 0 /\ task[t] = "begin" /\ w = "ok" /\ Needs(Do(0)) = {} /\ socket' = socket
     \/ /\ t # 0 /\ task[t] = "idle" /\ task[0] = "ok" /\ w = "command" /\ principal # None
        /\ config.overlap \/ \A u \in Tasks : ~Active(u)
        /\ socket' = socket
     \/ task[t] \in {"join", "query"} /\ answer[t] = "yes" /\ w = "ok" /\ socket' = socket

\* A call sets the principal.
Promoting(t, w) ==
  /\ t \in Tasks /\ Goto(t, w) /\ socket' = socket
  /\ task[t] \in {"auth", "login"} /\ answer[t] = "yes" /\ principal' = Speaker(t, task[t])
  /\ \/ w = "joining" /\ t = 0
     \/ w = "command" /\ t # 0 /\ task[t] = "auth"
     \/ w = "ok"

\* There are no other steps.
LEMMA AuthCases ==
  ASSUME AuthInv, AuthNext
  PROVE  \/ Next /\ UNCHANGED calls
         \/ \E t \in Tasks : \/ \E k \in Waiting : Sending(t, k)
                             \/ Failing(t)
                             \/ \E w : Moving(t, w)
                             \/ \E w : Promoting(t, w)
         \/ Closes \/ NodeServes \/ Lose
<1>1. /\ 0 \in Tasks /\ Do(0) \in Entries
      /\ \A t \in Tasks : t # 0 => Do(t) \in {"authenticate", "login", "query"}
  BY CallTypes, ZenonT(30) DEF AuthInv, ConnectInv
<1>2. task[0] \in {"idle", "begin", "auth", "joining", "join", "ok", "error"}
  BY ZenonT(30) DEF AuthInv, Order
<1>3. ASSUME Connected
      PROVE  Failing(0) \/ Moving(0, "begin")
  BY <1>1, <1>3, ZenonT(30) DEF Connected, Failing, Moving
<1>4. ASSUME Begin
      PROVE  Failing(0) \/ Moving(0, "ok") \/ Sending(0, "auth")
  BY <1>1, <1>4, ZenonT(30) DEF Begin, Failing, Moving, Sending, Returned, Keeps, Needs
<1>5. ASSUME Join
      PROVE  Sending(0, "join")
  BY <1>1, <1>5, ZenonT(30) DEF Join, Sending
<1>6. ASSUME NEW t \in Tasks, Call(t)
      PROVE  Failing(t) \/ Moving(t, "command") \/ Sending(t, "auth") \/ Sending(t, "query")
  <2>1. /\ t # 0 /\ task[t] = "idle" /\ task[0] = "ok"
        /\ config.overlap \/ \A u \in Tasks : ~Active(u)
    BY <1>6, ZenonT(30) DEF Call
  <2>2. CASE Do(t) = "authenticate"
    <3>1. Send(t, "auth")
      BY <1>6, <2>2, ZenonT(30) DEF Call
    <3> QED BY <2>1, <3>1, ZenonT(30) DEF Sending
  <2>3. CASE Do(t) = "query"
    <3>1. IF principal # None THEN Send(t, "query") ELSE Failed(t)
      BY <1>6, <2>3, ZenonT(30) DEF Call, request_cbor, has_principal
    <3> QED BY <2>1, <3>1, ZenonT(30) DEF Sending, Failing
  <2>4. CASE Do(t) = "login"
    <3>1. IF principal # None THEN Goto(t, "command") /\ UNCHANGED <<principal, socket>>
          ELSE Send(t, "auth")
      BY <1>6, <2>4, ZenonT(30) DEF Call, has_principal
    <3> QED BY <2>1, <3>1, ZenonT(30) DEF Sending, Moving
  <2> QED BY <1>1, <2>1, <2>2, <2>3, <2>4, ZenonT(30)
<1>7. ASSUME NEW t \in Tasks, Command(t)
      PROVE  Failing(t) \/ Sending(t, "login")
  BY <1>2, <1>7, ZenonT(30) DEF Command, request_cbor, has_principal, Failing, Sending
<1>8. ASSUME NEW t \in Tasks, Answered(t)
      PROVE  Failing(t) \/ (\E w : Moving(t, w)) \/ \E w : Promoting(t, w)
  <2>1. task[t] \in Waiting /\ answer[t] # None
    BY <1>8, ZenonT(30) DEF Answered
  <2>2. CASE answer[t] # "yes"
    BY <1>8, <2>1, <2>2 DEF Answered, Failing, Waiting
  <2>3. CASE answer[t] = "yes" /\ task[t] \in {"auth", "login"}
    <3> DEFINE w == IF Do(t) = "voice" THEN "joining"
                    ELSE IF Do(t) = "login" /\ task[t] = "auth" THEN "command" ELSE "ok"
    <3>1. Goto(t, w) /\ principal' = Speaker(t, task[t]) /\ socket' = socket
      BY <1>8, <2>3, ZenonT(30) DEF Answered, set_principal, Keeps
    <3>2. \/ w = "joining" /\ t = 0
          \/ w = "command" /\ t # 0 /\ task[t] = "auth"
          \/ w = "ok"
      BY <1>1 DEF Entries
    <3> HIDE DEF w
    <3> QED BY <2>3, <3>1, <3>2, ZenonT(30) DEF Promoting
  <2>4. CASE answer[t] = "yes" /\ task[t] \notin {"auth", "login"}
    <3>1. Goto(t, "ok") /\ UNCHANGED principal /\ socket' = socket
      BY <1>8, <2>4, ZenonT(30) DEF Answered, Returned, Keeps
    <3> QED BY <2>1, <2>4, <3>1, ZenonT(30) DEF Moving, Waiting
  <2> QED BY <2>2, <2>3, <2>4, ZenonT(30)
<1>9. ASSUME NEW t \in Tasks, RequestFails(t) \/ (t = 0 /\ Cancel)
      PROVE  Failing(t)
  BY <1>9, ZenonT(30) DEF RequestFails, Cancel, Failing, Waiting
<1> QED BY <1>1, <1>3, <1>4, <1>5, <1>6, <1>7, <1>8, <1>9, ZenonT(30) DEF AuthNext, Entry, Step, Waiting

-----------------------------------------------------------------------------
(* The wire.                                                               *)

\* The requests on the wire.
LEMMA WireTypes ==
  ASSUME AuthTypeOK
  PROVE  \A i \in DOMAIN wire : /\ wire[i] \in [task : Tasks, kind : Waiting]
                                /\ wire[i].task \in Tasks /\ wire[i].kind \in Waiting
<1> DEFINE R == [task : Tasks, kind : Waiting]
<1>1. wire \in Seq(R)
  BY DEF AuthTypeOK
<1> HIDE DEF R
<1>2. \A i \in DOMAIN wire : wire[i] \in R
  BY <1>1
<1> QED BY <1>2, ZenonT(30) DEF R

Places == Waiting \cup {"idle", "begin", "joining", "command", "ok", "error"}

\* A task moves from where it was; the others stay.
LEMMA Moved ==
  ASSUME Order, NEW t \in Tasks, NEW w \in Places, task' = [task EXCEPT ![t] = w]
  PROVE  /\ task'[t] = w /\ \A u \in Tasks : u # t => task'[u] = task[u]
         /\ task' \in [Tasks -> Places]
BY ZenonT(30) DEF Order, AuthTypeOK, Places

\* A step of one call that sends nothing.
LEMMA GotoOrder ==
  ASSUME Order, Given, NEW t \in Tasks, NEW w \in Places, Goto(t, w),
         Sent(task[t]) \subseteq Sent(w),
         principal' \in Who \cup {None}, socket' \in {None, "open", "closing", "closed", "lost"}
  PROVE  AuthTypeOK' /\ \A i \in DOMAIN wire' : wire'[i].kind \in Sent(task'[wire'[i].task])
<1>1. UNCHANGED <<vars, answer, wire, seat>> /\ task' = [task EXCEPT ![t] = w]
  BY DEF Goto
<1>2. Tasks' = Tasks
  BY <1>1, SameCalls, ZenonT(30) DEF vars
<1>3. AuthTypeOK'
  <2>1. task' \in [Tasks -> Places]
    BY <1>1, Moved, ZenonT(30)
  <2> QED BY <1>1, <1>2, <2>1 DEF Order, AuthTypeOK, Places
<1>4. ASSUME NEW i \in DOMAIN wire' PROVE wire'[i].kind \in Sent(task'[wire'[i].task])
  <2>1. i \in DOMAIN wire /\ wire'[i] = wire[i] /\ wire[i].kind \in Sent(task[wire[i].task])
    BY <1>1, ZenonT(30) DEF Order
  <2>2. wire[i].task \in Tasks
    BY <2>1, WireTypes, ZenonT(30) DEF Order
  <2>3. Sent(task[wire[i].task]) \subseteq Sent(task'[wire[i].task])
    BY <1>1, <2>2, Moved, ZenonT(30)
  <2> QED BY <2>1, <2>3, ZenonT(30)
<1> QED BY <1>3, <1>4, ZenonT(30)

\* Sending a request.
LEMMA SendingOrder ==
  ASSUME AuthInv, NEW t \in Tasks, NEW k \in Waiting, Sending(t, k)
  PROVE  Order'
<1> DEFINE m == [task |-> t, kind |-> k]
<1>1. /\ UNCHANGED <<vars, principal, seat, socket>> /\ wire' = Append(wire, m)
      /\ task' = [task EXCEPT ![t] = k] /\ answer' = [answer EXCEPT ![t] = None]
      /\ Order /\ Given /\ AuthTypeOK
  BY ZenonT(30) DEF Sending, Send, AuthInv, ConnectInv, Order
<1>2. Tasks' = Tasks /\ (\A u : Do(u)' = Do(u)) /\ Node' = Node /\ pc' = pc /\ 0 \in Tasks
  BY <1>1, SameCalls, CallTypes, ZenonT(30) DEF vars, Node
<1>3. k \in Places /\ k \notin Sent(task[t]) /\ Sent(task[t]) \cup {k} \subseteq Sent(k)
  BY DEF Sending, Sent, Waiting, Places
<1>4. task'[t] = k /\ (\A u \in Tasks : u # t => task'[u] = task[u]) /\ task' \in [Tasks -> Places]
  BY <1>1, <1>3, Moved, ZenonT(30)
<1>5. wire \in Seq([task : Tasks, kind : Waiting]) /\ m \in [task : Tasks, kind : Waiting]
  BY <1>1 DEF AuthTypeOK
<1>6. \A i \in DOMAIN wire : /\ wire[i].kind \in Sent(task[wire[i].task])
                             /\ wire[i].task \in Tasks /\ wire[i] # m
  <2>1. m.task = t /\ m.kind = k
    BY Fields, ZenonT(30)
  <2> HIDE DEF m
  <2> QED BY <1>1, <1>3, <2>1, WireTypes, ZenonT(30) DEF Order
<1>7. /\ wire' \in Seq([task : Tasks, kind : Waiting])
      /\ \A i \in DOMAIN wire' :
           (i \in DOMAIN wire /\ wire'[i] = wire[i]) \/ (i = Len(wire) + 1 /\ wire'[i] = m)
  <2> DEFINE R == [task : Tasks, kind : Waiting]
  <2>1. wire \in Seq(R) /\ m \in R
    BY <1>5, ZenonT(30)
  <2> HIDE DEF m, R
  <2>2. /\ Append(wire, m) \in Seq(R)
        /\ \A i \in DOMAIN Append(wire, m) :
             \/ i \in DOMAIN wire /\ Append(wire, m)[i] = wire[i]
             \/ i = Len(wire) + 1 /\ Append(wire, m)[i] = m
    BY <2>1, OnWire, ZenonT(30)
  <2> QED BY <1>1, <2>2, ZenonT(30) DEF R
<1>8. \A i, j \in DOMAIN wire' : wire'[i] = wire'[j] => i = j
  <2> HIDE DEF m
  <2>1. \A i, j \in DOMAIN wire : wire[i] = wire[j] => i = j
    BY <1>1, ZenonT(30) DEF AuthTypeOK
  <2> DEFINE R == [task : Tasks, kind : Waiting]
  <2>2. wire \in Seq(R) /\ m \in R /\ \A i \in DOMAIN wire : wire[i] # m
    BY <1>5, <1>6, ZenonT(30)
  <2> HIDE DEF R
  <2>3. \A i, j \in DOMAIN Append(wire, m) : Append(wire, m)[i] = Append(wire, m)[j] => i = j
    BY <2>1, <2>2, OnceOnWire, ZenonT(30)
  <2> QED BY <1>1, <2>3, ZenonT(30)
<1>9. AuthTypeOK'
  <2>1. answer' \in [Tasks -> {None, "yes", "no", "odd"}]
    BY <1>1 DEF AuthTypeOK
  <2> QED BY <1>1, <1>2, <1>4, <1>7, <1>8, <2>1, ZenonT(30) DEF AuthTypeOK, Places
<1>10. \A i \in DOMAIN wire' : wire'[i].kind \in Sent(task'[wire'[i].task])
  <2>1. ASSUME NEW i \in DOMAIN wire' PROVE wire'[i].kind \in Sent(task'[wire'[i].task])
    <3>1. CASE wire'[i] = m
      <4>1. m.task = t /\ m.kind = k
        BY Fields, ZenonT(30)
      <4> HIDE DEF m
      <4> QED BY <1>3, <1>4, <3>1, <4>1, ZenonT(30)
    <3>2. CASE i \in DOMAIN wire /\ wire'[i] = wire[i]
      <4> HIDE DEF m
      <4> QED BY <1>3, <1>4, <1>6, <3>2, ZenonT(30)
    <3> QED BY <1>7, <3>1, <3>2, ZenonT(30)
  <2> QED BY <2>1, ZenonT(30)
<1>11. pc = "connected" /\ socket \in {"open", "lost"} /\ Needs(Do(0)) \subseteq Node.offer.features
  <2>1. task[0] \notin {"idle", "error"} /\ (task[0] = "begin" => t = 0 /\ task[t] = "begin")
    BY <1>1, ZenonT(30) DEF Sending, Order
  <2>2. task[0] = "begin" => Needs(Do(0)) \subseteq Node.offer.features
    BY <2>1, ZenonT(30) DEF Sending
  <2> QED BY <1>1, <2>1, <2>2, ZenonT(30) DEF Order
<1>12. /\ task'[0] \in {"idle", "begin", "auth", "joining", "join", "ok", "error"}
       /\ \A u \in Tasks : u # 0 /\ task'[u] # "idle" => task'[0] = "ok"
       /\ \A u \in Tasks : u # 0 => task'[u] \notin {"begin", "joining", "join"}
  BY <1>1, <1>2, <1>4, ZenonT(30) DEF Sending, Order
<1>13. Needs(Do(0))' = Needs(Do(0))
  BY <1>2, ZenonT(30) DEF Needs
<1> QED BY <1>1, <1>2, <1>9, <1>10, <1>11, <1>12, <1>13, ZenonT(30) DEF Order

\* A call that fails.
LEMMA FailingOrder ==
  ASSUME AuthInv, NEW t \in Tasks, Failing(t)
  PROVE  Order'
<1>1. /\ UNCHANGED <<vars, answer, wire, seat, principal>> /\ task' = [task EXCEPT ![t] = "error"]
      /\ socket' = (IF t = 0 /\ socket = "open" THEN "closing" ELSE socket)
      /\ Goto(t, "error") /\ task[t] \notin {"ok", "error"}
      /\ task[t] = "idle" /\ t # 0 => task[0] = "ok"
      /\ Order /\ Given /\ AuthTypeOK
  BY ZenonT(30) DEF Failing, Failed, Goto, AuthInv, ConnectInv, Order
<1>2. Tasks' = Tasks /\ Needs(Do(0))' = Needs(Do(0)) /\ Node' = Node /\ pc' = pc /\ 0 \in Tasks
  BY <1>1, SameCalls, CallTypes, ZenonT(30) DEF vars, Node, Needs
<1>3. "error" \in Places /\ Sent(task[t]) \subseteq Sent("error")
  BY DEF Sent, Waiting, Places
<1>4. task'[t] = "error" /\ (\A u \in Tasks : u # t => task'[u] = task[u])
  BY <1>1, <1>3, Moved, ZenonT(30)
<1>5. AuthTypeOK' /\ \A i \in DOMAIN wire' : wire'[i].kind \in Sent(task'[wire'[i].task])
  <2>1. /\ principal' \in Who \cup {None}
        /\ socket' \in {None, "open", "closing", "closed", "lost"}
    BY <1>1, ZenonT(30) DEF AuthTypeOK
  <2> QED BY <1>1, <1>3, <2>1, GotoOrder, ZenonT(30)
<1>6. /\ task'[0] \in {"idle", "begin", "auth", "joining", "join", "ok", "error"}
      /\ \A u \in Tasks : u # 0 /\ task'[u] # "idle" => task'[0] = "ok"
      /\ \A u \in Tasks : u # 0 => task'[u] \notin {"begin", "joining", "join"}
  <2>1. CASE t = 0
    BY <1>1, <1>4, <2>1, ZenonT(30) DEF Order
  <2>2. CASE t # 0
    <3>1. task'[0] = task[0] /\ task[0] \in {"idle", "begin", "auth", "joining", "join", "ok", "error"}
      BY <1>1, <1>2, <1>4, <2>2, ZenonT(30) DEF Order
    <3>2. task[0] = "ok"
      BY <1>1, <2>2, ZenonT(30) DEF Order
    <3> QED BY <1>1, <1>4, <2>2, <3>1, <3>2, ZenonT(30) DEF Order
  <2> QED BY <2>1, <2>2
<1>7. task'[0] \notin {"idle", "error"} => pc = "connected" /\ socket' \in {"open", "lost"}
  BY <1>1, <1>2, <1>4, ZenonT(30) DEF Order
<1>8. /\ wire' # <<>> => pc = "connected"
      /\ wire' # <<>> \/ task'[0] \notin {"idle", "begin", "error"} =>
           Needs(Do(0)) \subseteq Node.offer.features
  BY <1>1, <1>2, <1>4, ZenonT(30) DEF Order
<1> QED BY <1>2, <1>5, <1>6, <1>7, <1>8, ZenonT(30) DEF Order

\* A call that goes on.
LEMMA GoingOrder ==
  ASSUME AuthInv, NEW t \in Tasks, NEW w, Moving(t, w) \/ Promoting(t, w)
  PROVE  Order'
<1>1. Goto(t, w) /\ Order /\ Given /\ AuthTypeOK
  BY ZenonT(30) DEF Moving, Promoting, AuthInv, ConnectInv, Order
<1>2. UNCHANGED <<vars, answer, wire, seat>> /\ task' = [task EXCEPT ![t] = w]
  BY <1>1, ZenonT(30) DEF Goto
<1>3. /\ Tasks' = Tasks /\ Needs(Do(0))' = Needs(Do(0)) /\ Node' = Node /\ pc' = pc /\ 0 \in Tasks
      /\ \A k : Speaker(t, k) \in Who
  BY <1>1, <1>2, SameCalls, CallTypes DEF vars, Node, Needs
<1>4. w \in Places /\ Sent(task[t]) \subseteq Sent(w)
  <2>1. CASE Moving(t, w)
    BY <2>1, ZenonT(30) DEF Moving, Sent, Waiting, Places
  <2>2. CASE Promoting(t, w)
    <3>1. t = 0 => task[t] # "login"
      BY <1>1, ZenonT(30) DEF Order
    <3> QED BY <2>2, <3>1, ZenonT(30) DEF Promoting, Sent, Waiting, Places
  <2> QED BY <2>1, <2>2, ZenonT(30)
<1>5. task'[t] = w /\ (\A u \in Tasks : u # t => task'[u] = task[u])
  BY <1>1, <1>2, <1>4, Moved, ZenonT(30)
<1>6. AuthTypeOK' /\ \A i \in DOMAIN wire' : wire'[i].kind \in Sent(task'[wire'[i].task])
  <2>1. principal' \in Who \cup {None}
    BY <1>1, <1>3, ZenonT(30) DEF AuthTypeOK, Moving, Promoting
  <2>2. socket' \in {None, "open", "closing", "closed", "lost"}
    BY <1>1, ZenonT(30) DEF AuthTypeOK, Moving, Promoting
  <2> QED BY <1>1, <1>4, <2>1, <2>2, GotoOrder, ZenonT(30)
<1>7. /\ task'[0] \in {"idle", "begin", "auth", "joining", "join", "ok", "error"}
      /\ \A u \in Tasks : u # 0 /\ task'[u] # "idle" => task'[0] = "ok"
      /\ \A u \in Tasks : u # 0 => task'[u] \notin {"begin", "joining", "join"}
  <2>1. CASE t = 0
    <3>1. w \in {"begin", "joining", "ok"} /\ task[0] \notin {"ok", "error"}
      BY <2>1, ZenonT(30) DEF Moving, Promoting
    <3> QED BY <1>1, <1>5, <2>1, <3>1 DEF Order
  <2>2. CASE t # 0
    <3>1. w \in {"command", "ok"} /\ (task[t] = "idle" => task[0] = "ok")
      BY <1>1, <2>2, ZenonT(30) DEF Moving, Promoting
    <3> QED BY <1>1, <1>3, <1>5, <2>2, <3>1, ZenonT(30) DEF Order
  <2> QED BY <2>1, <2>2, ZenonT(30)
<1>8. task'[0] \notin {"idle", "error"} => pc = "connected" /\ socket' \in {"open", "lost"}
  <2>1. \/ t = 0 /\ task[t] = "idle" /\ pc = "connected" /\ socket' = "open"
        \/ socket' = socket /\ (t = 0 => task[t] \notin {"idle", "error"})
    BY ZenonT(30) DEF Moving, Promoting
  <2> QED BY <1>1, <1>3, <1>5, <2>1, ZenonT(30) DEF Order
<1>9. /\ wire' # <<>> => pc = "connected"
      /\ wire' # <<>> \/ task'[0] \notin {"idle", "begin", "error"} =>
           Needs(Do(0)) \subseteq Node.offer.features
  <2>1. \/ t # 0
        \/ w = "begin"
        \/ Needs(Do(0)) = {}
        \/ task[0] \notin {"idle", "begin", "error"}
    BY ZenonT(30) DEF Moving, Promoting
  <2> QED BY <1>1, <1>2, <1>3, <1>5, <2>1, ZenonT(30) DEF Order
<1> QED BY <1>3, <1>6, <1>7, <1>8, <1>9, ZenonT(30) DEF Order

\* The node and the connection.
LEMMA OutsideOrder ==
  ASSUME AuthInv, Closes \/ NodeServes \/ Lose
  PROVE  Order'
<1>1. UNCHANGED <<vars, task, principal>> /\ Order /\ Given /\ AuthTypeOK
  BY ZenonT(30) DEF Closes, NodeServes, Lose, AuthInv, ConnectInv, Order
<1>2. /\ Tasks' = Tasks /\ Needs(Do(0))' = Needs(Do(0)) /\ Node' = Node /\ pc' = pc
      /\ \A t \in Tasks : \A k : Speaker(t, k) \in Who
  <2>1. Tasks' = Tasks /\ Do(0)' = Do(0) /\ Node' = Node /\ pc' = pc
    BY <1>1, SameCalls, ZenonT(30) DEF vars, Node
  <2>2. \A t \in Tasks : \A k : Speaker(t, k) \in Who
    BY <1>1, CallTypes, ZenonT(30)
  <2> QED BY <2>1, <2>2, ZenonT(30) DEF Needs
<1>3. task[0] \notin {"idle", "error"} => socket' \in {"open", "lost"}
  BY <1>1, ZenonT(30) DEF Closes, NodeServes, Lose, Order
<1>4. socket' \in {None, "open", "closing", "closed", "lost"}
  BY <1>1, ZenonT(30) DEF Closes, NodeServes, Lose, AuthTypeOK
<1>5. wire' \in {wire, <<>>} \/ (wire # <<>> /\ wire' = Tail(wire))
  BY ZenonT(30) DEF Closes, NodeServes, Lose
<1>6. /\ wire' \in Seq([task : Tasks, kind : Waiting])
      /\ wire' # <<>> => wire # <<>>
      /\ \A i \in DOMAIN wire' : \E n \in 0 .. 1 : i + n \in DOMAIN wire /\ wire'[i] = wire[i + n]
      /\ \A i, j \in DOMAIN wire' : wire'[i] = wire'[j] => i = j
  <2> DEFINE S == Seq([task : Tasks, kind : Waiting])
  <2>1. wire \in S /\ \A i, j \in DOMAIN wire : wire[i] = wire[j] => i = j
    BY <1>1, ZenonT(30) DEF AuthTypeOK
  <2>2. CASE wire' = wire
    BY <2>1, <2>2
  <2>3. CASE wire' = <<>>
    BY <2>3
  <2>4. CASE wire # <<>> /\ wire' = Tail(wire)
    <3>1. /\ wire' \in S
          /\ \A i \in DOMAIN wire' : i \in Nat /\ i + 1 \in DOMAIN wire /\ wire'[i] = wire[i + 1]
      BY <2>1, <2>4, OffWire
    <3>2. \A i, j \in DOMAIN wire' : wire'[i] = wire'[j] => i = j
      <4>1. ASSUME NEW i \in DOMAIN wire', NEW j \in DOMAIN wire', wire'[i] = wire'[j]
            PROVE  i = j
        <5>1. i + 1 = j + 1 /\ i \in Nat /\ j \in Nat
          BY <2>1, <3>1, <4>1, ZenonT(30)
        <5> QED BY <5>1
      <4> QED BY <4>1
    <3> QED BY <2>4, <3>1, <3>2
  <2> QED BY <1>5, <2>2, <2>3, <2>4, ZenonT(30)
<1>7. seat' \in Who \cup {None} /\ answer' \in [Tasks -> {None, "yes", "no", "odd"}]
  <2>1. CASE UNCHANGED <<seat, answer>>
    BY <1>1, <2>1, ZenonT(30) DEF AuthTypeOK
  <2>2. CASE NodeServes
    <3>1. Head(wire).task \in Tasks /\ wire # <<>>
      <4>1. wire # <<>> /\ 1 \in DOMAIN wire /\ Head(wire) = wire[1]
        BY <1>1, <2>2, OffWire, ZenonT(30) DEF NodeServes, AuthTypeOK
      <4> QED BY <1>1, <4>1, WireTypes, ZenonT(30)
    <3>2. PICK v \in {"yes", "no", "odd"} :
            /\ seat' \in {seat, Speaker(Head(wire).task, Head(wire).kind)}
            /\ answer' \in {answer, [answer EXCEPT ![Head(wire).task] = v]}
      BY <2>2, ZenonT(30) DEF NodeServes
    <3>3. seat' \in Who \cup {None}
      <4>1. Speaker(Head(wire).task, Head(wire).kind) \in Who
        BY <1>2, <3>1, ZenonT(30)
      <4>2. seat \in Who \cup {None}
        BY <1>1, ZenonT(30) DEF AuthTypeOK
      <4> QED BY <3>2, <4>1, <4>2, ZenonT(30)
    <3> DEFINE V == {None, "yes", "no", "odd"}
    <3>4. answer \in [Tasks -> V] /\ v \in V
      BY <1>1, ZenonT(30) DEF AuthTypeOK
    <3>5. answer' \in [Tasks -> V]
      <4> HIDE DEF V
      <4>1. [answer EXCEPT ![Head(wire).task] = v] \in [Tasks -> V]
        BY <3>1, <3>4, Put, ZenonT(30)
      <4> QED BY <3>2, <3>4, <4>1, ZenonT(30)
    <3> QED BY <3>3, <3>5, ZenonT(30)
  <2> QED BY <2>1, <2>2 DEF Closes, Lose
<1>8. AuthTypeOK'
  BY <1>1, <1>2, <1>4, <1>6, <1>7, ZenonT(30) DEF AuthTypeOK
<1>9. \A i \in DOMAIN wire' : wire'[i].kind \in Sent(task'[wire'[i].task])
  BY <1>1, <1>6, ZenonT(30) DEF Order
<1> QED BY <1>1, <1>2, <1>3, <1>6, <1>8, <1>9, ZenonT(30) DEF Order

\* connect is over when it is connected: nothing is left on its way.
LEMMA ConnectedStays == ConnectInv /\ pc = "connected" => ~Next
<1> SUFFICES ASSUME ConnectInv, pc = "connected", Next PROVE FALSE
  BY ZenonT(30)
<1>1. up = <<>> /\ down = <<>>
  <2>1. Sharing
    BY Stages DEF ConnectInv, Flow
  <2> QED BY <2>1, ZenonT(30) DEF Sharing
<1>2. ~Client
  <2>1. ~(DecodePin \/ Open \/ write_router_preface \/ SendHello \/ ReadHeader)
    BY DEF DecodePin, Open, write_router_preface, SendHello, ReadHeader
  <2>2. ~(ReadMessage \/ BrowserReply \/ Negotiate \/ Answer \/ TimeOut \/ EndOfStream)
    BY DEF ReadMessage, BrowserReply, Negotiate, Answer, TimeOut, EndOfStream
  <2> QED BY <2>1, <2>2 DEF Client
<1>3. ~Mux /\ ~NodeHello /\ ~NodeNegotiate
  BY <1>1, ZenonT(30) DEF Mux, NodeHello, NodeNegotiate, NodeStep
<1>4. ~Damage
  BY <1>1 DEF Damage
<1> QED BY <1>2, <1>3, <1>4 DEF Next

\* No step of connecting changes the configuration.
LEMMA NextFixed == Next => config' = config
<1>1. Client => config' = config
  BY ZenonT(30) DEF Client, DecodePin, Open, write_router_preface, SendHello, ReadHeader, ReadMessage,
         BrowserReply, Negotiate, Answer, TimeOut, EndOfStream, fixed, Fail, Finish
<1>2. Mux \/ NodeHello \/ NodeNegotiate \/ Damage => config' = config
  BY ZenonT(30) DEF Mux, NodeHello, NodeNegotiate, NodeStep, Damage, fixed
<1> QED BY <1>1, <1>2, ZenonT(30) DEF Next

\* Connecting changes nothing for the calls.
LEMMA ConnectingOrder ==
  ASSUME AuthInv, Next, UNCHANGED calls
  PROVE  Order'
<1>1. pc # "connected" /\ UNCHANGED <<task, answer, wire, principal, seat, socket>> /\ Order
  BY ConnectedStays DEF AuthInv, calls
<1>2. config' = config
  BY NextFixed, ZenonT(30)
<1>3. task[0] \in {"idle", "error"} /\ wire = <<>>
  BY <1>1, ZenonT(30) DEF Order
<1>4. Tasks' = Tasks
  BY <1>2, SameCalls, ZenonT(30)
<1> QED BY <1>1, <1>3, <1>4, ZenonT(30) DEF Order, AuthTypeOK

-----------------------------------------------------------------------------
(* What the node has accepted.                                             *)

\* Who sends more than AUTH has been accepted.
LEMMA SendingAccepted ==
  ASSUME AuthInv, NEW t \in Tasks, NEW k \in Waiting, Sending(t, k)
  PROVE  Accepted'
<1> DEFINE m == [task |-> t, kind |-> k]
<1>1. /\ UNCHANGED <<vars, principal, seat, socket>> /\ wire' = Append(wire, m)
      /\ task' = [task EXCEPT ![t] = k] /\ answer' = [answer EXCEPT ![t] = None]
      /\ Order /\ Accepted /\ AuthTypeOK
  BY ZenonT(30) DEF Sending, Send, AuthInv, Order
<1>2. Tasks' = Tasks
  BY <1>1, SameCalls, ZenonT(30) DEF vars
<1>3. /\ task'[t] = k /\ (\A u \in Tasks : u # t => task'[u] = task[u])
      /\ answer'[t] = None /\ (\A u \in Tasks : u # t => answer'[u] = answer[u])
  BY <1>1, Moved, ZenonT(30) DEF Places, AuthTypeOK
<1>4. k # "auth" => seat # None
  BY <1>1, ZenonT(30) DEF Sending, Accepted
<1>5. \A i \in DOMAIN wire' : (i \in DOMAIN wire /\ wire'[i] = wire[i]) \/ wire'[i] = m
  <2>1. wire \in Seq([task : Tasks, kind : Waiting]) /\ m \in [task : Tasks, kind : Waiting]
    BY <1>1, ZenonT(30) DEF AuthTypeOK
  <2> QED BY <1>1, <2>1, OnWire, ZenonT(30)
<1>6. \A i \in DOMAIN wire' : wire'[i].kind # "auth" => seat # None
  <2>1. m.kind = k
    BY Fields, ZenonT(30)
  <2> HIDE DEF m
  <2> QED BY <1>1, <1>4, <1>5, <2>1, ZenonT(30) DEF Accepted
<1>7. \A u \in Tasks : \/ task'[u] \in {"joining", "command", "login", "join", "query"}
                       \/ task'[u] = "auth" /\ answer'[u] = "yes"
                       => seat # None
  BY <1>1, <1>3, <1>4, ZenonT(30) DEF Accepted, None
<1> QED BY <1>1, <1>2, <1>6, <1>7, ZenonT(30) DEF Accepted

\* Who goes on has been accepted.
LEMMA GoingAccepted ==
  ASSUME AuthInv, NEW t \in Tasks, NEW w,
         (w = "error" /\ Failing(t)) \/ Moving(t, w) \/ Promoting(t, w)
  PROVE  Accepted'
<1>1. /\ UNCHANGED <<vars, answer, wire, seat>> /\ task' = [task EXCEPT ![t] = w]
      /\ Order /\ Accepted
  BY ZenonT(30) DEF Failing, Failed, Moving, Promoting, Goto, AuthInv
<1>2. Tasks' = Tasks
  BY <1>1, SameCalls, ZenonT(30) DEF vars
<1>3. w \in {"begin", "joining", "command", "ok", "error"}
  BY DEF Moving, Promoting
<1>4. task'[t] = w /\ (\A u \in Tasks : u # t => task'[u] = task[u])
  BY <1>1, <1>3, Moved, ZenonT(30) DEF Places
<1>5. (principal' # None => seat # None) /\ (w \in {"joining", "command"} => seat # None)
  <2>1. CASE w = "error" /\ Failing(t)
    BY <1>1, <2>1, ZenonT(30) DEF Failing, Failed, Accepted
  <2>2. CASE Moving(t, w)
    BY <1>1, <2>2, ZenonT(30) DEF Moving, Accepted
  <2>3. CASE Promoting(t, w)
    BY <1>1, <2>3, ZenonT(30) DEF Promoting, Accepted
  <2> QED BY <2>1, <2>2, <2>3
<1>6. \A u \in Tasks : \/ task'[u] \in {"joining", "command", "login", "join", "query"}
                       \/ task'[u] = "auth" /\ answer[u] = "yes"
                       => seat # None
  BY <1>1, <1>3, <1>4, <1>5, ZenonT(30) DEF Accepted
<1> QED BY <1>1, <1>2, <1>5, <1>6, ZenonT(30) DEF Accepted

\* What the node does with the first request on the wire.
LEMMA Served ==
  ASSUME AuthInv, NodeServes
  PROVE  /\ wire # <<>> /\ 1 \in DOMAIN wire
         /\ wire[1].task \in Tasks /\ wire[1].kind \in Waiting
         /\ wire' = Tail(wire) /\ UNCHANGED <<vars, task, principal, socket>>
         /\ \E v \in {"yes", "no", "odd"} :
              /\ seat' = IF v # "no" /\ wire[1].kind \in {"auth", "login"}
                         THEN Speaker(wire[1].task, wire[1].kind) ELSE seat
              /\ answer' = IF task[wire[1].task] = wire[1].kind
                           THEN [answer EXCEPT ![wire[1].task] = v] ELSE answer
         /\ wire' \in Seq([task : Tasks, kind : Waiting])
         /\ \A i \in DOMAIN wire' : i + 1 \in DOMAIN wire /\ i + 1 # 1 /\ wire'[i] = wire[i + 1]
<1>1. AuthTypeOK /\ wire # <<>>
  BY ZenonT(30) DEF AuthInv, Order, NodeServes
<1>2. /\ 1 \in DOMAIN wire /\ Head(wire) = wire[1]
      /\ Tail(wire) \in Seq([task : Tasks, kind : Waiting])
      /\ \A i \in DOMAIN Tail(wire) : i + 1 \in DOMAIN wire /\ i + 1 # 1 /\ Tail(wire)[i] = wire[i + 1]
  <2>1. wire \in Seq([task : Tasks, kind : Waiting])
    BY <1>1 DEF AuthTypeOK
  <2> QED BY <1>1, <2>1, OffWire, ZenonT(30)
<1>3. wire[1].task \in Tasks /\ wire[1].kind \in Waiting
  BY <1>1, <1>2, WireTypes, ZenonT(30)
<1>4. \E v \in {"yes", "no", "odd"} :
        /\ seat' = IF v # "no" /\ wire[1].kind \in {"auth", "login"}
                   THEN Speaker(wire[1].task, wire[1].kind) ELSE seat
        /\ answer' = IF task[wire[1].task] = wire[1].kind
                     THEN [answer EXCEPT ![wire[1].task] = v] ELSE answer
  BY <1>2, ZenonT(30) DEF NodeServes
<1>5. wire' = Tail(wire) /\ UNCHANGED <<vars, task, principal, socket>>
  BY ZenonT(30) DEF NodeServes
<1> QED BY <1>1, <1>2, <1>3, <1>4, <1>5, ZenonT(30)

\* The node accepts before it answers.
LEMMA ServedAccepted ==
  ASSUME AuthInv, NodeServes
  PROVE  Accepted'
<1>1. PICK v \in {"yes", "no", "odd"} :
        /\ seat' = IF v # "no" /\ wire[1].kind \in {"auth", "login"}
                   THEN Speaker(wire[1].task, wire[1].kind) ELSE seat
        /\ answer' = IF task[wire[1].task] = wire[1].kind
                     THEN [answer EXCEPT ![wire[1].task] = v] ELSE answer
  BY Served, ZenonT(30)
<1>2. /\ wire[1].task \in Tasks /\ wire[1].kind \in Waiting
      /\ UNCHANGED <<vars, task, principal, socket>>
      /\ \A i \in DOMAIN wire' : i + 1 \in DOMAIN wire /\ wire'[i] = wire[i + 1]
  BY Served, ZenonT(30)
<1>3. Accepted /\ Order /\ Given /\ AuthTypeOK
  BY ZenonT(30) DEF AuthInv, ConnectInv, Order
<1>4. Tasks' = Tasks /\ (seat # None => seat' # None)
      /\ (v # "no" /\ wire[1].kind = "auth" => seat' # None)
  BY <1>1, <1>2, <1>3, SameCalls, CallTypes, ZenonT(30) DEF vars
<1>5. \A u \in Tasks : task[u] = "auth" /\ answer'[u] = "yes" => seat' # None
  <2>1. ASSUME NEW u \in Tasks, task[u] = "auth", answer'[u] = "yes" PROVE seat' # None
    <3>1. CASE answer'[u] = answer[u]
      BY <1>3, <1>4, <2>1, <3>1, ZenonT(30) DEF Accepted
    <3>2. CASE answer'[u] # answer[u]
      <4>1. task[wire[1].task] = wire[1].kind /\ u = wire[1].task /\ v = "yes"
        BY <1>1, <1>2, <1>3, <2>1, <3>2, ZenonT(30) DEF AuthTypeOK
      <4> QED BY <1>4, <2>1, <4>1, ZenonT(30)
    <3> QED BY <3>1, <3>2, ZenonT(30)
  <2> QED BY <2>1
<1>6. \A i \in DOMAIN wire' : wire'[i].kind # "auth" => seat' # None
  BY <1>2, <1>3, <1>4, ZenonT(30) DEF Accepted
<1>7. (principal' # None => seat' # None)
      /\ \A u \in Tasks : task[u] \in {"joining", "command", "login", "join", "query"} => seat' # None
  BY <1>2, <1>3, <1>4, ZenonT(30) DEF Accepted
<1> QED BY <1>2, <1>4, <1>5, <1>6, <1>7, ZenonT(30) DEF Accepted

-----------------------------------------------------------------------------
(* Calls made one after the other.                                         *)

\* When no call but t is under way, and t waits for no answer any more, then
\* nothing is on the wire.
LEMMA Alone ==
  ASSUME AuthInv, ~config.overlap, \A u \in Tasks : task[u] # "error",
         NEW t \in Tasks, \A u \in Tasks : Active(u) => u = t,
         task[t] \notin Waiting \/ answer[t] # None
  PROVE  DOMAIN wire = {} /\ \A u \in Tasks : u # t => ~Active(u) /\ ~Decided(u)
<1>1. \A i \in DOMAIN wire : /\ wire[i].task \in Tasks /\ wire[i].kind \in Waiting
                             /\ task[wire[i].task] = wire[i].kind
                             /\ answer[wire[i].task] = None
  BY WireTypes, ZenonT(30) DEF AuthInv, Order, InTurn
<1>2. \A i \in DOMAIN wire : wire[i].task = t
  BY <1>1, ZenonT(30) DEF Active, Waiting
<1>3. DOMAIN wire = {}
  BY <1>1, <1>2, ZenonT(30)
<1>4. \A u \in Tasks : u # t => ~Active(u) /\ ~Decided(u)
  BY ZenonT(30) DEF Active, Decided
<1> QED BY <1>3, <1>4, ZenonT(30)

\* The call under way sends.
LEMMA SendingInTurn ==
  ASSUME AuthInv, NEW t \in Tasks, NEW k \in Waiting, Sending(t, k)
  PROVE  InTurn'
<1> DEFINE m == [task |-> t, kind |-> k]
<1>1. /\ UNCHANGED <<vars, principal, seat, socket>> /\ wire' = Append(wire, m)
      /\ task' = [task EXCEPT ![t] = k] /\ answer' = [answer EXCEPT ![t] = None]
      /\ Order /\ AuthTypeOK /\ InTurn
  BY ZenonT(30) DEF Sending, Send, AuthInv, Order
<1>2. config' = config /\ Tasks' = Tasks /\ \A u, l : Speaker(u, l)' = Speaker(u, l)
  BY <1>1, SameCalls, ZenonT(30) DEF vars
<1>3. /\ task'[t] = k /\ (\A u \in Tasks : u # t => task'[u] = task[u])
      /\ answer'[t] = None /\ (\A u \in Tasks : u # t => answer'[u] = answer[u])
  BY <1>1, Moved, ZenonT(30) DEF Places, AuthTypeOK
<1> SUFFICES ASSUME ~config.overlap, \A u \in Tasks : task'[u] # "error"
             PROVE  /\ \A u, v \in Tasks : Active(u)' /\ Active(v)' => u = v
                    /\ \A i \in DOMAIN wire' :
                         task'[wire'[i].task] = wire'[i].kind /\ answer'[wire'[i].task] = None
                    /\ \A u \in Tasks : ~Decided(u)'
                    /\ principal' = seat'
  BY <1>2, ZenonT(30) DEF InTurn
<1>4. task[t] \in {"idle", "begin", "joining", "command"}
  BY ZenonT(30) DEF Sending
<1>5. \A u \in Tasks : task[u] # "error"
  BY <1>3, <1>4, ZenonT(30)
<1>6. \A u \in Tasks : Active(u) => u = t
  <2>1. CASE task[t] = "idle"
    BY <2>1, ZenonT(30) DEF Sending
  <2>2. CASE task[t] # "idle"
    BY <1>1, <1>4, <1>5, <2>2, ZenonT(30) DEF InTurn, Active
  <2> QED BY <2>1, <2>2, ZenonT(30)
<1>7. DOMAIN wire = {} /\ \A u \in Tasks : u # t => ~Active(u) /\ ~Decided(u)
  BY <1>4, <1>5, <1>6, Alone, ZenonT(30) DEF Waiting
<1>8. \A u \in Tasks : (u # t => ~Active(u)') /\ ~Decided(u)'
  BY <1>2, <1>3, <1>7, ZenonT(30) DEF Active, Decided
<1>9. \A i \in DOMAIN wire' : wire'[i] = m
  <2>1. wire \in Seq([task : Tasks, kind : Waiting]) /\ m \in [task : Tasks, kind : Waiting]
    BY <1>1, ZenonT(30) DEF AuthTypeOK
  <2> QED BY <1>1, <1>7, <2>1, OnWire, ZenonT(30)
<1>10. principal = seat
  BY <1>1, <1>4, <1>5, <1>7, ZenonT(30) DEF InTurn, Decided
<1>11. m.task = t /\ m.kind = k
  BY Fields, ZenonT(30)
<1> HIDE DEF m
<1>12. \A i \in DOMAIN wire' : task'[wire'[i].task] = wire'[i].kind /\ answer'[wire'[i].task] = None
  BY <1>3, <1>9, <1>11, ZenonT(30)
<1> QED BY <1>1, <1>8, <1>10, <1>12, ZenonT(30)

\* The call under way takes its answer, and the principal is as the node has it.
LEMMA GoingInTurn ==
  ASSUME AuthInv, NEW t \in Tasks, NEW w, Moving(t, w) \/ Promoting(t, w)
  PROVE  InTurn'
<1>1. /\ UNCHANGED <<vars, answer, wire, seat>> /\ task' = [task EXCEPT ![t] = w]
      /\ Order /\ AuthTypeOK /\ InTurn /\ Given
  BY ZenonT(30) DEF Moving, Promoting, Goto, AuthInv, Order, ConnectInv
<1>2. config' = config /\ Tasks' = Tasks /\ 0 \in Tasks /\ \A u, l : Speaker(u, l)' = Speaker(u, l)
  BY <1>1, SameCalls, CallTypes, ZenonT(30) DEF vars
<1>3. w \in {"begin", "joining", "command", "ok"}
  BY DEF Moving, Promoting
<1>4. task'[t] = w /\ (\A u \in Tasks : u # t => task'[u] = task[u])
  BY <1>1, <1>3, Moved, ZenonT(30) DEF Places
<1> SUFFICES ASSUME ~config.overlap, \A u \in Tasks : task'[u] # "error"
             PROVE  /\ \A u, v \in Tasks : Active(u)' /\ Active(v)' => u = v
                    /\ DOMAIN wire' = {}
                    /\ \A u \in Tasks : ~Decided(u)'
                    /\ principal' = seat'
  BY <1>2, ZenonT(30) DEF InTurn
<1>5. /\ task[t] # "error"
      /\ task[t] \notin Waiting \/ answer[t] # None
  BY ZenonT(30) DEF Moving, Promoting, Waiting, None
<1>6. \A u \in Tasks : task[u] # "error"
  BY <1>4, <1>5, ZenonT(30)
<1>7. \A u \in Tasks : Active(u) => u = t
  <2>1. CASE task[t] = "idle" /\ t # 0
    BY <2>1, ZenonT(30) DEF Moving, Promoting
  <2>2. CASE task[t] = "idle" /\ t = 0
    BY <1>1, <2>2, ZenonT(30) DEF Order, Active
  <2>3. CASE task[t] # "idle"
    <3>1. task[t] # "ok"
      BY ZenonT(30) DEF Moving, Promoting
    <3> QED BY <1>1, <1>5, <1>6, <2>3, <3>1, ZenonT(30) DEF InTurn, Active
  <2> QED BY <2>1, <2>2, <2>3
<1>8. DOMAIN wire = {} /\ \A u \in Tasks : u # t => ~Active(u) /\ ~Decided(u)
  BY <1>5, <1>6, <1>7, Alone, ZenonT(30)
<1>9. \A u \in Tasks : (u # t => ~Active(u)') /\ ~Decided(u)'
  BY <1>1, <1>2, <1>3, <1>4, <1>8, ZenonT(30) DEF Active, Decided
<1>10. principal' = seat
  <2>1. CASE Moving(t, w)
    <3>1. ~Decided(t)
      BY <2>1, ZenonT(30) DEF Moving, Decided
    <3> QED BY <1>1, <1>6, <1>8, <2>1, <3>1, ZenonT(30) DEF InTurn, Moving
  <2>2. CASE Promoting(t, w)
    <3>1. Decided(t) /\ answer[t] = "yes" /\ principal' = Speaker(t, task[t])
      BY <2>2, ZenonT(30) DEF Promoting, Decided, None
    <3> QED BY <1>1, <1>6, <3>1, ZenonT(30) DEF InTurn
  <2> QED BY <2>1, <2>2, ZenonT(30)
<1> QED BY <1>1, <1>8, <1>9, <1>10, ZenonT(30)

\* The node decides, and the answer says so.
LEMMA ServedInTurn ==
  ASSUME AuthInv, NodeServes
  PROVE  InTurn'
<1>1. PICK v \in {"yes", "no", "odd"} :
        /\ seat' = IF v # "no" /\ wire[1].kind \in {"auth", "login"}
                   THEN Speaker(wire[1].task, wire[1].kind) ELSE seat
        /\ answer' = IF task[wire[1].task] = wire[1].kind
                     THEN [answer EXCEPT ![wire[1].task] = v] ELSE answer
  BY Served
<1>2. PICK t \in Tasks, k \in Waiting : t = wire[1].task /\ k = wire[1].kind
  BY Served, ZenonT(30)
<1>3. /\ 1 \in DOMAIN wire
      /\ UNCHANGED <<vars, task, principal, socket>>
      /\ \A i \in DOMAIN wire' : i + 1 \in DOMAIN wire /\ i + 1 # 1 /\ wire'[i] = wire[i + 1]
  BY Served, ZenonT(30)
<1>4. InTurn /\ Order /\ AuthTypeOK
  BY ZenonT(30) DEF AuthInv, Order
<1>5. config' = config /\ Tasks' = Tasks /\ \A u, l : Speaker(u, l)' = Speaker(u, l)
  BY <1>3, SameCalls, ZenonT(30) DEF vars
<1> SUFFICES ASSUME ~config.overlap, \A u \in Tasks : task[u] # "error"
             PROVE  /\ \A u, x \in Tasks : Active(u)' /\ Active(x)' => u = x
                    /\ DOMAIN wire' = {}
                    /\ \A u \in Tasks : Decided(u)' /\ answer'[u] = "yes" => seat' = Speaker(u, task[u])
                    /\ (\A u \in Tasks : ~Decided(u)') => principal = seat'
  BY <1>3, <1>5, ZenonT(30) DEF InTurn
<1>6. /\ \A u, x \in Tasks : Active(u) /\ Active(x) => u = x
      /\ \A i \in DOMAIN wire : task[wire[i].task] = wire[i].kind /\ answer[wire[i].task] = None
      /\ (\A u \in Tasks : ~Decided(u)) => principal = seat
  BY <1>4, ZenonT(30) DEF InTurn
<1>7. \A u \in Tasks : Active(u)' <=> Active(u)
  BY <1>3, <1>5, ZenonT(30) DEF Active
<1>8. task[t] = k /\ Active(t) /\ answer[t] = None
  BY <1>2, <1>3, <1>6, ZenonT(30) DEF Active, Waiting
<1>9. DOMAIN wire' = {}
  <2>1. ASSUME NEW i \in DOMAIN wire' PROVE FALSE
    <3>1. i + 1 \in DOMAIN wire /\ i + 1 # 1
      BY <1>3, ZenonT(30)
    <3>2. wire[i + 1].task \in Tasks /\ wire[i + 1].kind \in Waiting
          /\ task[wire[i + 1].task] = wire[i + 1].kind
      BY <1>4, <1>6, <3>1, WireTypes, ZenonT(30)
    <3>3. wire[i + 1].task = t
      BY <1>2, <1>6, <1>8, <3>2, ZenonT(30) DEF Active, Waiting
    <3>4. wire[i + 1] = wire[1]
      <4>1. /\ wire[1] \in [task : Tasks, kind : Waiting]
            /\ wire[i + 1] \in [task : Tasks, kind : Waiting]
        BY <1>3, <1>4, <3>1, WireTypes, ZenonT(30)
      <4>2. wire[i + 1].task = wire[1].task /\ wire[i + 1].kind = wire[1].kind
        BY <1>2, <1>8, <3>2, <3>3, ZenonT(30)
      <4> QED BY <4>1, <4>2, SameFields, ZenonT(30)
    <3> QED BY <1>3, <1>4, <3>1, <3>4, ZenonT(30) DEF AuthTypeOK
  <2> QED BY <2>1, ZenonT(30)
<1>10. answer'[t] = v /\ \A u \in Tasks : u # t => answer'[u] = answer[u] /\ ~Active(u)
  BY <1>1, <1>2, <1>4, <1>6, <1>8, ZenonT(30) DEF AuthTypeOK
<1>11. \A u \in Tasks : (u # t => ~Decided(u)' /\ ~Decided(u)) /\ ~Decided(t)
  BY <1>2, <1>3, <1>8, <1>10, ZenonT(30) DEF Decided, Active
<1>12. Decided(t)' <=> k \in {"auth", "login"}
  BY <1>2, <1>3, <1>8, <1>10, ZenonT(30) DEF Decided, None
<1>13. CASE k \in {"auth", "login"}
  <2>1. v = "yes" => seat' = Speaker(t, task[t])
    BY <1>1, <1>2, <1>8, <1>13, ZenonT(30)
  <2> QED BY <1>2, <1>6, <1>7, <1>9, <1>10, <1>11, <1>12, <1>13, <2>1, ZenonT(30)
<1>14. CASE k \notin {"auth", "login"}
  <2>1. seat' = seat /\ principal = seat
    BY <1>1, <1>2, <1>6, <1>11, <1>14, ZenonT(30)
  <2> QED BY <1>2, <1>6, <1>7, <1>9, <1>11, <1>12, <1>14, <2>1, ZenonT(30)
<1> QED BY <1>13, <1>14, ZenonT(30)

\* A call that failed ends the claim; a connection that ends leaves it as it is.
LEMMA FailingInTurn ==
  ASSUME AuthInv, NEW t \in Tasks, Failing(t)
  PROVE  InTurn'
<1>1. UNCHANGED vars /\ task' = [task EXCEPT ![t] = "error"] /\ Order
  BY DEF Failing, Failed, Goto, AuthInv
<1>2. Tasks' = Tasks /\ task'[t] = "error"
  BY <1>1, SameCalls, Moved, ZenonT(30) DEF vars, Places
<1> QED BY <1>2, ZenonT(30) DEF InTurn

\* The end of the connection decides nothing.
LEMMA EndingRest ==
  ASSUME AuthInv, Closes \/ Lose
  PROVE  Accepted' /\ InTurn'
<1>1. UNCHANGED <<vars, task, answer, principal, seat>> /\ wire' \in {wire, <<>>}
  BY ZenonT(30) DEF Closes, Lose
<1>2. config' = config /\ Tasks' = Tasks /\ \A u, l : Speaker(u, l)' = Speaker(u, l)
  BY <1>1, SameCalls DEF vars
<1>3. \A i \in DOMAIN wire' : i \in DOMAIN wire /\ wire'[i] = wire[i]
  BY <1>1, Empty, ZenonT(30)
<1>4. Accepted'
  BY <1>1, <1>2, <1>3, ZenonT(30) DEF AuthInv, Accepted
<1>5. InTurn'
  BY <1>1, <1>2, <1>3, ZenonT(30) DEF AuthInv, InTurn, Active, Decided
<1> QED BY <1>4, <1>5, ZenonT(30)

-----------------------------------------------------------------------------
(* Connecting and the calls together.                                      *)

\* Before the entry connects.
LEMMA AuthStart == AuthInit => AuthInv
<1> SUFFICES ASSUME AuthInit PROVE AuthInv
  OBVIOUS
<1>1. ConnectInv /\ Given
  BY ConnectInit DEF AuthInit, ConnectInv
<1>2. 0 \in Tasks
  BY <1>1, CallTypes
<1>3. /\ task = [t \in Tasks |-> "idle"] /\ answer = [t \in Tasks |-> None]
      /\ wire = <<>> /\ principal = None /\ seat = None /\ socket = None
  BY DEF AuthInit
<1>4. AuthTypeOK
  BY <1>3, Empty, ZenonT(30) DEF AuthTypeOK
<1>5. Order
  BY <1>2, <1>3, <1>4 DEF Order
<1>6. Accepted
  BY <1>3, Empty, ZenonT(30) DEF Accepted
<1>7. InTurn
  BY <1>3 DEF InTurn, Active, Decided
<1> QED BY <1>1, <1>5, <1>6, <1>7 DEF AuthInv

\* Every step keeps the invariant.
LEMMA AuthInductive == AuthInv /\ [AuthNext]_allvars => AuthInv'
<1> SUFFICES ASSUME AuthInv, [AuthNext]_allvars PROVE AuthInv'
  OBVIOUS
<1>1. Order /\ Accepted /\ InTurn /\ ConnectInv
  BY DEF AuthInv
<1>2. CASE UNCHANGED vars /\ UNCHANGED calls
  <2>1. UNCHANGED <<config, pc, peer, task, answer, wire, principal, seat, socket>>
    BY <1>2 DEF vars, calls
  <2>2. Node' = Node /\ Tasks' = Tasks /\ (\A t : Do(t)' = Do(t)) /\ \A t, k : Speaker(t, k)' = Speaker(t, k)
    BY <1>2, SameCalls, ZenonT(30) DEF vars, Node
  <2>3. Order' /\ Accepted' /\ InTurn'
    <3>1. Order'
      BY <1>1, <2>1, <2>2, ZenonT(30) DEF Order, AuthTypeOK, Needs
    <3>2. Accepted' /\ InTurn'
      BY <1>1, <2>1, <2>2, ZenonT(30) DEF Accepted, InTurn, Active, Decided
    <3> QED BY <3>1, <3>2
  <2>4. ConnectInv'
    BY <1>1, <1>2, ConnectInductive, ZenonT(30)
  <2> QED BY <2>3, <2>4, ZenonT(30) DEF AuthInv
<1>3. CASE Next /\ UNCHANGED calls
  <2>1. UNCHANGED <<task, answer, wire, principal, seat, socket>>
    BY <1>3 DEF calls
  <2>2. config' = config
    BY <1>3, NextFixed, ZenonT(30)
  <2>3. Tasks' = Tasks /\ \A t, k : Speaker(t, k)' = Speaker(t, k)
    BY <2>2, SameCalls
  <2>4. Accepted' /\ InTurn'
    BY <1>1, <2>1, <2>2, <2>3, ZenonT(30) DEF Accepted, InTurn, Active, Decided
  <2>5. ConnectInv'
    BY <1>1, <1>3, ConnectInductive
  <2> QED BY <1>3, <2>4, <2>5, ConnectingOrder, ZenonT(30) DEF AuthInv
<1>4. ASSUME NEW t \in Tasks,
             \/ \E k \in Waiting : Sending(t, k)
             \/ Failing(t)
             \/ \E w : Moving(t, w)
             \/ \E w : Promoting(t, w)
      PROVE  AuthInv'
  <2>1. UNCHANGED vars
    BY <1>4, ZenonT(30) DEF Sending, Send, Failing, Failed, Moving, Promoting, Goto
  <2>2. ConnectInv'
    BY <1>1, <2>1, ConnectInductive, ZenonT(30)
  <2>3. CASE \E k \in Waiting : Sending(t, k)
    BY <2>2, <2>3, SendingOrder, SendingAccepted, SendingInTurn, ZenonT(30) DEF AuthInv
  <2>4. CASE Failing(t)
    BY <2>2, <2>4, FailingOrder, GoingAccepted, FailingInTurn, ZenonT(30) DEF AuthInv
  <2>5. CASE \E w : Moving(t, w) \/ Promoting(t, w)
    BY <2>2, <2>5, GoingOrder, GoingAccepted, GoingInTurn, ZenonT(30) DEF AuthInv
  <2> QED BY <1>4, <2>3, <2>4, <2>5, ZenonT(30)
<1>5. CASE NodeServes \/ Closes \/ Lose
  <2>1. UNCHANGED vars
    BY <1>5 DEF NodeServes, Closes, Lose
  <2>2. ConnectInv'
    BY <1>1, <2>1, ConnectInductive
  <2>3. Accepted' /\ InTurn'
    BY <1>5, ServedAccepted, ServedInTurn, EndingRest, ZenonT(30)
  <2> QED BY <1>5, <2>2, <2>3, OutsideOrder, ZenonT(30) DEF AuthInv
<1> QED BY <1>2, <1>3, <1>4, <1>5, AuthCases, ZenonT(30) DEF allvars

\* The invariant of the calls on the connection, for any configuration.
THEOREM AuthInvariance == AuthSpec => []AuthInv
BY AuthStart, AuthInductive, PTL DEF AuthSpec

\* The entries' connections are those connect makes: the handshake agrees and
\* no attempt is left out, whatever calls follow.
THEOREM EntriesConnect == AuthSpec => [](SessionAgrees /\ AttemptsJustified)
<1>1. AuthInv => SessionAgrees /\ AttemptsJustified
  BY SessionHolds, AttemptsHold DEF AuthInv
<1> QED BY <1>1, AuthInvariance, PTL

\* What is on its way to a node may be there (connect_authenticated,
\* connect_media, connect_voice, request_cbor_with_options): a credential goes
\* to the pinned node over the keys both ends hold, for the feature it has, and
\* anything else only after the node accepted one.
THEOREM RequestsAreJustified == AuthSpec => []RequestsJustified
<1>1. ASSUME AuthInv PROVE RequestsJustified
  <2>1. AuthTypeOK /\ QueriesAuthenticated
    BY <1>1 DEF AuthInv, Order, Accepted, QueriesAuthenticated
  <2>2. CredentialToPinned
    <3>1. ASSUME NEW i \in DOMAIN wire
          PROVE  /\ Node.static = Pins[pin]
                 /\ session.seal.key = peer.session.open.key
                 /\ Needs(Do(0)) \subseteq Node.offer.features
      <4>1. wire # <<>>
        BY Empty, ZenonT(30)
      <4>2. pc = "connected" /\ Needs(Do(0)) \subseteq Node.offer.features
        BY <1>1, <4>1 DEF AuthInv, Order
      <4>3. SessionAgrees
        BY <1>1, SessionHolds, ZenonT(30) DEF AuthInv
      <4> QED BY <4>2, <4>3, ZenonT(30) DEF SessionAgrees
    <3> QED BY <3>1, ZenonT(30) DEF CredentialToPinned
  <2> QED BY <2>1, <2>2, ZenonT(30) DEF RequestsJustified
<1> QED BY <1>1, AuthInvariance, PTL

\* Calls made one after the other, none of which failed, leave the principal
\* (Client.principal, set_principal) at whom the node takes the session for.
THEOREM PrincipalIsLatest == AuthSpec => []PrincipalLatest
<1>1. AuthInv => PrincipalLatest
  BY ZenonT(30) DEF AuthInv, InTurn, PrincipalLatest, Active, Decided
<1> QED BY <1>1, AuthInvariance, PTL

\* The connection an entry returned is not closed behind its caller: the guard
\* of connect_media is emptied when authentication succeeded.
THEOREM ReturnedStaysOpen == AuthSpec => []ReturnedOpen
<1>1. AuthInv => ReturnedOpen
  BY ZenonT(30) DEF AuthInv, Order, ReturnedOpen
<1> QED BY <1>1, AuthInvariance, PTL
===============================================================================
