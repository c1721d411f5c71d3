------------------------------- MODULE Connect --------------------------------
(***************************************************************************)
(* Reaching a usable connection: connect_with_public_keys tries every pin, *)
(* connect_with_key_and_options every endpoint of the list,                *)
(* connect_one_with_key_and_options opens a socket, writes the route for   *)
(* the multiplexer, runs the Noise NK handshake of client_handshake and    *)
(* negotiates HELLO over the two cipher states it yields.  The browser     *)
(* does the same over M5oH for one pin and one endpoint.                   *)
(*                                                                         *)
(* Keys and hashes are symbolic: a point is a number, a shared secret the  *)
(* set of its two points, a hash the sequence of what was mixed into it, a *)
(* tag the key, nonce and hash it was made with.                           *)
(***************************************************************************)
EXTENDS Naturals, Sequences

CONSTANTS
  Configs,       \* the situations connect is called in
  Statics,       \* static keys a node may have
  REQUIRED,      \* REQUIRED_FEATURES
  MAJOR,         \* TRANSPORT_MAJOR and RPC_MAJOR
  MAX_FRAME      \* MST5_MAX_PLAIN_PAYLOAD

ZeroPoint == 0
Garbled == 1
BadPin == 300
ClientPoint(i) == 100 + i
NodePoint(i) == 200 + i

\* parse_endpoint: tcp://, mst5:// with a route, http(s)://, what it refuses;
\* and the one endpoint of a browser.
Kinds == {"raw", "routed", "m5oh", "bad", "browser"}

\* A situation: the pins, in the order they are tried; the configured list of
\* endpoints; the transport mode, "client" for a list given to Client itself;
\* what nodes may answer to HELLO; how many messages are damaged on the way.
ASSUME ConnectAssumption ==
  /\ Statics \subseteq 2 .. 99
  /\ \A c \in Configs :
       /\ c.pins \in Seq(Statics \cup {BadPin, ZeroPoint})
       /\ c.endpoints \in Seq(Kinds)
       /\ c.mode \in {"client", "auto", "mst5", "m5oh"}
       /\ (\E i \in DOMAIN c.endpoints : c.endpoints[i] = "browser")
            => Len(c.endpoints) = 1 /\ c.mode = "client"
       /\ \A o \in c.offers : {"code", "major", "features", "frame"} \subseteq DOMAIN o
       /\ c.faults \in Nat

VARIABLES
  config,     \* the situation; never changes
  list,       \* the list that is tried
  nodes,      \* for every entry of the list, the node it leads to
  pc,         \* where connect is
  pin,        \* index of the pin being tried
  at,         \* index of the endpoint being tried
  attempts,   \* attempts begun; each draws its own ephemeral keys
  state,      \* SymmetricState
  session,    \* Session
  up, down,   \* bytes on their way to the node and to the client
  peer,       \* the node's end of this attempt
  faults,     \* damaged messages so far
  hit,        \* something went wrong on the way in this attempt
  failures    \* the attempts that have failed, each with pin, at, and hit

vars == <<config, list, nodes, pc, pin, at, attempts, state, session,
          up, down, peer, faults, hit, failures>>

fixed == <<config, list, nodes>>

Pins == config.pins

(***************************************************************************)
(* select_endpoint                                                         *)
(***************************************************************************)

IsM5oh(kind) == kind \in {"m5oh", "browser"}

\* The ways to go through some positions of a list in order; there is one.
InOrder(l, positions) ==
  {f \in UNION {[1 .. n -> positions] : n \in 0 .. Len(l)} :
     /\ \A i, j \in DOMAIN f : i < j => f[i] < f[j]
     /\ \A i \in positions : \E n \in DOMAIN f : f[n] = i}

\* filter: the one list of the entries at the positions kept.
Kept(l, positions) == {[n \in DOMAIN f |-> l[f[n]]] : f \in InOrder(l, positions)}

Raw(l) == Kept(l, {i \in DOMAIN l : ~IsM5oh(l[i])})

M5oh(l) == Kept(l, {i \in DOMAIN l : IsM5oh(l[i])})

select_endpoint(l, m) ==
  IF m = "auto" THEN {raw \o m5oh : raw \in Raw(l), m5oh \in M5oh(l)}
  ELSE IF m = "mst5" THEN Raw(l)
  ELSE M5oh(l)

Candidates(l, m) == IF m = "client" THEN {l} ELSE select_endpoint(l, m)

(***************************************************************************)
(* SymmetricState, used by both ends                                       *)
(***************************************************************************)

NoState == [ck |-> <<>>, h |-> <<>>, key |-> <<>>, n |-> 0]

mix_hash(s, data) == [s EXCEPT !.h = Append(@, data)]

mix_key(s, secret) ==
  [ck |-> Append(s.ck, secret), h |-> s.h, key |-> Append(s.ck, secret), n |-> 0]

new(static) ==
  mix_hash(NoState, <<"point", static>>)

Tag(s) == <<"tag", s.key, s.n, s.h>>

\* The state after encrypt_and_hash or decrypt_and_hash of the empty payload.
Hashed(s) ==
  [ck |-> s.ck, h |-> mix_hash(s, Tag(s)).h, key |-> s.key, n |-> s.n + 1]

Cipher(s, half) == [key |-> <<s.ck, half>>, nonce |-> 0]

\* x25519: the shared secret of two points, empty for the point of order one.
Shared(a, b) == IF ZeroPoint \in {a, b} THEN {} ELSE {a, b}

(***************************************************************************)
(* Records of the negotiation                                              *)
(***************************************************************************)

Record(cipher, hash, payload) ==
  [kind |-> "record", key |-> cipher.key, nonce |-> cipher.nonce,
   hash |-> hash, payload |-> payload]

Opens(record, cipher, hash) ==
  /\ record.key = cipher.key
  /\ record.nonce = cipher.nonce
  /\ record.hash = hash

Used(cipher) == [cipher EXCEPT !.nonce = @ + 1]

NoCipher == [key |-> <<>>, nonce |-> 0]

NoSession == [seal |-> NoCipher, open |-> NoCipher, hash |-> <<>>]

NoPeer == [at |-> "none", state |-> NoState, session |-> NoSession]

Init ==
  /\ config \in Configs
  /\ list \in Candidates(config.endpoints, config.mode)
  /\ nodes \in [DOMAIN list -> [static : Statics, offer : config.offers]]
  /\ pc = IF list = <<>> \/ Pins = <<>> THEN "failed" ELSE "pin"
  /\ pin = 1
  /\ at = 1
  /\ attempts = 0
  /\ state = NoState
  /\ session = NoSession
  /\ up = <<>>
  /\ down = <<>>
  /\ peer = NoPeer
  /\ faults = 0
  /\ hit = FALSE
  /\ failures = {}

(***************************************************************************)
(* The client                                                              *)
(***************************************************************************)

Kind == list[at]

\* The attempt is over: the socket is dropped, the error kept as the last one,
\* and the loops over endpoints and pins go on.
Fail(broken) ==
  /\ failures' = failures \cup {[pin |-> pin, at |-> at, hit |-> broken]}
  /\ IF at < Len(list)
     THEN pc' = "open" /\ at' = at + 1 /\ pin' = pin
     ELSE IF pin < Len(Pins)
     THEN pc' = "pin" /\ at' = 1 /\ pin' = pin + 1
     ELSE pc' = "failed" /\ UNCHANGED <<at, pin>>
  /\ state' = NoState
  /\ session' = NoSession
  /\ up' = <<>>
  /\ down' = <<>>
  /\ peer' = NoPeer
  /\ hit' = FALSE
  /\ UNCHANGED <<fixed, attempts, faults>>

\* Decoding the pin; a pin that does not decode is skipped with every endpoint.
DecodePin ==
  /\ pc = "pin"
  /\ IF Pins[pin] # BadPin
     THEN pc' = "open" /\ UNCHANGED pin
     ELSE IF pin < Len(Pins)
     THEN pc' = "pin" /\ pin' = pin + 1
     ELSE pc' = "failed" /\ UNCHANGED pin
  /\ UNCHANGED <<fixed, at, attempts, state, session, up, down, peer, faults,
                 hit, failures>>

\* Mutant: M5oH, too, begins with the route of the multiplexer.
OpenRouted ==
  /\ pc = "open"
  /\ Kind # "bad"
  /\ attempts' = attempts + 1
  /\ peer' = [NoPeer EXCEPT !.at = IF Kind = "routed" THEN "mux" ELSE "hello"]
  /\ pc' = IF Kind # "raw" THEN "preface" ELSE "hello"
  /\ UNCHANGED <<fixed, pin, at, state, session, up, down, faults, hit, failures>>

\* parse_endpoint, and TcpStream::connect, open_loopback_bridge or, in the
\* browser, the empty chunk with seq 0.
Open ==
  /\ pc = "open"
  /\ IF Kind = "bad" THEN Fail(hit)
     ELSE /\ attempts' = attempts + 1
          /\ peer' = [NoPeer EXCEPT !.at = IF Kind = "routed" THEN "mux" ELSE "hello"]
          /\ pc' = IF Kind = "routed" THEN "preface" ELSE "hello"
          /\ UNCHANGED <<fixed, pin, at, state, session, up, down, faults, hit, failures>>

write_router_preface ==
  /\ pc = "preface"
  /\ up' = Append(up, [kind |-> "preface", good |-> TRUE])
  /\ pc' = "hello"
  /\ UNCHANGED <<fixed, pin, at, attempts, state, session, down, peer, faults,
                 hit, failures>>

\* client_handshake up to the read: the ephemeral key and the first tag.
SendHello ==
  /\ pc = "hello"
  /\ LET e == ClientPoint(attempts)
         es == Shared(e, Pins[pin])
         s == mix_key(mix_hash(new(Pins[pin]), <<"point", e>>), es)
     IN IF es = {} THEN Fail(hit)
        ELSE /\ up' = Append(up, [kind |-> "hello", good |-> TRUE,
                                  point |-> e, tag |-> Tag(s)])
             /\ state' = Hashed(s)
             /\ pc' = "header"
             /\ UNCHANGED <<fixed, pin, at, attempts, session, down, peer,
                            faults, hit, failures>>

ReadHeader ==
  /\ pc = "header"
  /\ Kind # "browser"
  /\ down # <<>>
  /\ IF ~Head(down).good THEN Fail(hit)
     ELSE /\ down' = Tail(down)
          /\ pc' = "message"
          /\ UNCHANGED <<fixed, pin, at, attempts, state, session, up, peer,
                         faults, hit, failures>>

\* Mutant: the tag of the reply is not checked.
Unchecked(m, rest) ==
  LET s == mix_key(mix_hash(state, <<"point", m.point>>),
                   Shared(ClientPoint(attempts), m.point))
      done == Hashed(s)
  IN /\ state' = done
     /\ session' = [seal |-> Cipher(done, 1), open |-> Cipher(done, 2), hash |-> done.h]
     /\ down' = rest
     /\ pc' = "negotiate"
     /\ UNCHANGED <<fixed, pin, at, attempts, up, peer, faults, hit, failures>>

\* The node's ephemeral key and tag, and the split into two cipher states.
Finish(m, rest) ==
  LET ee == Shared(ClientPoint(attempts), m.point)
      s == mix_key(mix_hash(state, <<"point", m.point>>), ee)
      done == Hashed(s)
  IN IF ee = {} \/ m.tag # Tag(s) THEN Fail(hit)
     ELSE /\ state' = done
          /\ session' = [seal |-> Cipher(done, 1), open |-> Cipher(done, 2),
                         hash |-> done.h]
          /\ down' = rest
          /\ pc' = "negotiate"
          /\ UNCHANGED <<fixed, pin, at, attempts, up, peer, faults, hit, failures>>

ReadMessage ==
  /\ pc = "message"
  /\ down # <<>>
  /\ Finish(Head(down), Tail(down))

\* The browser polls until it has all 54 bytes, then looks at the header.
BrowserReply ==
  /\ pc = "header"
  /\ Kind = "browser"
  /\ Len(down) >= 2
  /\ IF ~down[1].good THEN Fail(hit)
     ELSE Finish(down[2], SubSeq(down, 3, Len(down)))

\* negotiate_stream, or negotiate in the browser: HELLO is the first record.
Negotiate ==
  /\ pc = "negotiate"
  /\ up' = Append(up, Record(session.seal, session.hash, "HELLO"))
  /\ session' = [session EXCEPT !.seal = Used(@)]
  /\ pc' = "answer"
  /\ UNCHANGED <<fixed, pin, at, attempts, state, down, peer, faults, hit, failures>>

\* The browser takes any code of success and any frame size.
Accepts(kind, offer) ==
  /\ offer.major = MAJOR
  /\ REQUIRED \subseteq offer.features
  /\ IF kind = "browser" THEN offer.code \in 200 .. 299
     ELSE offer.code = 200 /\ offer.frame = MAX_FRAME

Answer ==
  /\ pc = "answer"
  /\ down # <<>>
  /\ LET r == Head(down)
     IN IF ~Opens(r, session.open, session.hash) \/ ~Accepts(Kind, r.payload)
        THEN Fail(hit)
        ELSE /\ session' = [session EXCEPT !.open = Used(@)]
             /\ down' = Tail(down)
             /\ pc' = "connected"
             /\ UNCHANGED <<fixed, pin, at, attempts, state, up, peer, faults,
                            hit, failures>>

\* The socket does not open, a write or a read fails, or its time is up.
TimeOut ==
  /\ pc \in {"open", "preface", "hello", "header", "message", "negotiate", "answer"}
  /\ Fail(TRUE)

\* The node has hung up and everything it sent has been read.
EndOfStream ==
  /\ pc \in {"header", "message", "answer"}
  /\ peer.at = "gone"
  /\ down = <<>>
  /\ Fail(hit)

(***************************************************************************)
(* The node and the network, external                                      *)
(***************************************************************************)

Node == nodes[at]

Hangup == peer' = [peer EXCEPT !.at = "gone"] /\ down' = down

NodeStep(where, kind, Do(_)) ==
  /\ peer.at = where
  /\ up # <<>>
  /\ IF Head(up).kind = kind THEN Do(Head(up)) ELSE Hangup
  /\ up' = Tail(up)
  /\ UNCHANGED <<fixed, pc, pin, at, attempts, state, session, faults, hit, failures>>

Mux ==
  NodeStep("mux", "preface",
    LAMBDA m : IF m.good THEN peer' = [peer EXCEPT !.at = "hello"] /\ down' = down
               ELSE Hangup)

NodeHello ==
  NodeStep("hello", "hello",
    LAMBDA m :
      LET s == mix_key(mix_hash(new(Node.static), <<"point", m.point>>),
                       Shared(Node.static, m.point))
          re == NodePoint(attempts)
          t == mix_key(mix_hash(Hashed(s), <<"point", re>>), Shared(re, m.point))
          done == Hashed(t)
      IN IF ~m.good \/ m.tag # Tag(s) THEN Hangup
         ELSE /\ peer' = [at |-> "negotiate", state |-> done,
                          session |-> [seal |-> Cipher(done, 2),
                                       open |-> Cipher(done, 1), hash |-> done.h]]
              /\ down' = down \o <<[kind |-> "header", good |-> TRUE],
                                   [kind |-> "message", point |-> re, tag |-> Tag(t)]>>)

NodeNegotiate ==
  NodeStep("negotiate", "record",
    LAMBDA m :
      IF ~Opens(m, peer.session.open, peer.session.hash) THEN Hangup
      ELSE /\ peer' = [at |-> "up", state |-> peer.state,
                       session |-> [seal |-> Used(peer.session.seal),
                                    open |-> Used(peer.session.open),
                                    hash |-> peer.session.hash]]
           /\ down' = Append(down, Record(peer.session.seal, peer.session.hash,
                                           Node.offer)))

Damaged(m) ==
  IF m.kind = "record" THEN {[m EXCEPT !.hash = <<>>]}
  ELSE (IF m.kind # "message" THEN {[m EXCEPT !.good = FALSE]} ELSE {})
       \cup (IF m.kind \in {"hello", "message"}
             THEN {[m EXCEPT !.point = Garbled], [m EXCEPT !.point = ZeroPoint],
                   [m EXCEPT !.tag = <<"junk">>]}
             ELSE {})

Damage ==
  /\ faults < config.faults
  /\ \/ \E i \in DOMAIN up : \E m \in Damaged(up[i]) :
          up' = [up EXCEPT ![i] = m] /\ down' = down
     \/ \E i \in DOMAIN down : \E m \in Damaged(down[i]) :
          down' = [down EXCEPT ![i] = m] /\ up' = up
  /\ faults' = faults + 1
  /\ hit' = TRUE
  /\ UNCHANGED <<fixed, pc, pin, at, attempts, state, session, peer, failures>>

Client ==
  \/ DecodePin
  \/ Open
  \/ write_router_preface
  \/ SendHello
  \/ ReadHeader
  \/ ReadMessage
  \/ BrowserReply
  \/ Negotiate
  \/ Answer
  \/ TimeOut
  \/ EndOfStream

Next ==
  \/ Client
  \/ Mux
  \/ NodeHello
  \/ NodeNegotiate
  \/ Damage

Spec == Init /\ [][Next]_vars

(***************************************************************************)
(* Properties                                                              *)
(***************************************************************************)

\* Type: at most two handshake secrets are mixed in, and each direction has
\* sealed at most its HELLO when connect_one_with_key_and_options is through.
TypeOK ==
  /\ list \in Seq(Kinds)
  /\ pc \in {"pin", "open", "preface", "hello", "header", "message",
             "negotiate", "answer", "connected", "failed"}
  /\ pin \in 1 .. Len(Pins) \/ Pins = <<>>
  /\ at \in DOMAIN list \/ list = <<>>
  /\ attempts \in 0 .. Len(Pins) * Len(list)
  /\ Len(state.ck) <= 2 /\ state.n \in 0 .. 1 /\ Len(state.h) \in {0, 3, 5}
  /\ session.seal.nonce \in 0 .. 1 /\ session.open.nonce \in 0 .. 1
  /\ peer.at \in {"none", "mux", "hello", "negotiate", "up", "gone"}
  /\ Len(up) <= 2 /\ Len(down) <= 2
  /\ faults \in 0 .. config.faults
  /\ hit \in BOOLEAN
  /\ failures \subseteq [pin : DOMAIN Pins, at : DOMAIN list, hit : BOOLEAN]

\* A client that leaves client_handshake with a session shares it with a node
\* that holds the pinned key: the same hash, each side's sealing key the
\* other's opening key, the two directions under different keys, and, once
\* HELLO is answered, the same record number next in both directions and every
\* required feature among those the node has.
SessionAgrees ==
  pc \in {"negotiate", "answer", "connected"} =>
    /\ Node.static = Pins[pin]
    /\ session.hash = peer.session.hash
    /\ session.seal.key = peer.session.open.key
    /\ session.open.key = peer.session.seal.key
    /\ session.seal.key # session.open.key
    /\ pc = "connected" =>
         /\ session.seal.nonce = peer.session.open.nonce
         /\ session.open.nonce = peer.session.seal.nonce
         /\ REQUIRED \subseteq Node.offer.features

Before(p, a) == p < pin \/ (p = pin /\ a < at) \/ pc = "failed"

\* A pin and an endpoint are given up only for a reason: the endpoint makes no
\* sense, the pin is not the node's, the node cannot serve this client, or the
\* network failed.  So the loops of connect_with_public_keys and connect_with_key_and_options stop at
\* the first pair that works, and fail only when none does.
FailedForCause ==
  \A p \in DOMAIN Pins, a \in DOMAIN list :
    Before(p, a) =>
      \/ list[a] = "bad"
      \/ Pins[p] # nodes[a].static
      \/ ~Accepts(list[a], nodes[a].offer)
      \/ [pin |-> p, at |-> a, hit |-> TRUE] \in failures

Trying == pc \notin {"pin", "connected", "failed"}

\* select_endpoint: "A forced mode is strict", and automatic mode comes to an
\* M5oH endpoint only after this pin has failed at every raw one.
PolicyKept ==
  Trying =>
    /\ config.mode = "mst5" => ~IsM5oh(Kind)
    /\ config.mode = "m5oh" => IsM5oh(Kind)
    /\ config.mode = "auto" /\ IsM5oh(Kind) =>
         \E g \in [{i \in DOMAIN config.endpoints : ~IsM5oh(config.endpoints[i])}
                  -> DOMAIN list] :
           /\ \A i, j \in DOMAIN g : g[i] = g[j] => i = j
           /\ \A i \in DOMAIN g : /\ list[g[i]] = config.endpoints[i]
                                 /\ \E f \in failures : f.pin = pin /\ f.at = g[i]

\* connect ends, with a client or an error, even if the node never answers:
\* every wait of connect_one_with_key_and_options has a time limit.
ConnectEnds == <>(pc \in {"connected", "failed"})

\* The variables keep their types, and connect goes on from a pin and an
\* endpoint only for a reason and only to an endpoint the transport mode
\* allows.
AttemptsJustified == TypeOK /\ FailedForCause /\ PolicyKept
===============================================================================
