----------------------------- MODULE RecordLayer -----------------------------
(***************************************************************************)
(* The encrypted record layer of lib.rs: CipherState, Session::seal_record *)
(* and open_record, and their in-place forms in connection.rs.  Each       *)
(* direction of a connection has one sealing and one opening cipher.  Both *)
(* count records and plaintext bytes, and both replace the key when either *)
(* count reaches its bound, without exchanging a message about it.  The    *)
(* browser binding has a record layer of its own, with neither counts nor  *)
(* rekeying, and the node is taken to run the code of lib.rs.              *)
(*                                                                         *)
(* A key is identified by its direction and its generation: HKDF is taken  *)
(* to give different keys for different generations, and the AEAD to       *)
(* accept exactly the bytes sealed under the same key, nonce and length.   *)
(***************************************************************************)
EXTENDS Naturals, Sequences

CONSTANTS
  MAX_TRANSPORT_PAYLOAD, PADDING_BLOCK, LARGE_PADDING_BLOCK,
  LARGE_PADDING_THRESHOLD, MAX_RECORDS, MAX_PLAINTEXT_BYTES,
  REKEY_RECORDS, REKEY_BYTES,
  Clients,       \* the clients to look at: "native", "browser"
  Payloads,      \* the payload lengths of application records
  MaxSealed,     \* bound on the records sealed in both directions
  MaxFaults      \* bound on what the transport does to records in flight

\* From the client to the node, and back.
Dirs == {"up", "down"}

(***************************************************************************)
(* What the proofs need of the constants of lib.rs 51-146.                 *)
(***************************************************************************)
ASSUME PaddingAssumption ==
  /\ PADDING_BLOCK \in Nat \ {0}
  /\ LARGE_PADDING_BLOCK \in Nat \ {0}
  /\ LARGE_PADDING_THRESHOLD \in Nat
  /\ MAX_TRANSPORT_PAYLOAD \in Nat

ASSUME RekeyAssumption ==
  /\ REKEY_RECORDS \in Nat \ {0}
  /\ REKEY_BYTES \in Nat \ {0}
  /\ MAX_RECORDS \in Nat /\ REKEY_RECORDS <= MAX_RECORDS
  /\ MAX_PLAINTEXT_BYTES \in Nat

ASSUME BoundsAssumption ==
  /\ Clients \subseteq {"native", "browser"}
  /\ Payloads \subseteq 0 .. MAX_TRANSPORT_PAYLOAD
  /\ MaxSealed \in Nat
  /\ MaxFaults \in Nat

VARIABLES
  client,   \* which code the client runs: never changes
  seal,     \* the sealing cipher of each direction
  open,     \* the opening cipher of each direction
  sealing,  \* "open", "closed" after a CLOSE record, or "failed"
  opening,  \* "open", "closed" after a CLOSE record, "eof" or "failed"
  wire,     \* the records in flight
  sealed,   \* history: the records sealed, each with the cipher that sealed it
  opened,   \* history: the records opened
  faults    \* how often the transport has interfered

vars == <<client, seal, open, sealing, opening, wire, sealed, opened, faults>>

Ciphers == [generation: Nat, nonce: Nat, plaintext_bytes: Nat]

SealsAsBrowser(d) == client = "browser" /\ d = "up"
OpensAsBrowser(d) == client = "browser" /\ d = "down"

NewCipher == [generation |-> 0, nonce |-> 0, plaintext_bytes |-> 0]

(***************************************************************************)
(* The length of a padded plaintext: a content byte, a length of four      *)
(* bytes and the payload, rounded up to a block.                           *)
(***************************************************************************)
RoundUp(n, block) == ((n + block - 1) \div block) * block

PlaintextLen(payload) ==
  LET base == 5 + payload
  IN  RoundUp(base, IF base <= LARGE_PADDING_THRESHOLD THEN PADDING_BLOCK
                                                       ELSE LARGE_PADDING_BLOCK)

TAG_LEN == 16

RecordLen(payload) == 8 + PlaintextLen(payload) + TAG_LEN

max_record_len == 8 + RoundUp(5 + MAX_TRANSPORT_PAYLOAD, LARGE_PADDING_BLOCK) + TAG_LEN

LengthAccepted(length) == length >= 8 + TAG_LEN /\ length <= max_record_len

(***************************************************************************)
(* The records the writer builds have a length the reader takes, and the   *)
(* bound that ends a key leaves room for one more of them.                 *)
(***************************************************************************)
ASSUME LengthAssumption ==
  \A payload \in Payloads \union {0} :
    /\ LengthAccepted(RecordLen(payload))
    /\ REKEY_BYTES + PlaintextLen(payload) <= MAX_PLAINTEXT_BYTES

check_limit(cipher, bytes) ==
  /\ cipher.nonce < MAX_RECORDS
  /\ cipher.plaintext_bytes + bytes <= MAX_PLAINTEXT_BYTES

\* Mutant: the counters restart under the old key.
ResetWithoutRekey(cipher, bytes) ==
  IF \/ cipher.nonce + 1 >= REKEY_RECORDS
     \/ cipher.plaintext_bytes + bytes >= REKEY_BYTES
  THEN [cipher EXCEPT !.nonce = 0, !.plaintext_bytes = 0]
  ELSE [cipher EXCEPT !.nonce = @ + 1, !.plaintext_bytes = @ + bytes]

(***************************************************************************)
(* CipherState::commit: count the record, and rekey at either bound.       *)
(***************************************************************************)
commit(cipher, bytes) ==
  IF \/ cipher.nonce + 1 >= REKEY_RECORDS
     \/ cipher.plaintext_bytes + bytes >= REKEY_BYTES
  THEN [generation |-> cipher.generation + 1, nonce |-> 0, plaintext_bytes |-> 0]
  ELSE [cipher EXCEPT !.nonce = @ + 1, !.plaintext_bytes = @ + bytes]

(***************************************************************************)
(* The browser's cipher has a key and a nonce; only the nonce moves.       *)
(***************************************************************************)
browser_commit(cipher) == [cipher EXCEPT !.nonce = @ + 1]

Contents == {"application", "close"}

(***************************************************************************)
(* A record on the wire: the key and nonce it was sealed with, the         *)
(* sequence number it shows, the payload length, and whether it arrives    *)
(* as it was sealed.                                                       *)
(***************************************************************************)
Records == [generation: Nat, sequence: Nat, payload: Nat, content: Contents, intact: BOOLEAN]

SealedRecords == [cipher: Ciphers, payload: Nat, content: Contents]

RecordOf(s) ==
  [generation |-> s.cipher.generation, sequence |-> s.cipher.nonce,
   payload |-> s.payload, content |-> s.content, intact |-> TRUE]

Init ==
  /\ client \in Clients
  /\ seal = [d \in Dirs |-> NewCipher]
  /\ open = [d \in Dirs |-> NewCipher]
  /\ sealing = [d \in Dirs |-> "open"]
  /\ opening = [d \in Dirs |-> "open"]
  /\ wire = [d \in Dirs |-> <<>>]
  /\ sealed = [d \in Dirs |-> <<>>]
  /\ opened = [d \in Dirs |-> <<>>]
  /\ faults = 0

(***************************************************************************)
(* seal_record: the record carries the nonce before commit.  A refusal by  *)
(* check_limit fails the writer, as every sealing error does; the browser  *)
(* checks nothing.                                                         *)
(***************************************************************************)
SealRecord(d, payload, content) ==
  LET s == [cipher |-> seal[d], payload |-> payload, content |-> content]
      bytes == PlaintextLen(payload)
  IN  /\ sealing[d] = "open"
      /\ Len(sealed["up"]) + Len(sealed["down"]) < MaxSealed
      /\ IF SealsAsBrowser(d) \/ check_limit(seal[d], bytes)
         THEN /\ seal' = [seal EXCEPT ![d] = IF SealsAsBrowser(d) THEN browser_commit(@)
                                                                   ELSE commit(@, bytes)]
              /\ sealed' = [sealed EXCEPT ![d] = Append(@, s)]
              /\ wire' = [wire EXCEPT ![d] = Append(@, RecordOf(s))]
              /\ sealing' = [sealing EXCEPT ![d] = IF content = "close" THEN "closed" ELSE @]
         ELSE /\ sealing' = [sealing EXCEPT ![d] = "failed"]
              /\ UNCHANGED <<seal, sealed, wire>>
      /\ UNCHANGED <<client, open, opening, opened, faults>>

SealApplication(d) == \E payload \in Payloads : SealRecord(d, payload, "application")

(***************************************************************************)
(* write_close_locked: an empty record of the other content type, after    *)
(* which the write half is shut down.  The browser never sends one.        *)
(***************************************************************************)
SealClose(d) == ~SealsAsBrowser(d) /\ SealRecord(d, 0, "close")

(***************************************************************************)
(* The writer's task ends without a CLOSE record: the socket is cut.       *)
(***************************************************************************)
Cut(d) ==
  /\ sealing[d] = "open"
  /\ sealing' = [sealing EXCEPT ![d] = "failed"]
  /\ UNCHANGED <<client, seal, open, opening, wire, sealed, opened, faults>>

(***************************************************************************)
(* Mutant of the acceptance test: it trusts the sequence number in the     *)
(* record.                                                                 *)
(***************************************************************************)
TrustsSequence(d, r) ==
  /\ LengthAccepted(RecordLen(r.payload))
  /\ check_limit(open[d], PlaintextLen(r.payload))
  /\ r.generation = open[d].generation
  /\ r.intact

(***************************************************************************)
(* open_record accepts a record of a legal length, with the sequence       *)
(* number it expects, within the limits, that decrypts under its key.      *)
(***************************************************************************)
Accepts(d, r) ==
  /\ LengthAccepted(RecordLen(r.payload))
  /\ r.sequence = open[d].nonce
  /\ check_limit(open[d], PlaintextLen(r.payload))
  /\ r.generation = open[d].generation
  /\ r.intact

(***************************************************************************)
(* The browser's form: no limit, and no content type but application.      *)
(***************************************************************************)
BrowserDecrypts(d, r) ==
  /\ r.sequence = open[d].nonce
  /\ r.generation = open[d].generation
  /\ r.intact

BrowserAccepts(d, r) == BrowserDecrypts(d, r) /\ r.content = "application"

(***************************************************************************)
(* Mutant: the opening end counts records but never rekeys.                *)
(***************************************************************************)
OpensWithoutRekey(d) ==
  LET r == Head(wire[d])
  IN  /\ opening[d] = "open"
      /\ wire[d] # <<>>
      /\ wire' = [wire EXCEPT ![d] = Tail(@)]
      /\ IF Accepts(d, r)
         THEN /\ open' = [open EXCEPT ![d] = browser_commit(@)]
              /\ opened' = [opened EXCEPT ![d] = Append(@, r)]
              /\ opening' = [opening EXCEPT ![d] = IF r.content = "close" THEN "closed" ELSE @]
         ELSE /\ opening' = [opening EXCEPT ![d] = "failed"]
              /\ UNCHANGED <<open, opened>>
      /\ UNCHANGED <<client, seal, sealing, sealed, faults>>

(***************************************************************************)
(* read_frame takes the next record: it is opened and the cipher committed *)
(* once it has been decrypted and parsed, or the reader fails.             *)
(***************************************************************************)
OpenNative(d, r) ==
  IF Accepts(d, r)
  THEN /\ open' = [open EXCEPT ![d] = commit(@, PlaintextLen(r.payload))]
       /\ opened' = [opened EXCEPT ![d] = Append(@, r)]
       /\ opening' = [opening EXCEPT ![d] = IF r.content = "close" THEN "closed" ELSE @]
  ELSE /\ opening' = [opening EXCEPT ![d] = "failed"]
       /\ UNCHANGED <<open, opened>>

(***************************************************************************)
(* The browser's command fails on a record it refuses, but its session     *)
(* stays and a later command reads on; the nonce moves with what was       *)
(* decrypted.                                                              *)
(***************************************************************************)
OpenBrowser(d, r) ==
  /\ open' = IF BrowserDecrypts(d, r) THEN [open EXCEPT ![d] = browser_commit(@)] ELSE open
  /\ opened' = IF BrowserAccepts(d, r) THEN [opened EXCEPT ![d] = Append(@, r)] ELSE opened
  /\ UNCHANGED opening

OpenRecord(d) ==
  /\ opening[d] = "open"
  /\ wire[d] # <<>>
  /\ wire' = [wire EXCEPT ![d] = Tail(@)]
  /\ IF OpensAsBrowser(d) THEN OpenBrowser(d, Head(wire[d])) ELSE OpenNative(d, Head(wire[d]))
  /\ UNCHANGED <<client, seal, sealing, sealed, faults>>

(***************************************************************************)
(* The end of the stream without a CLOSE record is an error of read_exact. *)
(***************************************************************************)
OpenEof(d) ==
  /\ opening[d] = "open"
  /\ wire[d] = <<>>
  /\ sealing[d] # "open"
  /\ opening' = [opening EXCEPT ![d] = "eof"]
  /\ UNCHANGED <<client, seal, open, sealing, wire, sealed, opened, faults>>

(***************************************************************************)
(* What the transport may do to a record in flight.                        *)
(***************************************************************************)
Interfere(d, records) ==
  /\ faults < MaxFaults
  /\ faults' = faults + 1
  /\ wire' = [wire EXCEPT ![d] = records]
  /\ UNCHANGED <<client, seal, open, sealing, opening, sealed, opened>>

Drop(s, i) == [j \in 1 .. Len(s) - 1 |-> IF j < i THEN s[j] ELSE s[j + 1]]

Damage(d) == \E i \in DOMAIN wire[d] :
  Interfere(d, [wire[d] EXCEPT ![i] = [@ EXCEPT !.intact = FALSE]])

Lose(d) == \E i \in DOMAIN wire[d] : Interfere(d, Drop(wire[d], i))

(***************************************************************************)
(* Any record sealed so far arrives once more.                             *)
(***************************************************************************)
Replay(d) == \E i \in DOMAIN sealed[d] :
  Interfere(d, <<RecordOf(sealed[d][i])>> \o wire[d])

Step(d) ==
  \/ SealApplication(d)
  \/ SealClose(d)
  \/ Cut(d)
  \/ OpenRecord(d)
  \/ OpenEof(d)
  \/ Damage(d)
  \/ Lose(d)
  \/ Replay(d)

Next == \E d \in Dirs : Step(d)

Spec == Init /\ [][Next]_vars

-----------------------------------------------------------------------------

Statuses == {"open", "closed", "eof", "failed"}

(***************************************************************************)
(* The types of the ciphers, the wire and the histories.                   *)
(***************************************************************************)
TypeOK ==
  /\ client \in Clients
  /\ seal \in [Dirs -> Ciphers]
  /\ open \in [Dirs -> Ciphers]
  /\ sealing \in [Dirs -> Statuses]
  /\ opening \in [Dirs -> Statuses]
  /\ wire \in [Dirs -> Seq(Records)]
  /\ sealed \in [Dirs -> Seq(SealedRecords)]
  /\ opened \in [Dirs -> Seq(Records)]
  /\ faults \in Nat

(***************************************************************************)
(* No key ever seals two records with one nonce (Session::seal_record and  *)
(* commit), across any number of rekeyings.                                *)
(***************************************************************************)
NonceFresh ==
  \A d \in Dirs : \A i, j \in DOMAIN sealed[d] :
    /\ sealed[d][i].cipher.generation = sealed[d][j].cipher.generation
    /\ sealed[d][i].cipher.nonce = sealed[d][j].cipher.nonce
    => i = j

(***************************************************************************)
(* Whatever the transport loses, damages or replays, old records from      *)
(* before a rekeying included, what open_record has returned is the        *)
(* beginning of what was sealed, in order and without repetition.          *)
(***************************************************************************)
OpenedPrefix ==
  \A d \in Dirs :
    /\ Len(opened[d]) <= Len(sealed[d])
    /\ \A i \in DOMAIN opened[d] : opened[d][i] = RecordOf(sealed[d][i])

(***************************************************************************)
(* A reader that has seen the CLOSE record has opened everything that was  *)
(* sealed: the end of a stream cannot be cut off unnoticed.                *)
(***************************************************************************)
ClosedComplete ==
  \A d \in Dirs : opening[d] = "closed" => Len(opened[d]) = Len(sealed[d])

(***************************************************************************)
(* "record_cipher_rekeys_at_the_shared_boundary": as long as the transport *)
(* does nothing to the records, a native client and the node use the same  *)
(* key and nonce for every record, so the reader refuses none of them.     *)
(***************************************************************************)
SharedBoundary ==
  client = "native" /\ faults = 0 => \A d \in Dirs : opening[d] # "failed"

(***************************************************************************)
(* The rekeying bounds come first: check_limit's "reconnect required" is   *)
(* never the answer to a record a writer seals.                            *)
(***************************************************************************)
LimitUnreached ==
  \A d \in Dirs : ~SealsAsBrowser(d) => \A payload \in Payloads \union {0} :
    check_limit(seal[d], PlaintextLen(payload))

(***************************************************************************)
(* A reader takes over a beginning of what was sealed, and all of it if it *)
(* has seen CLOSE, whatever happens to the records on the way.             *)
(***************************************************************************)
ReadFaithfully == OpenedPrefix /\ ClosedComplete

(***************************************************************************)
(* The variables keep their types, and commit on both sides replaces the   *)
(* key at the same record, before check_limit would refuse one.            *)
(***************************************************************************)
KeysInStep == TypeOK /\ SharedBoundary /\ LimitUnreached
=============================================================================
