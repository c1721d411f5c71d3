---------------------------- MODULE MediaDownload ----------------------------
(***************************************************************************)
(* The downloads of lib.rs and of the browser binding: an acknowledgement  *)
(* with the size, data frames cut anywhere, an end with size and checksum. *)
(* Encrypted files pass through the streaming decryptor of e2e.rs, which   *)
(* buffers until a chunk is complete and hands out what it authenticates.  *)
(* The node may have kept the file badly: cut, with frames exchanged, with *)
(* bytes added, or under another header.  Module MediaTransfer says which  *)
(* file that is.                                                           *)
(***************************************************************************)
EXTENDS MediaContainer

CONSTANTS
  Sizes,      \* the sizes of files
  MaxFrame    \* the most bytes a data frame carries

VARIABLES
  size, stored, \* the size of the original and the bytes the node was given
  reader,       \* the download call
  announced,    \* the size in the node's acknowledgement
  wire,         \* what the node has still to send
  sum,          \* the content the checksum in STREAM_END belongs to
  received,     \* everything received, as the hasher saw it
  decryptor,    \* the streaming decryptor
  target,       \* what has been written to the caller's target
  progress      \* where the call is

callVars == <<reader, announced, sum>>

States == {"idle", "open", "receiving", "ok", "failed"}
Readers == {"plain", "stream", "e2e"}

-----------------------------------------------------------------------------
(***************************************************************************)
(* What the node may hold instead of the original.                         *)
(***************************************************************************)
Drop(s, n) == SubSeq(s, n + 1, Len(s))

Exchanged(s) ==
  LET frame == LENGTH_SIZE + MEDIA_CHUNK_SIZE + MEDIA_TAG_SIZE
      At(k) == SubSeq(s, MEDIA_HEADER_SIZE + k * frame + 1, MEDIA_HEADER_SIZE + (k + 1) * frame)
  IN  IF Len(s) < MEDIA_HEADER_SIZE + 2 * frame THEN s
      ELSE Prefix(s, MEDIA_HEADER_SIZE) \o At(1) \o At(0) \o Drop(s, MEDIA_HEADER_SIZE + 2 * frame)

Noise(w) == IF w = "e2e" THEN <<"noise">> ELSE 0

Kept(w, s) ==
  LET headed == IF w = "e2e" THEN {Header(n) \o Drop(s, MEDIA_HEADER_SIZE) : n \in Sizes \union {0}}
                               ELSE {}
  IN  {Exchanged(s), Append(s, Noise(w))}
        \union {[s EXCEPT ![n] = Noise(w)] : n \in DOMAIN s}
        \union {Prefix(t, n) : t \in headed \union {s}, n \in 0 .. Len(s)}

-----------------------------------------------------------------------------
(***************************************************************************)
(* MediaDecryptor.  push appends, reads the header once it is there, and   *)
(* opens chunk after chunk.                                                *)
(***************************************************************************)
NewDecryptor == [header_read |-> FALSE, plaintext_size |-> 0, written |-> 0, index |-> 0,
                 pending |-> <<>>, output |-> <<>>, error |-> FALSE]

ReadHeader(d) ==
  IF d.header_read \/ Len(d.pending) < MEDIA_HEADER_SIZE THEN d
  ELSE LET head == Prefix(d.pending, MEDIA_HEADER_SIZE)
       IN  IF \E n \in Sizes \union {0} : head = Header(n)
           THEN [d EXCEPT !.header_read = TRUE,
                          !.plaintext_size = head[1][2],
                          !.pending = Drop(@, MEDIA_HEADER_SIZE)]
           ELSE [d EXCEPT !.error = TRUE]

\* Mutant: the chunk's index is not part of what is authenticated.
AuthenticAnywhere(d, len, bytes) ==
  \E index \in 0 .. d.plaintext_size : bytes = Drop(SealedChunk(d.plaintext_size, index, len), LENGTH_SIZE)

Authentic(d, len, bytes) ==
  bytes = Drop(SealedChunk(d.plaintext_size, d.index, len), LENGTH_SIZE)

Expected(d) == Least(d.plaintext_size - d.written, MEDIA_CHUNK_SIZE)

\* The length in front of the pending bytes.  Length bytes that are not the
\* bytes of one length in order are some other number.
PendingLength(d) ==
  IF \E n \in 0 .. MEDIA_CHUNK_SIZE + MEDIA_TAG_SIZE :
       Prefix(d.pending, LENGTH_SIZE) = [k \in 1 .. LENGTH_SIZE |-> <<"length", n, k>>]
  THEN d.pending[1][2] ELSE MEDIA_CHUNK_SIZE + MEDIA_TAG_SIZE + 1

\* What decryption makes of a chunk: the plaintext it was sealed from.
Plaintext(bytes) == ChunkOf(bytes[1][3], bytes[1][4])

RECURSIVE OpenChunks(_)

\* Mutant: a chunk is opened before all its bytes have come.
OpenChunksEarly(d) ==
  IF ~d.header_read \/ d.error \/ d.written >= d.plaintext_size \/ Len(d.pending) <= LENGTH_SIZE
  THEN d
  ELSE LET len == Expected(d)
           bytes == SubSeq(d.pending, LENGTH_SIZE + 1,
                           Least(Len(d.pending), LENGTH_SIZE + len + MEDIA_TAG_SIZE))
       IN  IF PendingLength(d) # len + MEDIA_TAG_SIZE \/ ~Authentic(d, len, bytes)
           THEN [d EXCEPT !.error = TRUE]
           ELSE OpenChunks([d EXCEPT !.pending = Drop(@, LENGTH_SIZE + len + MEDIA_TAG_SIZE),
                                     !.written = @ + len,
                                     !.index = @ + 1,
                                     !.output = @ \o Plaintext(bytes)])

OpenChunks(d) ==
  IF ~d.header_read \/ d.error \/ d.written >= d.plaintext_size \/ Len(d.pending) < LENGTH_SIZE
  THEN d
  ELSE LET len == Expected(d)
           bytes == SubSeq(d.pending, LENGTH_SIZE + 1, LENGTH_SIZE + len + MEDIA_TAG_SIZE)
       IN  IF PendingLength(d) # len + MEDIA_TAG_SIZE THEN [d EXCEPT !.error = TRUE]
           ELSE IF Len(d.pending) < LENGTH_SIZE + len + MEDIA_TAG_SIZE THEN d
           ELSE IF ~Authentic(d, len, bytes) THEN [d EXCEPT !.error = TRUE]
           ELSE OpenChunks([d EXCEPT !.pending = Drop(@, LENGTH_SIZE + len + MEDIA_TAG_SIZE),
                                     !.written = @ + len,
                                     !.index = @ + 1,
                                     !.output = @ \o Plaintext(bytes)])

push(d, bytes) ==
  OpenChunks(ReadHeader([d EXCEPT !.pending = @ \o bytes, !.output = <<>>]))

finish(d) == d.header_read /\ d.written = d.plaintext_size /\ d.pending = <<>>

-----------------------------------------------------------------------------
Init ==
  /\ reader \in Readers
  /\ announced = 0
  /\ sum = <<>>
  /\ wire = <<>>
  /\ received = <<>>
  /\ decryptor = NewDecryptor
  /\ target = <<>>
  /\ progress = "idle"

(***************************************************************************)
(* The call starts with the size its caller knows; the node has kept the   *)
(* file somehow, announces a size of its own and will send the checksum of *)
(* what it was given or of what it sends.                                  *)
(***************************************************************************)
Start ==
  /\ progress = "idle"
  /\ progress' = "open"
  /\ \E kept \in Kept(reader, stored) :
       /\ wire' = kept
       /\ announced' \in {Len(stored), Len(kept)}
       /\ sum' \in {stored, kept}
  /\ UNCHANGED <<reader, received, decryptor, target>>

(***************************************************************************)
(* ACK: a size other than the caller's aborts the call.                    *)
(***************************************************************************)
Ack ==
  /\ progress = "open"
  /\ progress' = IF announced = Len(stored) THEN "receiving" ELSE "failed"
  /\ UNCHANGED <<callVars, wire, received, decryptor, target>>

(***************************************************************************)
(* STREAM_DATA.  The native plain download writes before it compares the   *)
(* count; the browser's stream and the encrypted one compare first, and    *)
(* what push opened before an error in the same frame is not written.      *)
(***************************************************************************)
Data ==
  /\ progress = "receiving"
  /\ \E count \in 1 .. Least(MaxFrame, Len(wire)) :
       LET bytes == Prefix(wire, count)
           beyond == Len(received) + count > announced
           pushed == push(decryptor, bytes)
       IN  /\ wire' = Drop(wire, count)
           /\ received' = received \o bytes
           /\ IF reader = "e2e" /\ ~beyond
              THEN /\ decryptor' = pushed
                   /\ target' = IF pushed.error THEN target ELSE target \o pushed.output
                   /\ progress' = IF pushed.error THEN "failed" ELSE progress
              ELSE /\ target' = IF reader = "plain" \/ ~beyond THEN target \o bytes ELSE target
                   /\ progress' = IF beyond THEN "failed" ELSE progress
                   /\ UNCHANGED decryptor
  /\ UNCHANGED callVars

(***************************************************************************)
(* STREAM_END: count and checksum are compared, then the decryptor has to  *)
(* have ended too.                                                         *)
(***************************************************************************)
End ==
  /\ progress = "receiving" /\ wire = <<>>
  /\ LET valid == /\ Len(received) = announced
                  /\ Len(sum) = Len(received)
                  /\ sum = received
                  /\ reader = "e2e" => finish(decryptor)
     IN  progress' = IF valid THEN "ok" ELSE "failed"
  /\ UNCHANGED <<callVars, wire, received, decryptor, target>>

(***************************************************************************)
(* ERROR, an unexpected frame, a timeout, or a target that cannot be       *)
(* written.                                                                *)
(***************************************************************************)
Fails ==
  /\ progress \in {"open", "receiving"}
  /\ progress' = "failed"
  /\ UNCHANGED <<callVars, wire, received, decryptor, target>>

Next == Ack \/ Data \/ End \/ Fails

-----------------------------------------------------------------------------
(***************************************************************************)
(* The types, and the decryptor's buffer: never more than one frame's      *)
(* bytes and an incomplete chunk while the file is not over.               *)
(***************************************************************************)
TypeOK ==
  /\ reader \in Readers /\ announced \in Nat
  /\ progress \in States
  /\ decryptor.header_read /\ decryptor.written < decryptor.plaintext_size /\ ~decryptor.error
       => Len(decryptor.pending) < LENGTH_SIZE + MEDIA_CHUNK_SIZE + MEDIA_TAG_SIZE
  /\ decryptor.written <= decryptor.plaintext_size
=============================================================================
