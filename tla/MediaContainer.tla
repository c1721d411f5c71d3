---------------------------- MODULE MediaContainer ----------------------------
(***************************************************************************)
(* The encrypted media container of e2e.rs: a header, then one frame per   *)
(* chunk of plaintext, each a length and a sealed chunk.  A container is a *)
(* sequence of symbolic bytes.  A sealed byte names all that the AEAD      *)
(* binds it to: the header (the plaintext size), the chunk's index and     *)
(* its length; plaintext is the sequence of byte numbers of the file.      *)
(***************************************************************************)
EXTENDS Naturals, Sequences

CONSTANTS
  MEDIA_CHUNK_SIZE,   \* plaintext bytes of a full chunk
  MEDIA_HEADER_SIZE,  \* bytes of the header
  LENGTH_SIZE,        \* bytes of the length in front of a sealed chunk
  MEDIA_TAG_SIZE      \* bytes the AEAD adds to a chunk

ASSUME ContainerAssumption ==
  /\ MEDIA_CHUNK_SIZE \in Nat \ {0}
  /\ MEDIA_HEADER_SIZE \in Nat \ {0}
  /\ LENGTH_SIZE \in Nat \ {0}
  /\ MEDIA_TAG_SIZE \in Nat \ {0}

Least(a, b) == IF a < b THEN a ELSE b

(***************************************************************************)
(* The size the media node is asked to reserve.                            *)
(***************************************************************************)
encrypted_media_size(size) ==
  size + ((size + MEDIA_CHUNK_SIZE - 1) \div MEDIA_CHUNK_SIZE) * (LENGTH_SIZE + MEDIA_TAG_SIZE)
       + MEDIA_HEADER_SIZE

Header(size) == [k \in 1 .. MEDIA_HEADER_SIZE |-> <<"header", size, k>>]

(***************************************************************************)
(* The frame of one chunk: its length, then the sealed bytes.              *)
(***************************************************************************)
SealedChunk(size, index, len) ==
  [k \in 1 .. LENGTH_SIZE + len + MEDIA_TAG_SIZE |->
     IF k <= LENGTH_SIZE THEN <<"length", len + MEDIA_TAG_SIZE, k>>
                         ELSE <<"sealed", size, index, len, k - LENGTH_SIZE>>]

(***************************************************************************)
(* The reference: the whole container of a file, each byte from its place. *)
(***************************************************************************)
Container(size) ==
  LET frame == LENGTH_SIZE + MEDIA_CHUNK_SIZE + MEDIA_TAG_SIZE
      Byte(p) ==
        LET q == p - MEDIA_HEADER_SIZE - 1
            index == q \div frame
            len == Least(MEDIA_CHUNK_SIZE, size - index * MEDIA_CHUNK_SIZE)
        IN  IF p <= MEDIA_HEADER_SIZE THEN Header(size)[p]
                                      ELSE SealedChunk(size, index, len)[(q % frame) + 1]
  IN  [p \in 1 .. encrypted_media_size(size) |-> Byte(p)]

Plain(size) == [k \in 1 .. size |-> k]

\* The bytes of the file in a chunk of this index and length.
ChunkOf(index, len) == [k \in 1 .. len |-> index * MEDIA_CHUNK_SIZE + k]

Prefix(s, n) == SubSeq(s, 1, n)

IsPrefixOf(s, t) == Len(s) <= Len(t) /\ s = Prefix(t, Len(s))
=============================================================================
