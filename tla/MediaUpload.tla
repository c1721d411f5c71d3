----------------------------- MODULE MediaUpload -----------------------------
(***************************************************************************)
(* The four ways a file reaches a media node: Client::upload_media,        *)
(* upload_media_resumable and upload_media_e2e of lib.rs, which read a     *)
(* source, and Mst5E2eMediaUpload of the browser binding, which is handed  *)
(* pieces of it.  The stream frames travel in order on a connection of     *)
(* their own (module Connection), so a frame sent is a frame appended to   *)
(* what the node has.                                                      *)
(***************************************************************************)
EXTENDS MediaContainer

CONSTANTS
  Ways,       \* the kinds of upload: a subset of the four
  Sizes,      \* the sizes a caller declares
  MaxRead     \* the read buffer: the most one read or browser piece returns

ASSUME UploadAssumption ==
  /\ Ways \subseteq {"plain", "resumable", "e2e", "browser"}
  /\ Sizes \subseteq Nat \ {0}
  /\ MaxRead \in Nat \ {0}

VARIABLES
  way, size,   \* the call's kind and declared size
  available,   \* how much the source really holds
  offset,      \* where a resumed upload starts
  read,        \* how much of the source has been read
  pending,     \* browser: bytes not yet sealed
  written,     \* the encryptor's count of plaintext bytes
  index,       \* the encryptor's chunk index
  sent,        \* the call's count of bytes sent
  broken,      \* browser: a write has failed, the tunnel delivers no more
  stored,      \* what the node has
  state        \* where the call is

callVars == <<way, size, available, offset>>
encVars == <<written, index, sent, stored>>
vars == <<callVars, read, pending, encVars, broken, state>>

States == {"begin", "header", "reading", "sealing", "finishing", "ended", "ok",
           "mismatch", "refused", "aborted", "lost"}

(***************************************************************************)
(* What the node should hold in the end, and the size it was told.         *)
(***************************************************************************)
Encrypts == way \in {"e2e", "browser"}
Whole == IF Encrypts THEN Container(size) ELSE Plain(size)
ToldSize == IF Encrypts THEN encrypted_media_size(size) ELSE size

(***************************************************************************)
(* A source may hold one byte more or less than the caller declared.  When *)
(* an upload is resumed the node has some beginning of the file, and the   *)
(* source starts at the offset the caller remembers.                       *)
(***************************************************************************)
Init ==
  /\ way \in Ways
  /\ size \in Sizes
  /\ available \in {size - 1, size, size + 1}
  /\ offset \in IF way = "resumable" THEN 0 .. size ELSE {0}
  /\ stored \in IF way = "resumable" THEN {Plain(k) : k \in 0 .. size} ELSE {<<>>}
  /\ read = offset
  /\ pending = 0
  /\ written = 0
  /\ index = 0
  /\ sent = offset
  /\ broken = FALSE
  /\ state = "begin"

Goto(from, to) == state = from /\ state' = to

(***************************************************************************)
(* STREAM_OPEN is acknowledged.  A resumed upload compares the offset the  *)
(* node names with its own.                                                *)
(***************************************************************************)
Open ==
  /\ Goto("begin", IF Len(stored) # offset THEN "mismatch"
                   ELSE IF Encrypts THEN "header" ELSE "reading")
  /\ UNCHANGED <<callVars, read, pending, encVars, broken>>

SendHeader ==
  /\ Goto("header", "reading")
  /\ stored' = stored \o Header(size)
  /\ sent' = sent + MEDIA_HEADER_SIZE
  /\ UNCHANGED <<callVars, read, pending, written, index, broken>>

(***************************************************************************)
(* The plain loops: read, compare with the declared size, send.            *)
(***************************************************************************)
ReadAndSend ==
  /\ way \in {"plain", "resumable"}
  /\ state = "reading"
  /\ \E count \in 1 .. Least(MaxRead, available - read) :
       /\ read' = read + count
       /\ sent' = sent + count
       /\ IF sent + count > size
          THEN state' = "aborted" /\ UNCHANGED stored
          ELSE /\ stored' = stored \o [k \in 1 .. count |-> read + k]
               /\ UNCHANGED state
  /\ UNCHANGED <<callVars, pending, written, index, broken>>

(***************************************************************************)
(* seal_chunk refuses a chunk beyond the declared size, and a short one    *)
(* that is not the last.                                                   *)
(***************************************************************************)
SealAccepts(len) ==
  /\ len > 0 /\ len <= MEDIA_CHUNK_SIZE
  /\ written + len <= size
  /\ written + len = size \/ len = MEDIA_CHUNK_SIZE

Sealed(len) ==
  /\ written' = written + len
  /\ index' = index + 1

SealAndSend(len) ==
  /\ Sealed(len)
  /\ sent' = sent + Len(SealedChunk(size, index, len))
  /\ stored' = IF broken THEN stored ELSE stored \o SealedChunk(size, index, len)

(***************************************************************************)
(* upload_media_e2e seals whatever one read returns; a refusal ends the    *)
(* call without an abort, and dropping the request cancels it.             *)
(***************************************************************************)
ReadAndSeal ==
  /\ way = "e2e"
  /\ state = "reading"
  /\ \E count \in 1 .. Least(MEDIA_CHUNK_SIZE, available - read) :
       /\ read' = read + count
       /\ IF SealAccepts(count)
          THEN SealAndSend(count) /\ UNCHANGED state
          ELSE state' = "refused" /\ UNCHANGED encVars
  /\ UNCHANGED <<callVars, pending, broken>>

(***************************************************************************)
(* The browser hands over a piece; full chunks are sealed as long as there *)
(* are any, and what is left stays pending.                                *)
(***************************************************************************)
BrowserWrite ==
  /\ way = "browser"
  /\ \E count \in 1 .. Least(MaxRead, available - read) :
       /\ Goto("reading", "sealing")
       /\ read' = read + count
       /\ pending' = pending + count
  /\ UNCHANGED <<callVars, encVars, broken>>

BrowserSeal ==
  /\ state = "sealing"
  /\ IF pending < MEDIA_CHUNK_SIZE
     THEN state' = "reading" /\ UNCHANGED <<pending, encVars>>
     ELSE /\ pending' = pending - MEDIA_CHUNK_SIZE
          /\ IF SealAccepts(MEDIA_CHUNK_SIZE)
             THEN SealAndSend(MEDIA_CHUNK_SIZE) /\ UNCHANGED state
             ELSE state' = "refused" /\ UNCHANGED encVars
  /\ UNCHANGED <<callVars, read, broken>>

(***************************************************************************)
(* A sealed chunk goes out in several frames, and one of them fails: the   *)
(* chunk has left pending and the encryptor has moved on, sent counts the  *)
(* frames that went well, and the node may have got more than those.  The  *)
(* record nonce and the tunnel's sequence no longer agree, so nothing      *)
(* after it is delivered, but the caller still holds the upload.           *)
(***************************************************************************)
\* The chunk that write or finish is about to send.
BrowserChunk(len) ==
  \/ state = "sealing" /\ pending >= MEDIA_CHUNK_SIZE /\ len = MEDIA_CHUNK_SIZE
  \/ state = "reading" /\ read >= available /\ pending > 0 /\ len = pending

\* Mutant: the chunk is counted as sent before it is.
BrowserSendCounted ==
  /\ way = "browser"
  /\ \E len \in 1 .. MEDIA_CHUNK_SIZE :
       /\ BrowserChunk(len) /\ SealAccepts(len)
       /\ pending' = pending - len
       /\ Sealed(len)
       /\ sent' = sent + Len(SealedChunk(size, index, len))
  /\ broken' = TRUE
  /\ state' = "refused"
  /\ UNCHANGED <<callVars, read, stored>>

BrowserSendFails ==
  /\ way = "browser"
  /\ \E len \in 1 .. MEDIA_CHUNK_SIZE :
       LET frames == SealedChunk(size, index, len)
       IN  /\ BrowserChunk(len) /\ SealAccepts(len)
           /\ pending' = pending - len
           /\ Sealed(len)
           /\ \E counted \in 0 .. Len(frames) - 1 :
              \E reached \in counted .. Len(frames) :
                /\ sent' = sent + counted
                /\ stored' = IF broken THEN stored ELSE stored \o Prefix(frames, reached)
  /\ broken' = TRUE
  /\ state' = "refused"
  /\ UNCHANGED <<callVars, read>>

(***************************************************************************)
(* After an error the browser's upload is still open: the caller may hand  *)
(* over more or call finish once more.                                     *)
(***************************************************************************)
BrowserAgain ==
  /\ way = "browser"
  /\ Goto("refused", "reading")
  /\ UNCHANGED <<callVars, read, pending, encVars, broken>>

(***************************************************************************)
(* The browser's finish seals what is pending; the native loops end when   *)
(* the source does.                                                        *)
(***************************************************************************)
SourceEnds ==
  /\ read >= available
  /\ IF way = "browser" /\ pending > 0
     THEN /\ pending' = 0
          /\ IF SealAccepts(pending)
             THEN Goto("reading", "finishing") /\ SealAndSend(pending)
             ELSE Goto("reading", "refused") /\ UNCHANGED encVars
     ELSE Goto("reading", "finishing") /\ UNCHANGED <<pending, encVars>>
  /\ UNCHANGED <<callVars, read, broken>>

(***************************************************************************)
(* STREAM_END goes out when everything declared has been sent.             *)
(***************************************************************************)
Finish ==
  /\ Goto("finishing", IF (Encrypts => written = size) /\ sent = ToldSize THEN "ended"
                       ELSE IF way = "browser" THEN "refused" ELSE "aborted")
  /\ UNCHANGED <<callVars, read, pending, encVars, broken>>

(***************************************************************************)
(* The node answers the end; it compares size and checksum with what it    *)
(* has.                                                                    *)
(***************************************************************************)
NodeResult ==
  /\ stored = Whole
  /\ Goto("ended", "ok")
  /\ UNCHANGED <<callVars, read, pending, encVars, broken>>

(***************************************************************************)
(* A frame cannot be sent: the call aborts the stream and returns.         *)
(***************************************************************************)
SendFails ==
  /\ state \in {"begin", "header", "reading", "ended"}
  /\ state' = "lost"
  /\ UNCHANGED <<callVars, read, pending, encVars, broken>>

Next ==
  \/ Open \/ SendHeader \/ ReadAndSend \/ ReadAndSeal \/ BrowserWrite \/ BrowserSeal
  \/ BrowserSendFails \/ BrowserAgain \/ SourceEnds \/ Finish \/ NodeResult \/ SendFails

Spec == Init /\ [][Next]_vars

-----------------------------------------------------------------------------
(***************************************************************************)
(* The types of the call, the encryptor and the node.                      *)
(***************************************************************************)
TypeOK ==
  /\ way \in Ways /\ size \in Sizes /\ available \in Nat /\ offset \in 0 .. size
  /\ read \in 0 .. available + size
  /\ pending \in 0 .. available
  /\ written \in 0 .. size
  /\ index \in 0 .. size
  /\ sent \in 0 .. ToldSize + MaxRead
  /\ Len(stored) \in Nat
  /\ broken \in BOOLEAN
  /\ state \in States

(***************************************************************************)
(* Whatever the source turns out to hold and however it is cut into reads, *)
(* STREAM_END is sent only when the node has the whole file, byte for      *)
(* byte: the container of an encrypted upload is the one its header        *)
(* announces, and a resumed upload continues exactly where the node is.    *)
(***************************************************************************)
EndComplete == state \in {"ended", "ok"} => stored = Whole

(***************************************************************************)
(* At every moment the node holds a beginning of the right bytes, so that  *)
(* an interrupted upload can be resumed.                                   *)
(***************************************************************************)
StoredPrefix == IsPrefixOf(stored, Whole)

(***************************************************************************)
(* "File.stream() chunks are not guaranteed to be aligned": a browser      *)
(* source of the declared size is never refused for how it is cut.         *)
(***************************************************************************)
BrowserAligns == way = "browser" /\ available = size /\ ~broken => state # "refused"
=============================================================================
