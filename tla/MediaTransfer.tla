---------------------------- MODULE MediaTransfer ----------------------------
(***************************************************************************)
(* A file's way through the media node: one of the uploads of MediaUpload, *)
(* and, once the node has confirmed it, a download of MediaDownload that   *)
(* reads what the upload stored.  An encrypted upload, native or browser,  *)
(* is read by an encrypted download, a plain one by a plain download.      *)
(***************************************************************************)
EXTENDS MediaUpload

CONSTANT MaxFrame   \* the most bytes a data frame of a download carries

ASSUME DownloadAssumption == MaxFrame \in Nat \ {0}

VARIABLES
  reader,      \* the download call
  announced, sum, wire, received, decryptor, target,
  progress     \* where the download is

Download == INSTANCE MediaDownload

downloadVars == <<reader, announced, sum, wire, received, decryptor, target, progress>>
transferVars == <<vars, downloadVars>>

(***************************************************************************)
(* The caller knows whether the file is encrypted, and its size.           *)
(***************************************************************************)
TransferInit ==
  /\ Init
  /\ Download!Init
  /\ reader = "e2e" <=> Encrypts

UploadStep == Next /\ UNCHANGED downloadVars

DownloadStart == state = "ok" /\ Download!Start /\ UNCHANGED vars

DownloadStep == Download!Next /\ UNCHANGED vars

TransferNext == UploadStep \/ DownloadStart \/ DownloadStep

TransferSpec == TransferInit /\ [][TransferNext]_transferVars

-----------------------------------------------------------------------------
(***************************************************************************)
(* The types of the upload, and of the download with its decryptor: the    *)
(* decryptor buffers less than one sealed chunk while the file goes on.    *)
(***************************************************************************)
TransferTypeOK == TypeOK /\ Download!TypeOK

(***************************************************************************)
(* Whatever the node made of the file and however its frames are cut, the  *)
(* plaintext an encrypted download has written is a beginning of the file  *)
(* that was uploaded.                                                      *)
(***************************************************************************)
TargetPrefix == Encrypts => IsPrefixOf(target, Plain(size))

(***************************************************************************)
(* An encrypted download that succeeds has written the whole file that was *)
(* uploaded, even when header, size and checksum come from a node that     *)
(* lost part of it.                                                        *)
(***************************************************************************)
OkWhole == Encrypts /\ progress = "ok" => target = Plain(size)

(***************************************************************************)
(* "validating the announced size and SHA-256": a plain download that      *)
(* succeeds has written what the node's checksum stands for, of the size   *)
(* the caller knows.                                                       *)
(***************************************************************************)
OkValidated == ~Encrypts /\ progress = "ok" => target = sum /\ Len(target) = size

(***************************************************************************)
(* What the encryptors make of a file the decryptor reads: as long as the  *)
(* node sends what was stored, no cut into frames makes it refuse, and     *)
(* once everything has come the target is the file and nothing is held     *)
(* back.                                                                   *)
(***************************************************************************)
GoodFileRead ==
  Encrypts /\ progress # "idle" /\ received \o wire = stored /\ announced = Len(stored)
    => /\ ~decryptor.error
       /\ wire = <<>> => Download!finish(decryptor) /\ target = Plain(size)

(***************************************************************************)
(* The variables keep their types, and the node stores a beginning of the  *)
(* file or of its sealed form, the whole of it when STREAM_END is sent, in *)
(* chunks cut where the decryptor expects them.                            *)
(***************************************************************************)
UploadFaithful == TransferTypeOK /\ EndComplete /\ StoredPrefix /\ BrowserAligns

(***************************************************************************)
(* Whatever the node sends, a download hands on a beginning of the file,   *)
(* and reports success only for all of it.                                 *)
(***************************************************************************)
DownloadFaithful == TargetPrefix /\ OkWhole /\ OkValidated
=============================================================================
