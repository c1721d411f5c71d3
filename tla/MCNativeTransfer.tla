--------------------------- MODULE MCNativeTransfer ---------------------------
(***************************************************************************)
(* Instances of NativeTransfer for TLC.                                    *)
(***************************************************************************)
EXTENDS NativeTransfer

CONSTANTS f1, f2, f3

Job(mode, items, chunks, permits, answers) ==
  [mode |-> mode, items |-> items, size |-> chunks, permits |-> permits, answers |-> answers]

\* A batch of three on two permits, one of two longer files, an upload, and a
\* download from a node that may stop answering.
AllJobs ==
  {Job("batch", {f1, f2, f3}, 1, 2, TRUE),
   Job("batch", {f1, f2}, 2, 2, TRUE),
   Job("upload", {f1}, 4, 1, TRUE),
   Job("download", {f1}, 4, 1, FALSE)}
===============================================================================
