---------------------------- MODULE MCRecordLayer ----------------------------
(***************************************************************************)
(* Instances of RecordLayer for TLC.                                       *)
(***************************************************************************)
EXTENDS RecordLayer

\* Short and long records: three short ones, or two long ones, end a key.
ShortAndLong == {1, 20}
=============================================================================
