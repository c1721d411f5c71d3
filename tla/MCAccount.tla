------------------------------ MODULE MCAccount ------------------------------
(***************************************************************************)
(* Instances of Account for TLC.                                           *)
(***************************************************************************)
EXTENDS Account

CONSTANTS r1, r2, old, new

\* One call brings a new token, the others keep the old one.
NewAndOld == [r \in Requests |-> IF r = r1 THEN new ELSE old]

\* That call may try twice.
TwiceOrOnce == [r \in Requests |-> IF r = r1 THEN 2 ELSE 1]
=============================================================================
