------------------------------- MODULE MCOutbox -------------------------------
(***************************************************************************)
(* Instances of Outbox for TLC: two messages of a host that reports late   *)
(* answers, two of a host that restarts, two of a host that reports every  *)
(* attempt once, and one message with a long series of failures.           *)
(***************************************************************************)
EXTENDS Outbox

CONSTANTS m1, m2

Policy(attempts, longest) ==
  [max_attempts |-> attempts, initial_delay |-> 1, max_delay |-> longest]

Use(ids, policy, unsure, again, lives) ==
  [ids |-> ids, late |-> unsure, retries |-> again, restarts |-> lives,
   max_attempts |-> policy.max_attempts, initial_delay |-> policy.initial_delay,
   max_delay |-> policy.max_delay]

Uses ==
  {Use({m1, m2}, Policy(2, 2), TRUE, 1, 0),
   Use({m1, m2}, Policy(2, 1), TRUE, 0, 1),
   Use({m1, m2}, Policy(2, 2), FALSE, 1, 0),
   Use({m1}, Policy(5, 6), TRUE, 2, 2)}
===============================================================================
