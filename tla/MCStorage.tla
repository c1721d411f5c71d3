------------------------------ MODULE MCStorage ------------------------------
(***************************************************************************)
(* Instances of Storage for TLC.                                           *)
(***************************************************************************)
EXTENDS Storage

Host(store, kinds, exclusive, maxCrashes) ==
  [store |-> store, kinds |-> kinds, exclusive |-> exclusive, crashes |-> maxCrashes]

\* One call after the other with crashes, on either file; and concurrent
\* calls on the identity file.
AllHosts ==
  {Host("identity", {"save", "create", "remove"}, TRUE, 2),
   Host("session", {"save"}, TRUE, 1),
   Host("identity", {"save", "create"}, FALSE, 0)}
=============================================================================
