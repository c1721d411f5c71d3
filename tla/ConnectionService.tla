------------------------- MODULE ConnectionService --------------------------
(***************************************************************************)
(* Connection, seen through the promise it makes to its callers: the       *)
(* refinement mapping to CallService.                                      *)
(***************************************************************************)
EXTENDS Connection

\* The promise to the calls, in the terms of this module.
Service == INSTANCE CallService WITH
    state <- [c \in Calls |->
                IF out[c] # "none" THEN out[c]
                ELSE IF pc[c] = "idle" THEN "idle"
                ELSE IF pc[c] = "slot" THEN "waiting"
                ELSE "inflight"],
    transmitted <- {c \in Calls : id[c] \in Opened}

\* The connection implements CallService: a call replies only if its own
\* request is on the wire, ends once, and the slots bound those in flight.
ImplementsService == Service!ServiceSpec
=============================================================================
