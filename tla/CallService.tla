----------------------------- MODULE CallService -----------------------------
(***************************************************************************)
(* What a multiplexed connection promises each of its calls: at most       *)
(* MAX_IN_FLIGHT of them are in flight, a call is answered only after its  *)
(* request went out, and it ends once, with a reply or without one.        *)
(***************************************************************************)
EXTENDS Naturals, FiniteSets

CONSTANTS Calls, MAX_IN_FLIGHT

VARIABLES
    state,       \* of each call
    transmitted  \* calls whose request is on the wire

Failures == {"error", "timeout", "dropped"}

ServiceInit ==
    /\ state = [c \in Calls |-> "idle"]
    /\ transmitted = {}

InFlight == {c \in Calls : state[c] = "inflight"}

Start(c) ==
    /\ state[c] = "idle"
    /\ state' = [state EXCEPT ![c] = "waiting"]
    /\ UNCHANGED transmitted

Admit(c) ==
    /\ state[c] = "waiting"
    /\ Cardinality(InFlight) < MAX_IN_FLIGHT
    /\ state' = [state EXCEPT ![c] = "inflight"]
    /\ UNCHANGED transmitted

\* The request may still go out after its call has given up.
Transmit(c) ==
    /\ state[c] \notin {"idle", "waiting", "reply"}
    /\ c \notin transmitted
    /\ transmitted' = transmitted \cup {c}
    /\ UNCHANGED state

Reply(c) ==
    /\ state[c] = "inflight"
    /\ c \in transmitted
    /\ state' = [state EXCEPT ![c] = "reply"]
    /\ UNCHANGED transmitted

GiveUp(c) ==
    /\ state[c] \in {"waiting", "inflight"}
    /\ \E o \in Failures : state' = [state EXCEPT ![c] = o]
    /\ UNCHANGED transmitted

ServiceNext ==
    \E c \in Calls : Start(c) \/ Admit(c) \/ Transmit(c) \/ Reply(c) \/ GiveUp(c)

ServiceSpec == ServiceInit /\ [][ServiceNext]_<<state, transmitted>>
=============================================================================
