---------------------------- MODULE MCConnection ----------------------------
(***************************************************************************)
(* Small instances of Connection.                                          *)
(***************************************************************************)
EXTENDS ConnectionService, TLC

CONSTANTS r1, r2, u1, d1, v1, t1

OneTalker == t1 :> v1
NoTalker == <<>>

Fresh(calls, inputs) == [calls |-> calls, inputs |-> inputs, first |-> 1]

\* Two requests that time out or are dropped, and two that meet every way for
\* the connection to end while the last id is given out.
TwoRequests ==
    {Fresh({r1, r2}, {"timeout", "silence", "drop"}),
     [calls |-> {r1, r2}, first |-> IdLimit - 1,
      inputs |-> {"timeout", "silence", "eof", "fault", "close", "dropclose",
                  "oversize", "release"}]}

\* The background tasks, without and with a request.
Background ==
    {Fresh({}, {"timeout", "fault", "eof", "keepalive", "ping", "release", "close"}),
     Fresh({r1}, {"fault", "eof", "keepalive", "ping", "release"}),
     Fresh({r1}, {"timeout", "close", "keepalive", "ping", "release"})}

\* Transfers and voice, alone with every way to end and beside a request.
Streams ==
    {Fresh({u1}, {"timeout", "silence", "drop", "eof"}),
     Fresh({d1}, {"timeout", "silence", "drop", "eof"}),
     Fresh({v1, t1}, {"timeout", "silence", "drop", "close"}),
     Fresh({v1, t1}, {"timeout", "silence", "close"}),
     Fresh({r1, u1}, {"timeout"}),
     Fresh({r1, d1}, {"drop", "eof"})}

\* Calls that are not answered or are dropped, on a connection that has no
\* other reason to end.
Unanswered ==
    {Fresh({r1, r2}, {"silence", "drop"}),
     Fresh({r1}, {"silence", "drop", "ping", "keepalive"}),
     Fresh({u1}, {"silence", "drop"}),
     Fresh({d1}, {"silence", "drop"})}

Everything == TwoRequests \cup Background \cup Streams \cup Unanswered

\* For liveness: requests that wait for one slot, that are cancelled, and a
\* client that is let go.
Endings ==
    {Fresh({r1, r2}, {"timeout", "silence"}),
     Fresh({r1, r2}, {"silence", "drop"}),
     Fresh({r1}, {"timeout", "silence", "eof", "fault", "close", "release"})}
=============================================================================
