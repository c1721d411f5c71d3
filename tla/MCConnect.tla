------------------------------ MODULE MCConnect -------------------------------
(***************************************************************************)
(* Instances of Connect and Authenticate for TLC.                          *)
(***************************************************************************)
EXTENDS Authenticate

\* A node that suits the client, one that lacks a feature, an older one, one
\* that refuses, one with another frame size, one with another success code.
Full == [code |-> 200, major |-> 1, features |-> {1, 2, 3}, frame |-> 9]
AllOffers == {Full,
              [Full EXCEPT !.features = {1, 3}],
              [Full EXCEPT !.major = 0],
              [Full EXCEPT !.code = 400],
              [Full EXCEPT !.frame = 8],
              [Full EXCEPT !.code = 201]}
TwoOffers == {Full, [Full EXCEPT !.features = {1, 3}]}
Required == {1, 2}

Doing(name, id) == [do |-> name, who |-> id]

Config(pins, endpoints, mode, offers, damages) ==
  [pins |-> pins, endpoints |-> endpoints, mode |-> mode, offers |-> offers, faults |-> damages,
   calls |-> <<Doing("connect", "anonymous")>>, overlap |-> FALSE]

\* Rotated pins, one of them undecodable, over two chains of endpoints.
Keys == {Config(<<2, BadPin, 3>>, l, "client", AllOffers, 1) :
           l \in {<<"routed", "m5oh">>, <<"bad", "raw">>}}

\* Every transport mode, over lists in different orders.
Policies == {Config(<<ZeroPoint, 2>>, l, m, TwoOffers, 0) :
               l \in {<<"routed", "m5oh">>, <<"m5oh", "raw">>, <<"raw", "m5oh", "bad">>, <<"raw">>},
               m \in {"auto", "mst5", "m5oh"}}

\* The browser.
Web == {Config(<<2>>, <<"browser">>, "client", AllOffers, 2)}

\* One endpoint, whose node may lack the feature of media or of voice streams.
Plain == Config(<<2>>, <<"raw">>, "client",
                {[Full EXCEPT !.features = {1, 2} \union f] : f \in SUBSET {3, 4}}, 0)

\* Every entry that presents a credential.
Credentials == {[Plain EXCEPT !.calls = <<Doing(e, "ticket")>>] :
                  e \in {"token", "media", "voice", "internal"}}

\* Two calls on a Client that is not, or is already, authenticated; one after
\* the other, or at once.
Acts == {Doing("authenticate", "bob"), Doing("login", "ann"), Doing("query", "ann")}
OnClient == {[Plain EXCEPT !.calls = <<e, a, b>>, !.overlap = o, !.offers = {Full}] :
               e \in {Doing("connect", "anonymous"), Doing("token", "ann")},
               a \in Acts, b \in Acts, o \in BOOLEAN}

People == {"anonymous", "ann", "bob", "ticket"}

All == Keys \union Policies \union Web \union Credentials \union OnClient
===============================================================================
