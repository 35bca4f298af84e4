-------------------------- MODULE MCForwarderStartup --------------------------
(***************************************************************************)
(* Instances of ForwarderStartup for TLC.                                  *)
(***************************************************************************)
EXTENDS ForwarderStartup

SomeKinds == <<"multicast", "peer", "listener", "etherMulticast", "radio">>

Muas == <<1>>
MuasGroup == <<1, 2>>
Other == <<2>>

TheNames == {Muas, MuasGroup, Other}

\* Two prefixes below a configured route, one that has routes of its own.
ThePrefixes == [hello |-> MuasGroup, sync |-> Other, lsa |-> MuasGroup]

\* Two routes of one prefix, one of another, and one out of range.
SomeRoutes == <<[prefix |-> Muas, face |-> 1], [prefix |-> Muas, face |-> 2],
                [prefix |-> Other, face |-> 4], [prefix |-> Other, face |-> 9]>>

\* Without routing protocols; with both, each with a neighbour whose socket may not
\* be bound and one whose address does not parse.
Plain(t) ==
    [transport |-> t, entries |-> SomeKinds, routes |-> SomeRoutes, neighbours |-> <<>>]
Routing(t) ==
    [Plain(t) EXCEPT !.entries = <<"multicast", "peer">>,
                             !.neighbours = [nlsr |-> <<FALSE, TRUE>>, dv |-> <<TRUE>>]]

AllConfigs == {Plain(t) : t \in {"off", "udp", "both"}} \cup {Routing("udp")}
OffConfigs == {Plain("off")}
UdpConfigs == {Plain("udp")}
===============================================================================
