-------------------------- MODULE MCN32cHandshake --------------------------
(***************************************************************************)
(* Instances of N32cHandshake for TLC: three SEPPs a, b and p.             *)
(***************************************************************************)
EXTENDS N32cHandshake, TLC

CONSTANTS a, b, p

All(x) == [n \in Node |-> x]

\* a and b are C-SEPPs with the P-SEPP p as their partner.
Star == [peer |-> (a :> p @@ b :> p @@ p :> NoNode),
         cap |-> All("PRINS"), register |-> All(TRUE)]

\* b is a C-SEPP towards a, which is a C-SEPP towards p.
Chain == [Star EXCEPT !.peer = (a :> p @@ b :> a @@ p :> NoNode)]

\* a and b are each other's partner, as both directions of roaming need it.
Mutual == [Star EXCEPT !.peer = (a :> b @@ b :> a @@ p :> NoNode)]

\* One end of each pair of Star is configured for TLS, the other for PRINS.
Mixed == [Star EXCEPT !.cap = (a :> "TLS" @@ b :> "PRINS" @@ p :> "TLS")]

\* p does not register with its NRF and has no handshake object.
Unregistered ==
    [Star EXCEPT !.register = (a :> TRUE @@ b :> TRUE @@ p :> FALSE)]

\* a and p may be started again, which covers both roles of a handshake.
OneRestart == (a :> 2 @@ b :> 1 @@ p :> 2)
NoRestart  == All(1)

AllDeployments == {Star, Chain, Mutual, Mixed, Unregistered}
ChainOnly      == {Chain}
=============================================================================
