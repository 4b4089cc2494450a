---------------------------- MODULE MCConsentOverlay ----------------------------
(* An instance of ConsentOverlay for TLC: two notices, one of which is not     *)
(* always applicable, and a script that accepts that one.                      *)
EXTENDS ConsentOverlay, TLC

CONSTANTS a, b

TwoNotices == {a, b}
MCMechanism == (a :> "opt_out") @@ (b :> "opt_out")
MCGpc == {a}

Narrow == [notices |-> {a}, nonApplicable |-> {b}]
Wide   == [notices |-> {a, b}, nonApplicable |-> {}]
BothOffers == {Narrow, Wide}

NoSources == {Nothing}
MCScripts == {[Nothing EXCEPT ![b] = "in"]}
==================================================================================
