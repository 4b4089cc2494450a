---------------------------- MODULE MCConsentClient ----------------------------
(* Instances of ConsentClient for TLC.                                         *)
EXTENDS ConsentClient, TLC

CONSTANTS a, b, e

MCNotices   == {a, b, e}
MCMechanism == (a :> "opt_out") @@ (b :> "opt_out") @@ (e :> "notice_only")
MCGpc       == {a, b}

Given(n, v) == [Nothing EXCEPT ![n] = v]

\* The same region before and after a notice became applicable to it.
Narrow == [notices |-> {a, e}, nonApplicable |-> {b}]
Wide   == [notices |-> {a, b, e}, nonApplicable |-> {}]
BothOffers == {Narrow, Wide}
OneOffer   == {Wide}

MCStrings    == {Nothing, [Given(b, "in") EXCEPT ![e] = "out"]}
NoStrings    == {Nothing}
\* Another provider's consent, with and without a refusal of the notice-only e.
MCMigrations == {Nothing, Given(e, "out"), [Given(a, "out") EXCEPT ![e] = "out"]}
NoMigrations == {Nothing}
MCScripts    == {Given(a, "out"), Given(b, "in"), Given(e, "out")}
NoScripts    == {}

PageSymmetry == Permutations(Pages)
SlotSymmetry == Permutations(Slots)
================================================================================
