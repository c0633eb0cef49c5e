-------------------------- MODULE MCSessionAffinity --------------------------
(* Instances of SessionAffinity for TLC.  c1 and c2 are of one provider,   *)
(* c3 of another; the last two also serve the name that "asked" maps to.   *)
EXTENDS SessionAffinity, TLC

CONSTANTS c1, c2, c3

MCCreds     == {c1, c2, c3}
MCRank      == (c1 :> 1) @@ (c2 :> 2) @@ (c3 :> 3)
MCNamespace == (c1 :> 1) @@ (c2 :> 1) @@ (c3 :> 2)
MCLimit     == (c1 :> 1) @@ (c2 :> 2) @@ (c3 :> NoLimit)
MCModels    == {"asked", "mapped"}
MCMapName   == [m \in MCModels |-> "mapped"]
MCServes    == ("asked" :> {c1, c2, c3}) @@ ("mapped" :> {c2, c3})
MCAsks      == [r \in Requests |-> "asked"]

RequestSymmetry == Permutations(Requests)
==============================================================================
