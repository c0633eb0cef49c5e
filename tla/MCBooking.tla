------------------------------ MODULE MCBooking ------------------------------
(* Instances of Booking for TLC: a credential with one slot, ranked first, *)
(* and one with two.                                                       *)
EXTENDS Booking, TLC

CONSTANTS c1, c2

MCCreds == {c1, c2}
MCRank  == (c1 :> 1) @@ (c2 :> 2)
MCLimit == (c1 :> 1) @@ (c2 :> 2)

RequestSymmetry == Permutations(Requests)
==============================================================================
