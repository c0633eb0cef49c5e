------------------------------ MODULE MCMetering ------------------------------
(* Instance of Metering for TLC. *)
EXTENDS Metering

CONSTANTS r1, r2

MCRequests   == {r1, r2}
MCConfigured == {{"rpm"}, {"month"}, {"rpm", "month"}, {"quota"}}
==============================================================================
