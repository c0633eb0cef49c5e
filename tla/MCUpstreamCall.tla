---------------------------- MODULE MCUpstreamCall ----------------------------
(* Instance of UpstreamCall for TLC. *)
EXTENDS UpstreamCall, TLC

CONSTANTS c1, c2

MCCallers == {c1, c2}
Symmetry  == Permutations(MCCallers)

(* RESOURCE_EXHAUSTED "check quota", a daily quota, a spent quota, a rate; *)
(* location blocks, a bad request, a failing and an unreadable server, and *)
(* 401 and 403, a 403 that blocks a location or says a quota is spent.     *)
MCReplies ==
    {[code |-> r[1], marks |-> r[2]] :
        r \in {<<429, {"quota_context"}>>, <<429, {"hard_quota"}>>,
               <<429, {"quota_context", "exceeded"}>>,
               <<400, {"geo"}>>, <<400, {"geo", "client"}>>, <<400, {"client"}>>,
               <<503, {"transient"}>>, <<504, {}>>,
               <<401, {}>>, <<403, {}>>, <<403, {"geo"}>>,
               <<403, {"quota_context", "exceeded"}>>}}
==============================================================================
