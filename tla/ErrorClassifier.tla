--------------------------- MODULE ErrorClassifier ---------------------------
(***************************************************************************)
(* backend/app/core/error_classifier.py: what a failed call says about the *)
(* account.  An error is a status code (0 when the exception has none) and *)
(* the marks found in its text, one mark per list of markers in the code.  *)
(***************************************************************************)
EXTENDS Naturals, Sequences

Marks == {"hard_auth", "hard_quota", "quota_context", "exceeded", "negated", "rate", "429",
          "geo", "client", "configuration", "transient", "unauthorized", "forbidden"}
Errors == [code: Nat, marks: SUBSET Marks]

(* Variants named after a mistake are the module's own negative controls. *)
AnyQuotaWord(e) == {"hard_quota", "quota_context"} \cap e.marks # {}

(* A spent quota; "check quota" beside RESOURCE_EXHAUSTED is not one. *)
SaysQuota(e) ==
    /\ "negated" \notin e.marks
    /\ \/ "hard_quota" \in e.marks
       \/ {"quota_context", "exceeded"} \subseteq e.marks /\ "rate" \notin e.marks

(* The tests in the order of the code, the last one always succeeding. *)
Verdicts(e) ==
    LET has(ms) == ms \cap e.marks # {} IN
    << <<"AUTH",          has({"hard_auth"})>>,
       <<"QUOTA",         SaysQuota(e)>>,
       <<"RATE_LIMIT",    e.code = 429 \/ has({"rate", "429"})>>,
       <<"TRANSIENT",     has({"geo"})>>,
       <<"CLIENT",        e.code \in {400, 404, 405, 413, 415, 422} \/ has({"client"})>>,
       <<"CONFIGURATION", has({"configuration"})>>,
       <<"TRANSIENT",     e.code \in {408, 425, 500, 502, 503, 504} \/ has({"transient"})>>,
       <<"AUTH",          e.code = 401 \/ has({"unauthorized"})>>,
       <<"CLIENT",        e.code = 403 \/ has({"forbidden"})>>,
       <<"UNKNOWN",       TRUE>> >>

classify_upstream_error_kind(e) ==
    LET v == Verdicts(e)
        first == CHOOSE i \in DOMAIN v : v[i][2] /\ \A j \in 1..(i - 1) : ~v[j][2]
    IN v[first][1]

should_mutate_credential_status(kind)   == kind \in {"QUOTA", "RATE_LIMIT", "AUTH", "TRANSIENT"}
should_invalidate_session_binding(kind) == kind \in {"QUOTA", "RATE_LIMIT", "AUTH"}
==============================================================================
