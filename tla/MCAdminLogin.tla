----------------------------- MODULE MCAdminLogin -----------------------------
(* Instance of AdminLogin for TLC. *)
EXTENDS AdminLogin

CONSTANTS c1, c2, f1, f2, admin, other

MCCallers == {c1, c2}
MCFlows   == {f1, f2}
MCEmails  == {admin, other}
MCAllowed == {other}
==============================================================================
