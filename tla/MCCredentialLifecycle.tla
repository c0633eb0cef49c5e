------------------------ MODULE MCCredentialLifecycle ------------------------
(* Instance of CredentialLifecycle for TLC. *)
EXTENDS CredentialLifecycle

(* Nothing known, one group spent, both spent, both left. *)
MCAnswers ==
    {[gemini |-> a[1], others |-> a[2]] :
        a \in {<<"unknown", "unknown">>, <<"zero", "some">>, <<"zero", "zero">>,
                <<"some", "some">>}}
==============================================================================
