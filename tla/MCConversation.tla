---------------------------- MODULE MCConversation ----------------------------
(* Instance of Conversation for TLC. *)
EXTENDS Conversation

(* Text, reasoning, one call or another, two at once, and a bare event. *)
MCChunks ==
    {[text |-> c[1], thought |-> c[2], calls |-> c[3], signed |-> c[4]] :
        c \in {<<TRUE, FALSE, <<>>, FALSE>>, <<FALSE, TRUE, <<>>, FALSE>>,
               <<FALSE, FALSE, <<"f">>, FALSE>>, <<FALSE, FALSE, <<"g">>, TRUE>>,
               <<TRUE, FALSE, <<"f", "g">>, TRUE>>, <<FALSE, FALSE, <<"f", "f">>, FALSE>>,
               <<FALSE, FALSE, <<>>, FALSE>>}}
==============================================================================
