----------------------------- MODULE Conversation -----------------------------
(***************************************************************************)
(* One client's conversation with an Antigravity account: how the gateway  *)
(* finds its session again, what it makes of the client's messages for     *)
(* Google and of Google's chunks for the client.                           *)
(*                                                                         *)
(*   backend/app/routing/conversation_tip.py   tips, the stream's message  *)
(*   backend/app/api/routers/v1/chat.py        resolve and remember        *)
(*   backend/app/services/usage_service.py     the end of a stream         *)
(*   backend/app/providers/antigravity.py      contents, chunks, the fold  *)
(*                                                                         *)
(* A hash of a message list is the list itself.  Arguments of a function   *)
(* call are the sequence of the calls whose JSON is in them: one is        *)
(* readable, two in a row are not.  The client is external: it appends the *)
(* answer to its list, as the OpenAI protocol describes it, and then the   *)
(* results of all calls or a message of the user.                          *)
(***************************************************************************)
EXTENDS Naturals, Sequences, SequencesExt

CONSTANTS
    None,       \* no session, no name, no call
    Chunks,     \* what one event of Google's stream may carry
    MaxAnswers, \* bound: requests that are answered; one more may follow
    MaxChunks   \* bound: events in one answer

(* Function calls by name, all with or all without a thought signature. *)
ChunkType == [text: BOOLEAN, thought: BOOLEAN, calls: Seq(STRING), signed: BOOLEAN]
ASSUME ChunksAssumption == Chunks \subseteq ChunkType
ASSUME BoundsAssumption == MaxAnswers \in Nat /\ MaxChunks \in Nat

VARIABLES
    hist,       \* the client's messages
    stream,     \* the client asks for streams
    exact,      \* the client echoes every field of an answer
    tips,       \* the tips in Redis: message list -> session
    sigs,       \* the calls whose thought_signature is in Redis
    pc,         \* "client", "answer"
    session,    \* the session of the last request
    answer,     \* the message being put together from the stream
    got,        \* history: calls of this answer as Google sent them
    split,      \* history: calls came in more than one event
    done,       \* history: the messages of the last completed turn
    signed,     \* history: calls that came with a signature
    answers,    \* history: how many requests were made
    events,     \* history: how many events this answer has
    expired     \* history: something in Redis has expired

convVars == <<hist, pc, session, done, answers>>
vars == <<hist, stream, exact, tips, sigs, pc, session, answer, got, split, done, signed,
          answers, events, expired>>

(* extra: fields that a client may drop: the reasoning and, without a      *)
(* stream, those a message object has although they are null.              *)
Message(role, text, calls, ref, name) ==
    [role |-> role, text |-> text, extra |-> FALSE, calls |-> calls, ref |-> ref, name |-> name]

Empty      == Message("assistant", FALSE, <<>>, None, None)
UserSays   == Message("user", TRUE, <<>>, None, None)
Result(call, name) == Message("tool", TRUE, <<>>, call.id, name)

Init ==
    /\ hist \in {<<UserSays>>, <<Message("system", TRUE, <<>>, None, None), UserSays>>}
    /\ stream \in BOOLEAN
    /\ exact \in BOOLEAN
    /\ tips = [h \in {} |-> None]
    /\ sigs = {}
    /\ pc = "client"
    /\ session = None
    /\ answer = Empty
    /\ got = <<>>
    /\ split = FALSE
    /\ done = <<>>
    /\ signed = {}
    /\ answers = 0
    /\ events = 0
    /\ expired = FALSE

------------------------------------------------------------------------------
(* Tips *)

(* Variants named after a mistake are the module's own negative controls. *)
CurrentOnly(h) == IF h \in DOMAIN tips THEN tips[h] ELSE h

(* resolve_session_id_from_tips: the parent's, or this list's, for retries; *)
(* else synthetic_tip_session_id.                                           *)
Resolve(h) ==
    IF Len(h) >= 2 /\ Front(h) \in DOMAIN tips THEN tips[Front(h)]
    ELSE IF h \in DOMAIN tips THEN tips[h]
    ELSE h

remember_tip(h, s) == tips' = [t \in DOMAIN tips \cup {h} |-> IF t = h THEN s ELSE tips[t]]

(* A request that gets an account; it is retried on others with the same   *)
(* session.  One that gets none remembers nothing and changes nothing.     *)
Send ==
    /\ pc = "client"
    /\ answers <= MaxAnswers
    /\ Last(hist).role \in {"user", "tool"}
    /\ session' = Resolve(hist)
    /\ remember_tip(hist, session')
    /\ pc' = "answer"
    /\ answers' = answers + 1
    /\ answer' = [Empty EXCEPT !.extra = ~stream]
    /\ got' = <<>>
    /\ split' = FALSE
    /\ events' = 0
    /\ UNCHANGED <<hist, stream, exact, sigs, done, signed, expired>>

------------------------------------------------------------------------------
(* Messages to contents *)

Parsed(args) == IF Len(args) = 1 THEN args ELSE <<>>

(* The signature in the client's message, or else the one in Redis. *)
CallPart(call) ==
    [kind |-> "call", name |-> call.name, args |-> Parsed(call.args), id |-> call.id,
     sig  |-> call.sig \/ call.id \in sigs]

TextPart == [kind |-> "text", name |-> None, args |-> <<>>, id |-> None, sig |-> FALSE]

Calling(h) == {i \in DOMAIN h : h[i].calls # <<>>}
LastOf(S)  == CHOOSE i \in S : \A j \in S : j <= i

FirstNameOnly(h, msg) ==
    IF msg.name # None THEN msg.name
    ELSE IF Calling(h) # {} THEN h[LastOf(Calling(h))].calls[1].name ELSE "unknown_tool"

(* The call with an id, in the latest message that has it. *)
Carrying(h, id) == {i \in DOMAIN h : \E k \in DOMAIN h[i].calls : h[i].calls[k].id = id}
CallWith(h, id) ==
    LET calls == h[LastOf(Carrying(h, id))].calls
    IN  calls[CHOOSE k \in DOMAIN calls : calls[k].id = id]

(* A result without a name: that of the call with its id, or else of the   *)
(* first call of the latest message with calls.                            *)
ToolName(h, msg) ==
    CASE msg.name # None -> msg.name
      [] msg.name = None /\ Carrying(h, msg.ref) # {} -> CallWith(h, msg.ref).name
      [] msg.name = None /\ Carrying(h, msg.ref) = {} ->
            IF Calling(h) # {} THEN h[LastOf(Calling(h))].calls[1].name ELSE "unknown_tool"

ResponsePart(h, msg) ==
    [kind |-> "response", name |-> ToolName(h, msg), args |-> <<>>, id |-> msg.ref, sig |-> FALSE]

Content(role, parts) == IF parts = <<>> THEN <<>> ELSE <<[role |-> role, parts |-> parts]>>

HasResponses(c) == c.role = "user" /\ \E k \in DOMAIN c.parts : c.parts[k].kind = "response"

(* Calls before text; results one after the other share a content; system  *)
(* messages go elsewhere; what has no part is left out.                    *)
AddMessage(h, contents, msg) ==
    CASE msg.role = "system" -> contents
      [] msg.role = "user" -> contents \o Content("user", IF msg.text THEN <<TextPart>> ELSE <<>>)
      [] msg.role = "assistant" ->
            contents \o Content("model", [k \in DOMAIN msg.calls |-> CallPart(msg.calls[k])]
                                         \o (IF msg.text THEN <<TextPart>> ELSE <<>>))
      [] msg.role = "tool" ->
            IF contents # <<>> /\ HasResponses(Last(contents))
            THEN Front(contents) \o
                 Content("user", Append(Last(contents).parts, ResponsePart(h, msg)))
            ELSE contents \o Content("user", <<ResponsePart(h, msg)>>)

(* The contents of the first messages, for each number of them. *)
ContentsUpTo(h) ==
    LET upTo[n \in 0..Len(h)] == IF n = 0 THEN <<>> ELSE AddMessage(h, upTo[n - 1], h[n])
    IN  upTo

Contents(h) == ContentsUpTo(h)[Len(h)]

------------------------------------------------------------------------------
(* Chunks to a message *)

(* The calls of an event, numbered after the first n of this answer. *)
CallsFrom(n, chunk) ==
    [k \in DOMAIN chunk.calls |->
        LET id == <<answers, n + k>>
        IN  [id |-> id, name |-> chunk.calls[k], args |-> <<id>>, sig |-> chunk.signed]]

(* An event that brings calls of this answer once more, under their ids. *)
Repeats(chunk) ==
    /\ chunk.calls # <<>> /\ Len(chunk.calls) <= Len(got)
    /\ \A k \in DOMAIN chunk.calls : chunk.calls[k] = got[k].name

(* accumulate_stream_delta and _merge_tool_call: by the index, which the   *)
(* provider counts from 0 in every event; the arguments are joined and the *)
(* signature is not taken along.                                           *)
MergeStreamed(calls, new) ==
    [i \in 1..(IF Len(new) > Len(calls) THEN Len(new) ELSE Len(calls)) |->
        IF i > Len(new) THEN calls[i]
        ELSE [new[i] EXCEPT
                !.sig = FALSE,
                !.args = (IF i > Len(calls) THEN <<>> ELSE calls[i].args) \o @]]

MergeByName(calls, new) ==
    FoldLeft(LAMBDA acc, c : IF \E k \in DOMAIN acc : acc[k].name = c.name THEN acc ELSE Append(acc, c),
             calls, new)

MergeAll(calls, new) == calls \o new

(* Without a stream: calls with a new id are added, signature and all. *)
AddCall(calls, c) == IF \E k \in DOMAIN calls : calls[k].id = c.id THEN calls ELSE Append(calls, c)

MergedUpTo(calls, new) ==
    LET upTo[n \in 0..Len(new)] == IF n = 0 THEN calls ELSE AddCall(upTo[n - 1], new[n])
    IN  upTo

MergeWhole(calls, new) == MergedUpTo(calls, new)[Len(new)]

SaveFirst(new)  == {new[k].id : k \in {j \in DOMAIN new : j = 1 /\ new[j].sig}}
Signatures(new) == {new[k].id : k \in {j \in DOMAIN new : new[j].sig}}

Event(chunk) == \E again \in {FALSE, Repeats(chunk)} :
    /\ pc = "answer"
    /\ events < MaxChunks /\ answers <= MaxAnswers
    /\ LET new == CallsFrom(IF again THEN 0 ELSE Len(got), chunk) IN
          /\ answer' = [answer EXCEPT
                !.text  = @ \/ chunk.text,
                !.extra = @ \/ chunk.thought,
                !.calls = IF stream THEN MergeStreamed(@, new) ELSE MergeWhole(@, new)]
          /\ sigs' = sigs \cup Signatures(new)
          /\ signed' = signed \cup {new[k].id : k \in {j \in DOMAIN new : chunk.signed}}
          /\ got' = IF again THEN got ELSE got \o new
          /\ split' = (split \/ (got # <<>> /\ new # <<>>))
    /\ events' = events + 1
    /\ UNCHANGED <<convVars, stream, exact, tips, expired>>

(* What the client appends; a plain one keeps text and calls. *)
Echo(msg) ==
    IF exact THEN msg
    ELSE [msg EXCEPT !.extra = FALSE,
                     !.calls = [k \in DOMAIN @ |-> [@[k] EXCEPT !.sig = FALSE]]]

(* The tip of the completed turn is remembered. *)
Finish ==
    /\ pc = "answer"
    /\ stream => events > 0
    /\ remember_tip(Append(hist, answer), session)
    /\ hist' = Append(hist, Echo(answer))
    /\ done' = hist'
    /\ pc' = "client"
    /\ UNCHANGED <<stream, exact, sigs, session, answer, got, split, signed, answers, events, expired>>

(* The client leaves in the middle of a stream: no error, and a tip. *)
Disconnect ==
    /\ pc = "answer" /\ stream
    /\ events > 0
    /\ remember_tip(Append(hist, answer), session)
    /\ pc' = "client"
    /\ UNCHANGED <<hist, stream, exact, sigs, session, answer, got, split, done, signed, answers,
                   events, expired>>

(* An error instead of an answer, or in the middle of one. *)
Fail ==
    /\ pc = "answer"
    /\ pc' = "client"
    /\ UNCHANGED <<hist, stream, exact, tips, sigs, session, answer, got, split, done, signed,
                   answers, events, expired>>

------------------------------------------------------------------------------
(* The client, and time *)

UserSpeaks ==
    /\ pc = "client"
    /\ Last(hist).role = "assistant" /\ Last(hist).calls = <<>>
    /\ hist' = Append(hist, UserSays)
    /\ UNCHANGED <<stream, exact, tips, sigs, pc, session, answer, got, split, done, signed,
                   answers, events, expired>>

(* One result per call, some clients naming the function. *)
Results == \E named \in BOOLEAN :
    /\ pc = "client"
    /\ Last(hist).role = "assistant" /\ Last(hist).calls # <<>>
    /\ LET calls == Last(hist).calls IN
       hist' = hist \o [k \in DOMAIN calls |-> Result(calls[k], IF named THEN calls[k].name ELSE None)]
    /\ UNCHANGED <<stream, exact, tips, sigs, pc, session, answer, got, split, done, signed,
                   answers, events, expired>>

(* A TTL passes, or Redis fails: remember_tip only logs that. *)
Expire ==
    /\ expired' = TRUE
    /\ tips' = [t \in {} |-> None]
    /\ sigs' = {}
    /\ UNCHANGED <<hist, stream, exact, pc, session, answer, got, split, done, signed, answers, events>>

Next ==
    \/ Send \/ (\E chunk \in Chunks : Event(chunk)) \/ Finish \/ Disconnect \/ Fail
    \/ UserSpeaks \/ Results \/ Expire

Spec == Init /\ [][Next]_vars

------------------------------------------------------------------------------
(* Properties *)

Ids      == Nat \X Nat
CallType == [id: Ids, name: STRING, args: Seq(Ids), sig: BOOLEAN]

(* Messages are well formed, and no two calls of a message share an id. *)
TypeOK ==
    /\ pc \in {"client", "answer"}
    /\ \A i \in DOMAIN hist :
          /\ hist[i].role \in {"system", "user", "assistant", "tool"}
          /\ \A k \in DOMAIN hist[i].calls : hist[i].calls[k] \in CallType
          /\ \A j, k \in DOMAIN hist[i].calls :
                hist[i].calls[j].id = hist[i].calls[k].id => j = k
    /\ sigs \subseteq signed

(* A completed turn and one more message stay in the session of the turn,  *)
(* and with it on its account, as long as the tips live and the client     *)
(* sends the answer back as it was.                                        *)
SessionKept ==
    [][pc = "client" /\ pc' = "answer" /\ ~expired /\ done # <<>> /\ Front(hist) = done
           /\ (exact \/ ~answer.extra) =>
       session' = session]_vars

(* Every function response that goes to Google comes directly after the    *)
(* function calls, and has the id and the name of one of them.             *)
ResponsesMatch == pc = "answer" =>
    LET cs == Contents(hist) IN
    \A i \in DOMAIN cs : HasResponses(cs[i]) =>
        /\ i > 1 /\ cs[i - 1].role = "model"
        /\ \A k \in DOMAIN cs[i].parts : \E m \in DOMAIN cs[i - 1].parts :
              LET call == cs[i - 1].parts[m] response == cs[i].parts[k] IN
              call.kind = "call" /\ call.id = response.id /\ call.name = response.name

(* A call that Google signed goes back to Google with its signature, even  *)
(* when the client drops it.                                               *)
SignatureSurvives == pc = "answer" /\ ~expired =>
    LET cs == Contents(hist) IN
    \A i \in DOMAIN cs : \A k \in DOMAIN cs[i].parts :
        cs[i].parts[k].id \in signed /\ cs[i].parts[k].kind = "call" => cs[i].parts[k].sig

(* No call of an answer is lost or garbled on its way through the client   *)
(* back to Google, unless a stream brings calls in more than one event.    *)
CallsSurvive ==
    pc = "client" /\ Last(hist).role = "assistant" /\ hist = done /\ ~(stream /\ split) =>
        LET cs == Contents(hist)
            parts == IF cs = <<>> \/ Last(cs).role # "model" THEN <<>> ELSE Last(cs).parts IN
        /\ Len(parts) >= Len(got)
        /\ \A k \in DOMAIN parts : parts[k].kind = "call" <=> k <= Len(got)
        /\ \A k \in DOMAIN got : /\ parts[k].name = got[k].name
                                 /\ parts[k].args = got[k].args
                                 /\ parts[k].id = got[k].id
==============================================================================
