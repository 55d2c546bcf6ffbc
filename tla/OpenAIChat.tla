----------------------------- MODULE OpenAIChat -----------------------------
(***************************************************************************)
(* The OpenAI Chat Completions protocol, on both sides of the IR: what the *)
(* gateway makes of a client's request and of an IR response, and what the *)
(* adapter makes of an IR request and of the provider's reply.             *)
(*                                                                         *)
(* A message has a content of text and image parts, tool calls beside it,  *)
(* and, if its role is tool, the ID of the call it answers and the outcome *)
(* its text tells.                                                         *)
(***************************************************************************)
EXTENDS IR

ChatMessage(role, content, calls) ==
    [role |-> role, content |-> content, calls |-> calls]
ToolMessage(callID, outcome) ==
    [role |-> "tool", content |-> <<Text>>, calls |-> << >>, callID |-> callID,
     outcome |-> outcome]

Call(id, name, arguments) == [id |-> id, name |-> name, arguments |-> arguments]

-----------------------------------------------------------------------------
(* The gateway. *)
parseContent(message) ==
    \A part \in ToSet(message.content) : part.type = "image" => message.role = "user"

parseToolChoice(choice, tools) ==
    CASE choice.mode = "-" -> Accepted(NoToolChoice)
      [] choice.mode = "none" ->
            Accepted(IF tools = << >> THEN NoToolChoice ELSE ToolChoice("none", NoName))
      [] choice.mode \in {"auto", "required"} ->
            AcceptIf(tools # << >>, ToolChoice(choice.mode, NoName))
      [] choice.mode = "function" ->
            AcceptIf(tools # << >> /\ Named(tools, choice.name),
                     ToolChoice("named", choice.name))
      [] OTHER -> Refused

\* Mutant of WithParallel: without a choice, parallel calls stay allowed.
WithParallelIfChosen(choice, request) ==
    IF request.parallel \/ choice = NoToolChoice THEN choice
    ELSE [choice EXCEPT !.disableParallel = TRUE]

\* parallel_tool_calls = false is part of the choice in the IR.
WithParallel(choice, request) ==
    IF request.parallel \/ request.tools = << >> THEN choice
    ELSE [choice EXCEPT !.mode = IF @ = "-" THEN "auto" ELSE @, !.disableParallel = TRUE]

\* The calls of the messages before the i-th: toolCallNames.
CallsBefore(messages, i) == UNION {ToSet(messages[j].calls) : j \in 1..(i - 1)}

MessageAccepted(messages, i) ==
    LET message == messages[i]
    IN  /\ message.role \in {"developer", "system", "user", "assistant", "tool"}
        /\ message.role # "assistant" => message.calls = << >>
        /\ parseContent(message)
        /\ \A call \in ToSet(message.calls) :
              call.id # NoID /\ call.name # NoName /\ isJSONObject(call.arguments)
        /\ message.role = "tool" =>
              message.callID # NoID /\ Known(CallsBefore(messages, i), message.callID)
        /\ message.content # << >> \/ message.calls # << >>

MessageToIR(messages, i) ==
    LET message == messages[i]
        role == IF message.role = "developer" THEN "system" ELSE message.role
    IN  IF role = "tool"
        THEN LET name == NameOf(CallsBefore(messages, i), message.callID)
             IN  Message("tool",
                         <<ToolResult(message.callID, name, "text", message.outcome, FALSE)>>)
        ELSE Message(role,
                     message.content \o
                     [k \in DOMAIN message.calls |->
                         ToolCall(message.calls[k].id, message.calls[k].name,
                                  message.calls[k].arguments, NoSignature)])

ToIR(request, requestID, model) ==
    LET messages == request.messages
        choice == parseToolChoice(request.choice, request.tools)
        result == [id |-> requestID, model |-> model,
                   messages |-> [i \in DOMAIN messages |-> MessageToIR(messages, i)],
                   max |-> request.max, stop |-> request.stop, tools |-> request.tools,
                   choice |-> WithParallel(choice.value, request)]
    IN  AcceptIf(/\ ~request.extras
                 /\ messages # << >>
                 /\ \A i \in DOMAIN messages : MessageAccepted(messages, i)
                 /\ choice.ok
                 /\ RequestValid(result),
                 result)

\* What was filtered is shown as a refusal, in place of the content.
FromIR(response) ==
    LET texts == OfType(response.content, "text")
        calls == OfType(response.content, "tool_call")
        filtered == response.finish = "content_filter" /\ texts # << >>
    IN  AcceptIf(OfType(response.content, "image") = << >>,
                 [choices |-> 1,
                  content |-> (texts # << >> \/ calls = << >>) /\ ~filtered,
                  refusal |-> filtered,
                  calls |-> [k \in DOMAIN calls |->
                                Call(calls[k].id, calls[k].name, calls[k].arguments)],
                  finish |-> response.finish,
                  usage |-> [prompt |-> response.usage.input,
                             completion |-> response.usage.output,
                             cached |-> response.usage.cached]])

-----------------------------------------------------------------------------
(* The adapter. *)
ordinaryMessage(message) ==
    LET calls == OfType(message.content, "tool_call")
    IN  ChatMessage(message.role, BesideCalls(message.content),
                    [k \in DOMAIN calls |->
                        Call(calls[k].id, calls[k].name, calls[k].arguments)])

\* One message per result; an object is sent as its text, isError is not sent.
toolMessages(message) ==
    [k \in DOMAIN message.content |->
        ToolMessage(message.content[k].id, message.content[k].outcome)]

ToChatRequest(request) ==
    LET Translated(m) == IF m.role = "tool" THEN toolMessages(m) ELSE <<ordinaryMessage(m)>>
        choice == request.choice
    IN  AcceptIf(/\ RequestValid(request)
                 /\ \A part \in ToSet(Contents(request.messages)) :
                       part.type = "tool_result" => part.form # "image",
                 [messages |-> FlattenSeq([i \in DOMAIN request.messages |->
                                              Translated(request.messages[i])]),
                  max |-> request.max, stop |-> request.stop, tools |-> request.tools,
                  choice |-> IF choice.mode = "named"
                             THEN [mode |-> "function", name |-> choice.name]
                             ELSE [mode |-> choice.mode, name |-> NoName],
                  parallel |-> ~choice.disableParallel])

FinishOf(reason) ==
    CASE reason \in {"stop", "-"} -> "stop"
      [] reason = "length" -> "length"
      [] reason \in {"tool_calls", "function_call"} -> "tool_calls"
      [] reason = "content_filter" -> "content_filter"
      [] OTHER -> "-"

FromChatResponse(response, request) ==
    LET result ==
            Response(request.model,
                     (IF response.content \/ response.refusal THEN <<Text>> ELSE << >>)
                     \o [k \in DOMAIN response.calls |->
                           ToolCall(response.calls[k].id, response.calls[k].name,
                                    response.calls[k].arguments, NoSignature)],
                     IF response.refusal THEN "content_filter" ELSE FinishOf(response.finish),
                     Usage(response.usage.prompt, response.usage.completion, 0,
                           response.usage.cached))
    IN  AcceptIf(/\ response.choices = 1
                 /\ FinishOf(response.finish) # "-"
                 /\ ~(response.content /\ response.refusal)
                 /\ ResponseValid(result),
                 result)

-----------------------------------------------------------------------------
(***************************************************************************)
(* The client: its request, and what it adds to its history when it has an *)
(* answer, the outcomes of the calls in any order.                         *)
(***************************************************************************)
Spelled(wants) ==
    IF wants.mode = "named" THEN [mode |-> "function", name |-> wants.name]
    ELSE [mode |-> wants.mode, name |-> NoName]

Opening(parts) == <<ChatMessage("user", parts, << >>)>>

Ask(wants, history) ==
    [messages |-> <<ChatMessage("developer", <<Text>>, << >>)>> \o history,
     tools |-> wants.tools, choice |-> Spelled(wants), parallel |-> wants.parallel,
     max |-> wants.max, stop |-> wants.stop, extras |-> wants.extras]

Echo(answer) ==
    <<ChatMessage("assistant", IF answer.content THEN <<Text>> ELSE << >>, answer.calls)>>

Results(answer, order) ==
    [k \in DOMAIN order |->
        ToolMessage(answer.calls[order[k]].id, answer.calls[order[k]].arguments)]

(***************************************************************************)
(* How a reply reads, for a client or for the gateway.                     *)
(***************************************************************************)
Read(answer) ==
    [calls |-> answer.calls,
     ended |-> IF answer.finish = "length" THEN "limit"
               ELSE IF answer.refusal \/ answer.finish = "content_filter" THEN "filter"
               ELSE "complete",
     usage |-> [input |-> answer.usage.prompt, output |-> answer.usage.completion,
                cached |-> answer.usage.cached]]

(***************************************************************************)
(* The provider: how it reads a request, and its replies to the n-th.      *)
(***************************************************************************)
Seen(sent) ==
    LET PartsOf(m) ==
            IF m.role = "tool"
            THEN <<[type |-> "result", id |-> m.callID, name |-> NoName,
                    outcome |-> m.outcome, isError |-> FALSE]>>
            ELSE [k \in DOMAIN m.calls |->
                    [type |-> "call", id |-> m.calls[k].id, name |-> m.calls[k].name,
                     arguments |-> m.calls[k].arguments, signature |-> NoSignature]]
    IN  [parts |-> FlattenSeq([i \in DOMAIN sent.messages |-> PartsOf(sent.messages[i])]),
         system |-> sent.messages[1].role = "system",
         images |-> OfType(FlattenSeq([i \in DOMAIN sent.messages |->
                                          sent.messages[i].content]), "image"),
         tools |-> sent.tools,
         mode |-> IF sent.choice.mode = "function" THEN "named" ELSE sent.choice.mode,
         name |-> sent.choice.name, parallel |-> sent.parallel, max |-> sent.max,
         stop |-> sent.stop]

Reply(content, calls, finish, cached) ==
    [choices |-> 1, content |-> content, refusal |-> FALSE, calls |-> calls,
     finish |-> finish, usage |-> [prompt |-> 5, completion |-> 2, cached |-> cached]]

UpCall(n, k, name) == Call(<<"up", n, k, 0>>, name, <<n, k>>)

Talk == Reply(TRUE, << >>, "stop", 3)
ToolReplies(n) ==
    {Reply(TRUE, <<UpCall(n, 1, "f"), UpCall(n, 2, "f")>>, "tool_calls", 0),
     Reply(FALSE, <<UpCall(n, 1, "g")>>, "tool_calls", 0)}
OddReplies(n) ==
    {Reply(TRUE, << >>, "length", 0),
     Reply(FALSE, <<UpCall(n, 1, "f")>>, "length", 0),
     Reply(TRUE, << >>, "content_filter", 0),
     Reply(TRUE, << >>, "other", 0),
     Reply(TRUE, << >>, "stop", 6),
     Reply(FALSE, <<Call(<<"up", n, 1, 0>>, "f", NoObject)>>, "tool_calls", 0),
     [Talk EXCEPT !.choices = 0],
     [Talk EXCEPT !.refusal = TRUE],
     [Talk EXCEPT !.refusal = TRUE, !.content = FALSE]}
=============================================================================
