--------------------------- MODULE OpenAIResponses ---------------------------
(***************************************************************************)
(* The OpenAI Responses protocol, on both sides of the IR.                 *)
(*                                                                         *)
(* Input and output are sequences of items: messages, function calls, and  *)
(* function outputs.  A call is an item of its own, so the IR sees each of *)
(* a client's parallel calls as a message of its own.  An output is given  *)
(* as a string, which is json if it holds an object, or as image parts.    *)
(***************************************************************************)
EXTENDS IR

CONSTANT MaxOutputTokens    \* configuration of the adapter

MinOutputTokens == 16

MessageItem(role, content) == [type |-> "message", role |-> role, content |-> content]
CallItem(id, name, arguments) ==
    [type |-> "function_call", id |-> id, name |-> name, arguments |-> arguments]
OutputItem(id, form, outcome) ==
    [type |-> "function_call_output", id |-> id, form |-> form, outcome |-> outcome]

-----------------------------------------------------------------------------
(* The gateway. *)
parseInputContent(item) ==
    /\ item.content # << >>
    /\ \A part \in ToSet(item.content) :
          CASE part.type = "text" -> TRUE
            [] part.type = "output_text" -> item.role = "assistant"
            [] part.type = "image" -> item.role = "user"
            [] OTHER -> FALSE

\* A string that holds an object becomes an object.
parseToolResult(item, name) ==
    ToolResult(item.id, name, IF item.form = "json" THEN "object" ELSE item.form,
               item.outcome, FALSE)

parseToolChoice(choice, tools) ==
    CASE choice.mode = "-" -> Accepted(NoToolChoice)
      [] choice.mode = "none" ->
            Accepted(IF tools = << >> THEN NoToolChoice ELSE ToolChoice("none", NoName))
      [] choice.mode \in {"auto", "required"} ->
            AcceptIf(tools # << >>, ToolChoice(choice.mode, NoName))
      [] choice.mode = "function" ->
            AcceptIf(Named(tools, choice.name), ToolChoice("named", choice.name))
      [] OTHER -> Refused

WithParallel(choice, request) ==
    IF request.parallel \/ request.tools = << >> THEN choice
    ELSE [choice EXCEPT !.mode = IF @ = "-" THEN "auto" ELSE @, !.disableParallel = TRUE]

CallsBefore(items, i) ==
    {call \in ToSet(SubSeq(items, 1, i - 1)) : call.type = "function_call"}

ItemAccepted(items, i) ==
    LET item == items[i]
    IN  CASE item.type = "message" ->
                /\ item.role \in {"developer", "system", "user", "assistant"}
                /\ parseInputContent(item)
          [] item.type = "function_call" ->
                /\ item.id # NoID /\ item.name # NoName /\ isJSONObject(item.arguments)
                /\ ~Known(CallsBefore(items, i), item.id)
          [] item.type = "function_call_output" ->
                item.id # NoID /\ Known(CallsBefore(items, i), item.id)
          [] OTHER -> FALSE

ItemToIR(items, i) ==
    LET item == items[i]
    IN  CASE item.type = "message" ->
                Message(IF item.role = "developer" THEN "system" ELSE item.role,
                        [k \in DOMAIN item.content |->
                            IF item.content[k].type = "output_text" THEN Text
                            ELSE item.content[k]])
          [] item.type = "function_call" ->
                Message("assistant",
                        <<ToolCall(item.id, item.name, item.arguments, NoSignature)>>)
          [] item.type = "function_call_output" ->
                Message("tool",
                        <<parseToolResult(item, NameOf(CallsBefore(items, i), item.id))>>)

ToIR(request, requestID, model) ==
    LET items == request.input
        choice == parseToolChoice(request.choice, request.tools)
        result == [id |-> requestID, model |-> model,
                   messages |-> (IF request.instructions
                                 THEN <<Message("system", <<Text>>)>> ELSE << >>)
                                \o [i \in DOMAIN items |-> ItemToIR(items, i)],
                   max |-> request.max, stop |-> FALSE, tools |-> request.tools,
                   choice |-> WithParallel(choice.value, request)]
    IN  AcceptIf(/\ ~request.extras
                 /\ \A n \in request.max : n >= MinOutputTokens
                 /\ items # << >>
                 /\ \A i \in DOMAIN items : ItemAccepted(items, i)
                 /\ choice.ok
                 /\ RequestValid(result),
                 result)

\* All text in one message item, before the calls.
FromIR(response) ==
    LET texts == OfType(response.content, "text")
        calls == OfType(response.content, "tool_call")
    IN  AcceptIf(/\ ResponseValid(response)
                 /\ OfType(response.content, "image") = << >>,
                 [error |-> FALSE,
                  output |->
                     (IF texts = << >> THEN << >>
                      ELSE <<MessageItem("assistant",
                                         [k \in DOMAIN texts |-> [type |-> "output_text"]])>>)
                     \o [k \in DOMAIN calls |->
                           CallItem(calls[k].id, calls[k].name, calls[k].arguments)],
                  status |-> IF response.finish \in {"length", "content_filter"}
                             THEN "incomplete" ELSE "completed",
                  reason |-> CASE response.finish = "length" -> "max_output_tokens"
                               [] response.finish = "content_filter" -> "content_filter"
                               [] OTHER -> "-",
                  usage |-> [input |-> response.usage.input,
                             output |-> response.usage.output,
                             cached |-> response.usage.cached]])

-----------------------------------------------------------------------------
(* The adapter. *)
encodeMessageContent(message) ==
    LET parts == BesideCalls(message.content)
        calls == OfType(message.content, "tool_call")
    IN  (IF parts = << >> THEN << >> ELSE <<MessageItem(message.role, parts)>>)
        \o [k \in DOMAIN calls |->
              CallItem(calls[k].id, calls[k].name, calls[k].arguments)]

\* Mutant of encodeToolOutput: the error flag is left out.
encodeUnflagged(result) ==
    Accepted(OutputItem(result.id, IF result.form = "object" THEN "json" ELSE result.form,
                        result.outcome))

encodeToolOutput(result) ==
    AcceptIf(~result.isError,
             OutputItem(result.id, IF result.form = "object" THEN "json" ELSE result.form,
                        result.outcome))

toolChoiceJSON(choice) ==
    IF choice.mode = "named" THEN [mode |-> "function", name |-> choice.name]
    ELSE [mode |-> choice.mode, name |-> NoName]

ToProviderRequest(request) ==
    LET results == OfType(Contents(request.messages), "tool_result")
        ItemsOf(m) ==
            CASE m.role = "system" -> << >>
              [] m.role = "tool" ->
                    [k \in DOMAIN m.content |-> encodeToolOutput(m.content[k]).value]
              [] OTHER -> encodeMessageContent(m)
        input == FlattenSeq([i \in DOMAIN request.messages |-> ItemsOf(request.messages[i])])
    IN  AcceptIf(/\ RequestValid(request)
                 /\ ~request.stop
                 /\ \A n \in request.max : n >= MinOutputTokens
                 /\ \A k \in DOMAIN results : encodeToolOutput(results[k]).ok
                 /\ input # << >>,
                 [input |-> input,
                  instructions |-> \E m \in ToSet(request.messages) : m.role = "system",
                  max |-> request.max, tools |-> request.tools,
                  choice |-> toolChoiceJSON(request.choice),
                  parallel |-> ~request.choice.disableParallel])

\* The adapter's own limit, before it resolves the provider.
WithinLimit(request) ==
    MaxOutputTokens > 0 => \A n \in request.max : n <= MaxOutputTokens

ItemContent(item) ==
    CASE item.type = "message" -> [k \in DOMAIN item.content |-> Text]
      [] item.type = "function_call" ->
            <<ToolCall(item.id, item.name, item.arguments, NoSignature)>>
      [] OTHER -> << >>

FinishOf(response, content) ==
    IF response.status = "incomplete"
    THEN CASE response.reason = "max_output_tokens" -> "length"
           [] response.reason = "content_filter" -> "content_filter"
           [] OTHER -> "-"
    ELSE IF \E item \in ToSet(response.output) :
               /\ item.type = "message"
               /\ \E part \in ToSet(item.content) : part.type = "refusal"
         THEN "content_filter"
    ELSE IF OfType(content, "tool_call") # << >> THEN "tool_calls"
    ELSE "stop"

ToIRResponse(response, request) ==
    LET content == FlattenSeq([i \in DOMAIN response.output |-> ItemContent(response.output[i])])
        result == Response(request.model, content, FinishOf(response, content),
                           Usage(response.usage.input, response.usage.output, 0,
                                 response.usage.cached))
    IN  AcceptIf(/\ ~response.error
                 /\ response.status \in {"completed", "incomplete"}
                 /\ \A item \in ToSet(response.output) :
                       /\ item.type \in {"message", "function_call", "reasoning"}
                       /\ item.type = "message" =>
                             \A part \in ToSet(item.content) :
                                 part.type \in {"output_text", "refusal"}
                 /\ ResponseValid(result),
                 result)

-----------------------------------------------------------------------------
(* The client. *)
Spelled(wants) ==
    IF wants.mode = "named" THEN [mode |-> "function", name |-> wants.name]
    ELSE [mode |-> wants.mode, name |-> NoName]

Opening(parts) == <<MessageItem("user", parts)>>

Ask(wants, history) ==
    [instructions |-> TRUE, input |-> history, tools |-> wants.tools,
     choice |-> Spelled(wants), parallel |-> wants.parallel, max |-> wants.max,
     extras |-> wants.extras]

OutputCalls(answer) == OfType(answer.output, "function_call")

Echo(answer) == answer.output

Results(answer, order, form) ==
    LET calls == OutputCalls(answer)
    IN  [k \in DOMAIN order |->
            OutputItem(calls[order[k]].id, form, calls[order[k]].arguments)]

Read(answer) ==
    LET calls == OutputCalls(answer)
    IN  [calls |-> [k \in DOMAIN calls |-> [id |-> calls[k].id, name |-> calls[k].name,
                                            arguments |-> calls[k].arguments]],
         ended |-> IF answer.reason = "max_output_tokens" THEN "limit"
                   ELSE IF \/ answer.reason = "content_filter"
                           \/ \E item \in ToSet(answer.output) :
                                 /\ item.type = "message"
                                 /\ [type |-> "refusal"] \in ToSet(item.content) THEN "filter"
                   ELSE "complete",
         usage |-> answer.usage]

(* The provider. *)
Seen(sent) ==
    LET PartOf(item) ==
            CASE item.type = "function_call" ->
                    <<[type |-> "call", id |-> item.id, name |-> item.name,
                       arguments |-> item.arguments, signature |-> NoSignature]>>
              [] item.type = "function_call_output" ->
                    <<[type |-> "result", id |-> item.id, name |-> NoName,
                       outcome |-> item.outcome, isError |-> FALSE]>>
              [] OTHER -> << >>
        ImagesOf(item) ==
            IF item.type = "message" THEN OfType(item.content, "image") ELSE << >>
    IN  [parts |-> FlattenSeq([i \in DOMAIN sent.input |-> PartOf(sent.input[i])]),
         system |-> sent.instructions,
         images |-> FlattenSeq([i \in DOMAIN sent.input |-> ImagesOf(sent.input[i])]),
         tools |-> sent.tools,
         mode |-> IF sent.choice.mode = "function" THEN "named" ELSE sent.choice.mode,
         name |-> sent.choice.name, parallel |-> sent.parallel, max |-> sent.max,
         stop |-> FALSE]

Reply(output, status, reason, cached) ==
    [error |-> FALSE, output |-> output, status |-> status, reason |-> reason,
     usage |-> [input |-> 5, output |-> 2, cached |-> cached]]

Say(type) == MessageItem("assistant", <<[type |-> type]>>)
Reasoning == [type |-> "reasoning"]
UpCall(n, k, name) == CallItem(<<"up", n, k, 0>>, name, <<n, k>>)

Talk == Reply(<<Say("output_text")>>, "completed", "-", 3)
ToolReplies(n) ==
    {Reply(<<UpCall(n, 1, "f"), Say("output_text"), UpCall(n, 2, "f")>>, "completed", "-", 0),
     Reply(<<Reasoning, UpCall(n, 1, "g")>>, "completed", "-", 0)}
OddReplies(n) ==
    {Reply(<<Say("output_text")>>, "incomplete", "max_output_tokens", 0),
     Reply(<<UpCall(n, 1, "f")>>, "incomplete", "max_output_tokens", 0),
     Reply(<<Say("output_text")>>, "incomplete", "content_filter", 0),
     Reply(<<Say("refusal")>>, "completed", "-", 0),
     Reply(<<Say("output_text")>>, "incomplete", "-", 0),
     Reply(<<Say("output_text")>>, "completed", "-", 6),
     Reply(<<Say("annotated_text")>>, "completed", "-", 0),
     Reply(<<CallItem(<<"up", n, 1, 0>>, "f", NoObject)>>, "completed", "-", 0),
     Reply(<<[type |-> "web_search_call"]>>, "completed", "-", 0),
     Reply(<< >>, "in_progress", "-", 0),
     [Talk EXCEPT !.error = TRUE]}
=============================================================================
