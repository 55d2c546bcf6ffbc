------------------------------- MODULE Gemini -------------------------------
(***************************************************************************)
(* The Gemini generateContent protocol, on both sides of the IR.           *)
(*                                                                         *)
(* Function calls and responses need no ID here: a response without one    *)
(* answers the oldest open call of its name, and calls without one are     *)
(* given an ID, by the gateway if a client sends them and by the adapter   *)
(* if the provider does.  Gemini 3 wants a signature with every call.      *)
(***************************************************************************)
EXTENDS IR

CONSTANTS MaxOutputTokens, DefaultMaxOutputTokens   \* configuration of the adapter

SkipThoughtSignatureValidator == "skip"

FunctionCall(id, name, args, signature) ==
    [type |-> "functionCall", id |-> id, name |-> name, args |-> args,
     signature |-> signature]

\* response is an object: the outcome itself, or an output with is_error.
FunctionResponse(id, name, outcome, isError) ==
    [type |-> "functionResponse", id |-> id, name |-> name, outcome |-> outcome,
     isError |-> isError]

-----------------------------------------------------------------------------
(* The gateway. *)
ContainsResponse(content) == OfType(content.parts, "functionResponse") # << >>

PartAccepted(part, content) ==
    CASE part.type \in {"text", "inlineData"} -> ~ContainsResponse(content)
      [] part.type = "functionCall" ->
            content.role = "model" /\ part.name # NoName /\ isJSONObject(part.args)
      [] part.type = "functionResponse" ->
            content.role = "user" /\ part.name # NoName /\ isJSONObject(part.outcome)
      [] OTHER -> FALSE

\* A content without role counts as one of the user's; clients here spell it out.
ContentAccepted(content) ==
    /\ content.role \in {"user", "model"}
    /\ content.parts # << >>
    /\ \A part \in ToSet(content.parts) : PartAccepted(part, content)

\* Mutant of OpenCalls: the latest call of the name is answered first.
OpenCallsLatest(pending, response) ==
    {j \in DOMAIN pending :
        /\ pending[j].name = response.name
        /\ response.id \in {NoID, pending[j].id}
        /\ \A k \in DOMAIN pending :
              pending[k].name = response.name /\ response.id \in {NoID, pending[k].id}
                  => k <= j}

\* The pending call that a response answers, as the set of its position.
OpenCalls(pending, response) ==
    {j \in DOMAIN pending :
        /\ pending[j].name = response.name
        /\ response.id \in {NoID, pending[j].id}
        /\ \A k \in DOMAIN pending :
              pending[k].name = response.name /\ response.id \in {NoID, pending[k].id}
                  => j <= k}

\* The ID of a call that came without one, in the given place of the request.
HistoryID(requestID, message, part) == <<"hist", requestID, message, part>>

\* One part more of a message, in a translation that has messages so far,
\* content of the current one, pending calls, and no error.
TranslatePart(requestID, done, part) ==
    LET call == [id |-> IF part.id # NoID THEN part.id
                        ELSE HistoryID(requestID, Len(done.messages) + 1,
                                       Len(done.content) + 1),
                 name |-> part.name]
        open == OpenCalls(done.pending, part)
        j == CHOOSE k \in open : TRUE
    IN  CASE part.type = "functionCall" ->
                [done EXCEPT !.pending = Append(@, call),
                             !.content = Append(@, ToolCall(call.id, part.name, part.args,
                                                            part.signature))]
          [] part.type = "functionResponse" ->
                IF open = {} THEN [done EXCEPT !.ok = FALSE]
                ELSE [done EXCEPT !.pending = RemoveAt(@, j),
                                  !.content = Append(@, ToolResult(done.pending[j].id,
                                                                   part.name, "object",
                                                                   part.outcome, FALSE))]
          [] part.type = "inlineData" ->
                [done EXCEPT !.content = Append(@, Image("inline"))]
          [] OTHER -> [done EXCEPT !.content = Append(@, Text)]

TranslateContent(requestID, done, content) ==
    LET step[k \in 0..Len(content.parts)] ==
            IF k = 0 THEN [done EXCEPT !.content = << >>]
            ELSE TranslatePart(requestID, step[k - 1], content.parts[k])
        all == step[Len(content.parts)]
        role == IF content.role = "model" THEN "assistant"
                ELSE IF ContainsResponse(content) THEN "tool" ELSE "user"
    IN  [all EXCEPT !.messages = Append(@, Message(role, all.content))]

TranslateContents(requestID, contents) ==
    LET step[i \in 0..Len(contents)] ==
            IF i = 0
            THEN [messages |-> << >>, content |-> << >>, pending |-> << >>, ok |-> TRUE]
            ELSE TranslateContent(requestID, step[i - 1], contents[i])
    IN  step[Len(contents)]

ConfigToIR(config, tools) ==
    CASE config.mode = "absent" -> Accepted(NoToolChoice)
      [] config.mode \in {"-", "AUTO"} ->
            AcceptIf(tools # << >> /\ config.allowed = << >>, ToolChoice("auto", NoName))
      [] config.mode = "NONE" ->
            AcceptIf(tools # << >> /\ config.allowed = << >>, ToolChoice("none", NoName))
      [] config.mode = "ANY" ->
            IF config.allowed = << >>
            THEN AcceptIf(tools # << >>, ToolChoice("required", NoName))
            ELSE AcceptIf(Len(config.allowed) = 1 /\ Named(tools, config.allowed[1]),
                          ToolChoice("named", config.allowed[1]))
      [] OTHER -> Refused

validateGenerationConfig(request) ==
    ~request.extras /\ \A n \in request.max : n > 0

ToIRRequest(request, requestID, model) ==
    LET translated == TranslateContents(requestID, request.contents)
        choice == ConfigToIR(request.config, request.tools)
        result == [id |-> requestID, model |-> model,
                   messages |-> (IF request.system THEN <<Message("system", <<Text>>)>>
                                 ELSE << >>) \o translated.messages,
                   max |-> request.max, stop |-> request.stop, tools |-> request.tools,
                   choice |-> choice.value]
    IN  AcceptIf(/\ request.contents # << >>
                 /\ validateGenerationConfig(request)
                 /\ \A content \in ToSet(request.contents) : ContentAccepted(content)
                 /\ translated.ok
                 /\ choice.ok
                 /\ RequestValid(result),
                 result)

-----------------------------------------------------------------------------
(* The adapter, and the gateway's answer, which share contentToProvider. *)
Gemini3 == "gemini-3"

\* Mutant of Representable: the URL of an image is taken for its data.
RepresentableAny(part) == part.type = "tool_result" => part.form # "image"

\* What contentToProvider refuses: URLs of images, and images in a result.
Representable(part) ==
    /\ part.type = "image" => part.source = "inline"
    /\ part.type = "tool_result" => part.form # "image"

\* Mutant of contentToProvider: a call goes out with the signature it has.
contentUnsigned(part, model) ==
    CASE part.type = "tool_call" ->
            FunctionCall(part.id, part.name, part.arguments, part.signature)
      [] part.type = "tool_result" ->
            FunctionResponse(part.id, part.name, part.outcome,
                             part.form = "text" /\ part.isError)
      [] part.type = "image" -> [type |-> "inlineData"]
      [] OTHER -> part

\* A result has the name of its call already: every gateway's translation to the IR
\* gives it one, so that contentToProvider need not look for it among the calls.
contentToProvider(part, model) ==
    CASE part.type = "tool_call" ->
            FunctionCall(part.id, part.name, part.arguments,
                         IF part.signature = NoSignature /\ model = Gemini3
                         THEN SkipThoughtSignatureValidator ELSE part.signature)
      [] part.type = "tool_result" ->
            FunctionResponse(part.id, part.name, part.outcome,
                             part.form = "text" /\ part.isError)
      [] part.type = "image" -> [type |-> "inlineData"]
      [] OTHER -> part

\* Messages of one role in a row become one content.
appendContent(contents, role, parts) ==
    LET last == Len(contents)
    IN  IF contents # << >> /\ contents[last].role = role
        THEN [contents EXCEPT ![last].parts = @ \o parts]
        ELSE Append(contents, [role |-> role, parts |-> parts])

ToProviderRequest(request) ==
    LET max == IF request.max = {} /\ DefaultMaxOutputTokens > 0
               THEN {DefaultMaxOutputTokens} ELSE request.max
        conversation == AfterSystem(request.messages)
        step[i \in 0..Len(conversation)] ==
            IF i = 0 THEN << >>
            ELSE LET m == conversation[i]
                 IN  appendContent(step[i - 1],
                                   IF m.role = "assistant" THEN "model" ELSE "user",
                                   [k \in DOMAIN m.content |->
                                       contentToProvider(m.content[k], request.model)])
        choice == request.choice
    IN  AcceptIf(/\ RequestValid(request)
                 /\ \A n \in max : MaxOutputTokens > 0 => n <= MaxOutputTokens
                 /\ \A part \in ToSet(Contents(request.messages)) : Representable(part)
                 /\ conversation # << >>
                 /\ \A tool \in ToSet(request.tools) : ~tool.strict
                 /\ ~choice.disableParallel,
                 [system |-> conversation # request.messages,
                  contents |-> step[Len(conversation)],
                  max |-> max, stop |-> request.stop, tools |-> request.tools,
                  config |-> [mode |-> CASE choice.mode = "auto" -> "AUTO"
                                         [] choice.mode = "none" -> "NONE"
                                         [] choice.mode \in {"required", "named"} -> "ANY"
                                         [] OTHER -> "absent",
                              allowed |-> IF choice.mode = "named" THEN <<choice.name>>
                                          ELSE << >>]])

\* Mutant of finishReasonToIR: calls decide, whatever the reason.
finishByCalls(reason, hasToolCalls) ==
    IF hasToolCalls THEN "tool_calls"
    ELSE CASE reason \in {"-", "STOP"} -> "stop"
           [] reason = "MAX_TOKENS" -> "length"
           [] reason = "SAFETY" -> "content_filter"
           [] OTHER -> "-"

finishReasonToIR(reason, hasToolCalls) ==
    CASE reason \in {"-", "STOP"} -> IF hasToolCalls THEN "tool_calls" ELSE "stop"
      [] reason = "MAX_TOKENS" -> "length"
      [] reason = "SAFETY" -> "content_filter"
      [] OTHER -> "-"

\* Mutant of ReplyID: the place in the reply alone.
ReplyIDByPlace(requestID, part) == <<"call", 0, part, 0>>

\* The ID of a call that the provider sent without one.
ReplyID(requestID, part) == <<"call", requestID, part, 0>>

ToIRResponse(response, request) ==
    LET parts == response.parts
        PartOf(i) ==
            CASE parts[i].type = "thought" -> << >>
              [] parts[i].type = "text" -> <<Text>>
              [] parts[i].type = "inlineData" -> <<Image("inline")>>
              [] parts[i].type = "functionCall" ->
                    <<ToolCall(IF parts[i].id = NoID THEN ReplyID(request.id, i)
                               ELSE parts[i].id,
                               parts[i].name, parts[i].args, parts[i].signature)>>
        content == FlattenSeq([i \in DOMAIN parts |-> PartOf(i)])
        usage == Usage(response.usage.prompt,
                       response.usage.candidates + response.usage.thoughts, 0,
                       response.usage.cached)
        result == Response(request.model, content,
                           finishReasonToIR(response.finish,
                                            OfType(content, "tool_call") # << >>), usage)
    IN  IF response.candidates = 0
        THEN AcceptIf(response.blocked,
                      Response(request.model, << >>, "content_filter", usage))
        ELSE AcceptIf(/\ response.candidates = 1
                      /\ response.role \in {"-", "model"}
                      /\ \A part \in ToSet(parts) :
                            /\ part.type \in {"thought", "text", "inlineData", "functionCall"}
                            /\ part.type # "functionCall" => "signature" \notin DOMAIN part
                      /\ ResponseValid(result),
                      result)

FromIRResponse(response) ==
    AcceptIf(/\ ResponseValid(response)
             /\ \A part \in ToSet(response.content) : Representable(part),
             [candidates |-> 1, blocked |-> FALSE,
              parts |-> [k \in DOMAIN response.content |->
                            contentToProvider(response.content[k], response.model)],
              finish |-> CASE response.finish = "length" -> "MAX_TOKENS"
                           [] response.finish = "content_filter" -> "SAFETY"
                           [] OTHER -> "STOP",
              usage |-> [prompt |-> response.usage.input,
                         candidates |-> response.usage.output, thoughts |-> 0,
                         cached |-> response.usage.cached]])

-----------------------------------------------------------------------------
(***************************************************************************)
(* The client.  It may leave out the IDs of responses, or of calls too; it *)
(* then answers the calls of a name in their order.                        *)
(***************************************************************************)
Spelled(wants) ==
    [mode |-> CASE wants.mode = "-" -> "absent"
                [] wants.mode = "auto" -> "AUTO"
                [] wants.mode = "none" -> "NONE"
                [] OTHER -> "ANY",
     allowed |-> IF wants.mode = "named" THEN <<wants.name>> ELSE << >>]

Content(role, parts) == [role |-> role, parts |-> parts]

Opening(parts) ==
    LET PartOf(part) ==
            IF part.type = "text" THEN part
            ELSE [type |-> IF part.source = "url" THEN "fileData" ELSE "inlineData"]
    IN  <<Content("user", [k \in DOMAIN parts |-> PartOf(parts[k])])>>

Ask(wants, history) ==
    [system |-> TRUE, contents |-> history, tools |-> wants.tools,
     config |-> Spelled(wants), max |-> wants.max, stop |-> wants.stop,
     extras |-> wants.extras]

Echo(answer, style) ==
    <<Content("model", [k \in DOMAIN answer.parts |->
          IF answer.parts[k].type = "functionCall" /\ style = "none"
          THEN [answer.parts[k] EXCEPT !.id = NoID] ELSE answer.parts[k]])>>

Results(answer, order, style) ==
    LET calls == OfType(answer.parts, "functionCall")
    IN  <<Content("user", [k \in DOMAIN order |->
              FunctionResponse(IF style = "ids" THEN calls[order[k]].id ELSE NoID,
                               calls[order[k]].name, calls[order[k]].args, FALSE)])>>

Read(answer) ==
    LET calls == OfType(answer.parts, "functionCall")
    IN  [calls |-> [k \in DOMAIN calls |-> [id |-> calls[k].id, name |-> calls[k].name,
                                            arguments |-> calls[k].args]],
         ended |-> IF answer.finish = "MAX_TOKENS" THEN "limit"
                   ELSE IF answer.finish = "SAFETY" \/ answer.blocked THEN "filter"
                   ELSE "complete",
         usage |-> [input |-> answer.usage.prompt,
                    output |-> answer.usage.candidates + answer.usage.thoughts,
                    cached |-> answer.usage.cached]]

(* The provider. *)
Seen(sent) ==
    LET parts == FlattenSeq([i \in DOMAIN sent.contents |-> sent.contents[i].parts])
        PartOf(part) ==
            CASE part.type = "functionCall" ->
                    <<[type |-> "call", id |-> part.id, name |-> part.name,
                       arguments |-> part.args, signature |-> part.signature]>>
              [] part.type = "functionResponse" ->
                    <<[type |-> "result", id |-> part.id, name |-> part.name,
                       outcome |-> part.outcome, isError |-> part.isError]>>
              [] OTHER -> << >>
        images == OfType(parts, "inlineData")
    IN  [parts |-> FlattenSeq([i \in DOMAIN parts |-> PartOf(parts[i])]),
         system |-> sent.system,
         images |-> [i \in DOMAIN images |-> Image("inline")],
         tools |-> sent.tools,
         mode |-> CASE sent.config.mode = "ANY" ->
                           IF sent.config.allowed # << >> THEN "named" ELSE "required"
                    [] sent.config.mode = "NONE" -> "none"
                    [] sent.config.mode = "AUTO" -> "auto"
                    [] OTHER -> "-",
         name |-> IF sent.config.allowed = << >> THEN NoName ELSE sent.config.allowed[1],
         parallel |-> TRUE, max |-> sent.max, stop |-> sent.stop]

\* A part with no variant of data, or with several, has a type of its own.
Reply(parts, finish, cached) ==
    [candidates |-> 1, blocked |-> FALSE, role |-> "model", parts |-> parts,
     finish |-> finish,
     usage |-> [prompt |-> 5, candidates |-> 2, thoughts |-> 1, cached |-> cached]]

\* Calls come with IDs or without; Gemini 3 signs the first call of a reply.
UpCall(n, k, name, withID, model) ==
    FunctionCall(IF withID THEN <<"up", n, k, 0>> ELSE NoID, name, <<n, k>>,
                 IF model = Gemini3 /\ k = 1 THEN "signed" ELSE NoSignature)

Talk == Reply(<<[type |-> "thought"], Text>>, "STOP", 3)
ToolReplies(n, model) ==
    UNION {{Reply(<<Text, UpCall(n, 1, "f", withID, model), UpCall(n, 2, "f", withID, model)>>,
                  "STOP", 0),
            Reply(<<UpCall(n, 1, "g", withID, model)>>, "STOP", 0)} : withID \in BOOLEAN}
OddReplies(n, model) ==
    {Reply(<<Text>>, "MAX_TOKENS", 0),
     Reply(<<UpCall(n, 1, "f", FALSE, model)>>, "MAX_TOKENS", 0),
     Reply(<<Text>>, "SAFETY", 0),
     Reply(<<Text>>, "MALFORMED_FUNCTION_CALL", 0),
     Reply(<<Text>>, "STOP", 6),
     Reply(<<[type |-> "inlineData"]>>, "STOP", 0),
     Reply(<<[type |-> "executableCode"]>>, "STOP", 0),
     Reply(<<[type |-> "text", signature |-> "signed"]>>, "STOP", 0),
     Reply(<<Text>>, "STOP", -1),
     [Talk EXCEPT !.role = "-"],
     [Talk EXCEPT !.role = "user"],
     Reply(<<FunctionCall(NoID, "f", NoObject, NoSignature)>>, "STOP", 0),
     [Reply(<< >>, "-", 0) EXCEPT !.candidates = 0],
     [Reply(<< >>, "-", 0) EXCEPT !.candidates = 0, !.blocked = TRUE]}
=============================================================================
