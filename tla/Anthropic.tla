----------------------------- MODULE Anthropic -----------------------------
(***************************************************************************)
(* The Anthropic Messages protocol, on both sides of the IR.               *)
(*                                                                         *)
(* The content of a message is a sequence of blocks.  The results of tools *)
(* are blocks of a user message, of which the IR makes a message of role   *)
(* tool.                                                                   *)
(***************************************************************************)
EXTENDS IR

CONSTANTS MaxOutputTokens, DefaultMaxOutputTokens   \* configuration of the adapter

ToolUse(id, name, input) == [type |-> "tool_use", id |-> id, name |-> name, input |-> input]
ResultBlock(id, form, outcome, isError) ==
    [type |-> "tool_result", id |-> id, form |-> form, outcome |-> outcome,
     isError |-> isError]

-----------------------------------------------------------------------------
(* The gateway. *)
BlockAccepted(block, role) ==
    CASE block.type = "text" -> TRUE
      [] block.type = "image" -> role = "user"
      [] block.type = "tool_use" ->
            /\ role = "assistant"
            /\ block.id # NoID /\ block.name # NoName /\ isJSONObject(block.input)
      [] block.type = "tool_result" -> role = "user" /\ block.id # NoID
      [] OTHER -> FALSE

hasToolResult(message) == OfType(message.content, "tool_result") # << >>

parseClientBlocks(message) ==
    /\ message.content # << >>
    /\ \A block \in ToSet(message.content) : BlockAccepted(block, message.role)

\* The tool_use blocks of the request, in order, with the names they map to.
ToolUses(messages) == OfType(Contents(messages), "tool_use")

UsesBefore(messages, i) == ToSet(ToolUses(SubSeq(messages, 1, i - 1)))

MessageAccepted(messages, i) ==
    /\ messages[i].role \in {"user", "assistant"}
    /\ parseClientBlocks(messages[i])
    /\ \A block \in ToSet(messages[i].content) :
          block.type = "tool_result" => Known(UsesBefore(messages, i), block.id)

UsesUnique(messages) ==
    LET uses == ToolUses(messages)
    IN  \A i, j \in DOMAIN uses : i # j => uses[i].id # uses[j].id

BlockToIR(block, uses) ==
    CASE block.type = "tool_use" -> ToolCall(block.id, block.name, block.input, NoSignature)
      [] block.type = "tool_result" ->
            ToolResult(block.id, NameOf(uses, block.id), block.form, block.outcome,
                       block.isError)
      [] OTHER -> block

MessageToIR(messages, i) ==
    Message(IF hasToolResult(messages[i]) THEN "tool" ELSE messages[i].role,
            [k \in DOMAIN messages[i].content |->
                BlockToIR(messages[i].content[k], UsesBefore(messages, i))])

ChoiceToIR(choice, tools) ==
    LET mode == CASE choice.type = "any" -> "required"
                  [] choice.type = "tool" -> "named"
                  [] OTHER -> choice.type
    IN  CASE choice.type = "-" -> Accepted(NoToolChoice)
          [] choice.type = "none" ->
                AcceptIf(~choice.disableParallel,
                         IF tools = << >> THEN NoToolChoice ELSE ToolChoice("none", NoName))
          [] choice.type \in {"auto", "any", "tool"} ->
                AcceptIf(/\ tools # << >>
                         /\ choice.type = "tool" => Named(tools, choice.name),
                         [mode |-> mode, name |-> choice.name,
                          disableParallel |-> choice.disableParallel])
          [] OTHER -> Refused

ToIRRequest(request, requestID, model) ==
    LET messages == request.messages
        choice == ChoiceToIR(request.choice, request.tools)
        result == [id |-> requestID, model |-> model,
                   messages |-> (IF request.system THEN <<Message("system", <<Text>>)>>
                                 ELSE << >>)
                                \o [i \in DOMAIN messages |-> MessageToIR(messages, i)],
                   max |-> request.max, stop |-> request.stop, tools |-> request.tools,
                   choice |-> choice.value]
    IN  AcceptIf(/\ request.max # {} /\ \A n \in request.max : n > 0
                 /\ messages # << >>
                 /\ ~request.extras
                 /\ \A i \in DOMAIN messages : MessageAccepted(messages, i)
                 /\ UsesUnique(messages)
                 /\ choice.ok
                 /\ RequestValid(result),
                 result)

\* Mutant of uncachedInput: what was written to the cache is not left out.
uncachedOrCreated(usage) == usage.input - usage.cached

\* input_tokens leaves out what was read from or written to the cache.
uncachedInput(usage) == usage.input - usage.created - usage.cached

FromIRResponse(response) ==
    LET BlockOf(part) == IF part.type = "text" THEN Text
                         ELSE ToolUse(part.id, part.name, part.arguments)
    IN  AcceptIf(/\ ResponseValid(response)
                 /\ uncachedInput(response.usage) >= 0
                 /\ OfType(response.content, "image") = << >>,
                 [content |-> [k \in DOMAIN response.content |-> BlockOf(response.content[k])],
                  stopReason |-> CASE response.finish = "stop" ->
                                        IF response.stopSequence THEN "stop_sequence"
                                        ELSE "end_turn"
                                   [] response.finish = "length" -> "max_tokens"
                                   [] response.finish = "tool_calls" -> "tool_use"
                                   [] response.finish = "content_filter" -> "refusal",
                  stopSequence |-> response.finish = "stop" /\ response.stopSequence,
                  usage |-> [input |-> uncachedInput(response.usage),
                             output |-> response.usage.output,
                             created |-> response.usage.created,
                             read |-> response.usage.cached]])

-----------------------------------------------------------------------------
(* The adapter. *)
contentToAnthropic(part) ==
    CASE part.type = "tool_call" -> ToolUse(part.id, part.name, part.arguments)
      [] part.type = "tool_result" ->
            ResultBlock(part.id, part.form, part.outcome, part.isError)
      [] OTHER -> part

ToMessageRequest(request) ==
    LET max == IF request.max = {} THEN {DefaultMaxOutputTokens} ELSE request.max
        conversation == AfterSystem(request.messages)
        choice == request.choice
    IN  AcceptIf(/\ RequestValid(request)
                 /\ \A n \in max : n > 0 /\ (MaxOutputTokens > 0 => n <= MaxOutputTokens)
                 /\ conversation # << >>,
                 [system |-> conversation # request.messages,
                  messages |-> [i \in DOMAIN conversation |->
                      Message(IF conversation[i].role = "tool" THEN "user"
                              ELSE conversation[i].role,
                              [k \in DOMAIN conversation[i].content |->
                                  contentToAnthropic(conversation[i].content[k])])],
                  max |-> max, stop |-> request.stop, tools |-> request.tools,
                  choice |-> [type |-> CASE choice.mode = "required" -> "any"
                                         [] choice.mode = "named" -> "tool"
                                         [] OTHER -> choice.mode,
                              name |-> choice.name,
                              disableParallel |-> choice.mode # "none" /\
                                                  choice.disableParallel]])

FinishOf(reason) ==
    CASE reason \in {"end_turn", "stop_sequence", "pause_turn"} -> "stop"
      [] reason \in {"max_tokens", "model_context_window_exceeded"} -> "length"
      [] reason = "tool_use" -> "tool_calls"
      [] reason = "refusal" -> "content_filter"
      [] OTHER -> "-"

ToIRResponse(response, request) ==
    LET PartOf(block) == IF block.type = "tool_use"
                         THEN ToolCall(block.id, block.name, block.input, NoSignature)
                         ELSE block
        usage == response.usage
        result == [Response(request.model,
                            [k \in DOMAIN response.content |-> PartOf(response.content[k])],
                            FinishOf(response.stopReason),
                            Usage(usage.input + usage.created + usage.read, usage.output,
                                  usage.created, usage.read))
                   EXCEPT !.stopSequence = response.stopSequence]
    IN  AcceptIf(/\ response.kind = "message"
                 /\ response.model \in {NoName, request.model}
                 /\ \A count \in DOMAIN usage : usage[count] >= 0
                 /\ \A block \in ToSet(response.content) : block.type \in {"text", "tool_use"}
                 /\ response.stopSequence <=> response.stopReason = "stop_sequence"
                 /\ ResponseValid(result),
                 result)

-----------------------------------------------------------------------------
(* The client. *)
Spelled(wants) ==
    [type |-> CASE wants.mode = "required" -> "any"
                [] wants.mode = "named" -> "tool"
                [] wants.mode = "-" /\ ~wants.parallel -> "auto"
                [] OTHER -> wants.mode,
     name |-> IF wants.mode = "named" THEN wants.name ELSE NoName,
     disableParallel |-> ~wants.parallel]

Opening(parts) == <<Message("user", parts)>>

Ask(wants, history) ==
    [system |-> TRUE, messages |-> history, tools |-> wants.tools,
     choice |-> Spelled(wants), max |-> wants.max, stop |-> wants.stop,
     extras |-> wants.extras]

Echo(answer) == <<Message("assistant", answer.content)>>

Results(answer, order, form, isError) ==
    LET uses == OfType(answer.content, "tool_use")
    IN  <<Message("user", [k \in DOMAIN order |->
              ResultBlock(uses[order[k]].id, form, uses[order[k]].input, isError)])>>

Read(answer) ==
    LET uses == OfType(answer.content, "tool_use")
    IN  [calls |-> [k \in DOMAIN uses |-> [id |-> uses[k].id, name |-> uses[k].name,
                                           arguments |-> uses[k].input]],
         ended |-> CASE FinishOf(answer.stopReason) = "length" -> "limit"
                     [] answer.stopReason = "refusal" -> "filter"
                     [] OTHER -> "complete",
         usage |-> [input |-> answer.usage.input + answer.usage.created + answer.usage.read,
                    output |-> answer.usage.output, cached |-> answer.usage.read]]

(* The provider. *)
Seen(sent) ==
    LET PartOf(block) ==
            CASE block.type = "tool_use" ->
                    <<[type |-> "call", id |-> block.id, name |-> block.name,
                       arguments |-> block.input, signature |-> NoSignature]>>
              [] block.type = "tool_result" ->
                    <<[type |-> "result", id |-> block.id, name |-> NoName,
                       outcome |-> block.outcome, isError |-> block.isError]>>
              [] OTHER -> << >>
        blocks == Contents(sent.messages)
    IN  [parts |-> FlattenSeq([i \in DOMAIN blocks |-> PartOf(blocks[i])]),
         system |-> sent.system, images |-> OfType(blocks, "image"), tools |-> sent.tools,
         mode |-> CASE sent.choice.type = "any" -> "required"
                    [] sent.choice.type = "tool" -> "named"
                    [] OTHER -> sent.choice.type,
         name |-> sent.choice.name, parallel |-> ~sent.choice.disableParallel,
         max |-> sent.max, stop |-> sent.stop]

\* kind stands for an ID, the type message and the role assistant; "other" is the
\* model of every route to Anthropic.
Reply(content, stopReason, created, read) ==
    [kind |-> "message", model |-> "other", content |-> content,
     stopReason |-> stopReason, stopSequence |-> FALSE,
     usage |-> [input |-> 5, output |-> 2, created |-> created, read |-> read]]

UpUse(n, k, name) == ToolUse(<<"up", n, k, 0>>, name, <<n, k>>)

Talk == Reply(<<Text>>, "end_turn", 1, 3)
ToolReplies(n) ==
    {Reply(<<Text, UpUse(n, 1, "f"), UpUse(n, 2, "f")>>, "tool_use", 0, 0),
     Reply(<<UpUse(n, 1, "g")>>, "tool_use", 0, 0)}
OddReplies(n) ==
    {Reply(<<Text>>, "max_tokens", 0, 0),
     Reply(<<Text>>, "model_context_window_exceeded", 0, 0),
     Reply(<<UpUse(n, 1, "f")>>, "max_tokens", 0, 0),
     Reply(<<Text>>, "pause_turn", 0, 0),
     Reply(<< >>, "refusal", 0, 0),
     Reply(<<Text>>, "unknown", 0, 0),
     Reply(<<[type |-> "thinking"], Text>>, "end_turn", 0, 0),
     Reply(<<ToolUse(<<"up", n, 1, 0>>, "f", NoObject)>>, "tool_use", 0, 0),
     Reply(<<Text>>, "stop_sequence", 0, 0),
     [Reply(<<Text>>, "stop_sequence", 0, 0) EXCEPT !.stopSequence = TRUE],
     Reply(<<Text>>, "end_turn", 0, -1),
     [Talk EXCEPT !.stopSequence = TRUE],
     [Talk EXCEPT !.kind = "error"],
     [Talk EXCEPT !.model = NoName],
     [Talk EXCEPT !.model = "snapshot"]}
=============================================================================
