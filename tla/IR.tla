--------------------------------- MODULE IR ---------------------------------
(***************************************************************************)
(* The intermediate representation between the gateways and the adapters:  *)
(* its requests, its responses and the validation that both sides apply.   *)
(*                                                                         *)
(* Text and images have no content here.  The arguments of a call and the  *)
(* outcome in a result are opaque values, by which the properties tell one *)
(* call from another.  Version, temperature, top_p and streaming are left  *)
(* out: they are copied or refused alike everywhere.  The empty string, of *)
(* an absent field, is "-" in these modules.                               *)
(***************************************************************************)
EXTENDS Integers, Sequences, FiniteSets, SequencesExt

\* An absent ID, and arguments that are not a JSON object.
NoID == << >>
NoObject == << >>
NoName == "-"
NoSignature == "-"

isJSONObject(value) == value # NoObject

Text == [type |-> "text"]
Image(source) == [type |-> "image", source |-> source]

ToolCall(id, name, arguments, signature) ==
    [type |-> "tool_call", id |-> id, name |-> name, arguments |-> arguments,
     signature |-> signature]

\* form is how the outcome is given: text, image or a JSON object.
ToolResult(id, name, form, outcome, isError) ==
    [type |-> "tool_result", id |-> id, name |-> name, form |-> form,
     outcome |-> outcome, isError |-> isError]

Message(role, content) == [role |-> role, content |-> content]

NoToolChoice == [mode |-> "-", name |-> NoName, disableParallel |-> FALSE]
ToolChoice(mode, name) == [mode |-> mode, name |-> name, disableParallel |-> FALSE]

\* A translation succeeds with a value or is refused.
Accepted(value) == [ok |-> TRUE, value |-> value]
Refused == [ok |-> FALSE]
AcceptIf(condition, value) == IF condition THEN Accepted(value) ELSE Refused

\* The parts of a type, the parts but the calls, and the messages but the system's,
\* in order.  (SelectSeq has no definition that a proof could expand.)
OfType(content, type) ==
    FlattenSeq([i \in DOMAIN content |->
        IF content[i].type = type THEN <<content[i]>> ELSE << >>])
BesideCalls(content) ==
    FlattenSeq([i \in DOMAIN content |->
        IF content[i].type = "tool_call" THEN << >> ELSE <<content[i]>>])
AfterSystem(messages) ==
    FlattenSeq([i \in DOMAIN messages |->
        IF messages[i].role = "system" THEN << >> ELSE <<messages[i]>>])

Contents(messages) == FlattenSeq([i \in DOMAIN messages |-> messages[i].content])

\* The calls collected so far, in a map from ID to name.
NameOf(calls, id) == (CHOOSE c \in calls : c.id = id).name
Known(calls, id) == \E c \in calls : c.id = id
Named(tools, name) == \E t \in ToSet(tools) : t.name = name

-----------------------------------------------------------------------------
(* Content.Validate *)
ContentValid(part) ==
    CASE part.type = "tool_call" ->
            part.id # NoID /\ part.name # NoName /\ isJSONObject(part.arguments)
      [] part.type = "tool_result" -> part.id # NoID
      [] OTHER -> TRUE

Allowed(role) ==
    CASE role = "system" -> {"text"}
      [] role = "user" -> {"text", "image"}
      [] role = "assistant" -> {"text", "tool_call"}
      [] role = "tool" -> {"tool_result"}
      [] OTHER -> {}

MessageValid(message) ==
    /\ message.content # << >>
    /\ \A i \in DOMAIN message.content :
          /\ ContentValid(message.content[i])
          /\ message.content[i].type \in Allowed(message.role)

SystemFirst(messages) ==
    \A i, j \in DOMAIN messages :
        (i < j /\ messages[j].role = "system") => messages[i].role = "system"

CallsUnique(messages) ==
    LET calls == OfType(Contents(messages), "tool_call")
    IN  \A i, j \in DOMAIN calls : i # j => calls[i].id # calls[j].id

\* Every result answers an earlier call of its name, which has no other result.
ResultsMatch(messages) ==
    LET parts == Contents(messages)
        Is(i, type) == parts[i].type = type
    IN  \A j \in DOMAIN parts : Is(j, "tool_result") =>
            /\ \E i \in 1..(j - 1) :
                  /\ Is(i, "tool_call")
                  /\ parts[i].id = parts[j].id
                  /\ parts[j].name \in {NoName, parts[i].name}
            /\ \A k \in 1..(j - 1) :
                  Is(k, "tool_result") => parts[k].id # parts[j].id

ToolsValid(tools, choice) ==
    /\ \A i, j \in DOMAIN tools : i # j => tools[i].name # tools[j].name
    /\ choice # NoToolChoice =>
          /\ tools # << >>
          /\ choice.mode \in {"auto", "none", "required", "named"}
          /\ choice.mode = "named" => Named(tools, choice.name)

\* Request.Validate.
RequestValid(request) ==
    /\ \E i \in DOMAIN request.messages : request.messages[i].role # "system"
    /\ \A n \in request.max : n > 0
    /\ \A i \in DOMAIN request.messages : MessageValid(request.messages[i])
    /\ SystemFirst(request.messages)
    /\ CallsUnique(request.messages)
    /\ ResultsMatch(request.messages)
    /\ ToolsValid(request.tools, request.choice)

Usage(input, output, created, cached) ==
    [input |-> input, output |-> output, created |-> created, cached |-> cached]

Response(model, content, finish, usage) ==
    [model |-> model, content |-> content, finish |-> finish, stopSequence |-> FALSE,
     usage |-> usage]

\* Response.Validate.
ResponseValid(response) ==
    /\ response.finish \in {"stop", "length", "tool_calls", "content_filter"}
    /\ \A i \in DOMAIN response.content :
          /\ response.content[i].type \in {"text", "image", "tool_call"}
          /\ ContentValid(response.content[i])
    /\ response.usage.input >= 0 /\ response.usage.output >= 0
    /\ response.usage.created >= 0 /\ response.usage.cached >= 0
=============================================================================
