---------------------------- MODULE Conversation ----------------------------
(***************************************************************************)
(* A client's conversation through a gateway and the adapters: it asks,    *)
(* calls the tools the model asks for, and sends the whole history again,  *)
(* with the results.  The gateway keeps nothing between two requests, and  *)
(* each may be routed to a provider of another protocol.                   *)
(*                                                                         *)
(* A request passes through pc "gateway" (translated to the IR), "adapter" *)
(* (translated to the provider's protocol), "provider" (external),         *)
(* "reply" (translated to the IR) and "answer" (translated to the client's *)
(* protocol) back to "client"; flight is what passes.  Authorization and   *)
(* routing are the module Gateway; any route may be chosen here.           *)
(***************************************************************************)
EXTENDS IR

CONSTANTS
    MaxOutputTokens, DefaultMaxOutputTokens,    \* configuration of the adapters
    Plain,          \* what clients want in a long conversation
    OtherWants,     \* what they want in a conversation of one request
    MaxRequests     \* bound: requests in a long conversation, retries included

ASSUME ConfigurationAssumption ==
    /\ MaxOutputTokens \in Nat
    /\ DefaultMaxOutputTokens \in Nat
    /\ MaxRequests \in Nat \ {0}

\* What a client may want: tools and a choice among them, whether calls may be
\* parallel, a limit of tokens, stop sequences, an image, unsupported extras.
Wants ==
    [tools : Seq([name : STRING, strict : BOOLEAN]),
     mode : {"-", "auto", "none", "required", "named"}, name : STRING,
     parallel : BOOLEAN, max : SUBSET Nat, stop : BOOLEAN, image : {"-", "url", "inline"},
     extras : BOOLEAN]

ASSUME WantsAssumption == {Plain} \cup OtherWants \subseteq Wants

VARIABLES
    client,     \* protocol and style of the client
    wants,      \* tools, choice and options of the conversation
    history,    \* the messages of the client, in its protocol
    request,    \* number of the request, which stands for its request ID
    route,      \* protocol and model of the provider of this request
    pc, flight,
    asked,      \* the IR request the adapter holds
    reply,      \* what the provider answered to this request
    status,     \* HTTP status of the last answer
    failed,     \* the step at which this request failed, or "-"
    made,       \* the calls the client was asked to make and has answered
    portable    \* every protocol can express all that is in the history

vars == <<client, wants, history, request, route, pc, flight, asked, reply,
          status, failed, made, portable>>

Chat == INSTANCE OpenAIChat
Responses == INSTANCE OpenAIResponses
Messages == INSTANCE Anthropic
Content == INSTANCE Gemini

Nothing == << >>

Clients ==
    [protocol : {"chat", "responses", "anthropic"}, style : {"ids"}]
        \cup [protocol : {"gemini"}, style : {"ids", "names", "none"}]

Routes ==
    [protocol : {"chat", "responses", "anthropic"}, model : {"other"}]
        \cup [protocol : {"gemini"}, model : {"gemini-2", Content!Gemini3}]

NoRoute == [protocol |-> "none", model |-> "none"]

By(protocol, chat, responses, anthropic, gemini) ==
    CASE protocol = "chat" -> chat
      [] protocol = "responses" -> responses
      [] protocol = "anthropic" -> anthropic
      [] protocol = "gemini" -> gemini

\* What a client's protocol has a field for.
Expressible(protocol, want) ==
    /\ protocol = "responses" => ~want.stop
    /\ protocol = "gemini" => want.parallel /\ \A t \in ToSet(want.tools) : ~t.strict

Opening(protocol, parts) ==
    By(protocol, Chat!Opening(parts), Responses!Opening(parts), Messages!Opening(parts),
       Content!Opening(parts))

FirstParts(want) ==
    IF want.image = "-" THEN <<Text>> ELSE <<Text, Image(want.image)>>

Init ==
    /\ client \in Clients
    /\ wants \in {want \in {Plain} \cup OtherWants : Expressible(client.protocol, want)}
    /\ history = Opening(client.protocol, FirstParts(wants))
    /\ request = 0
    /\ route = NoRoute
    /\ pc = "client"
    /\ flight = Nothing
    /\ asked = Nothing
    /\ reply = Nothing
    /\ status = 0
    /\ failed = "-"
    /\ made = << >>
    /\ portable = (wants = Plain)

-----------------------------------------------------------------------------
(***************************************************************************)
(* The gateways.                                                           *)
(***************************************************************************)
Fail(step, code) ==
    /\ pc' = "client"
    /\ flight' = Nothing
    /\ asked' = Nothing
    /\ status' = code
    /\ failed' = step
    /\ UNCHANGED <<client, wants, history, request, route, reply, made, portable>>

\* Mutant of writeRuntimeError: the status of the adapter is passed on.
writeAnyStatus(protocol, cause, code) ==
    CASE cause = "translation" -> 400
      [] cause = "adapter" -> code
      [] cause = "deadline" /\ protocol = "gemini" -> 504
      [] OTHER -> 502

\* Mutant of writeRuntimeError: every refusal of the adapter is a rate limit.
writeRateLimited(protocol, cause, code) ==
    CASE cause = "translation" -> 400
      [] cause = "adapter" /\ code \in 400..499 -> 429
      [] cause = "deadline" /\ protocol = "gemini" -> 504
      [] OTHER -> 502

\* The status for a cause: a translation error of the client's request, an
\* HTTP error of the adapter with its status, a deadline, or another error.
writeRuntimeError(protocol, cause, code) ==
    CASE cause = "translation" -> 400
      [] cause = "adapter" /\ code = 429 -> 429
      [] cause = "deadline" /\ protocol = "gemini" -> 504
      [] OTHER -> 502

\* The request becomes an IR request, on its way to the adapter.
Dispatch(translated) ==
    /\ pc = "gateway"
    /\ \/ /\ translated.ok
          /\ pc' = "adapter"
          /\ flight' = translated.value
          /\ UNCHANGED <<client, wants, history, request, route, asked, reply, status,
                         failed, made, portable>>
       \/ /\ ~translated.ok
          /\ Fail("request", writeRuntimeError(client.protocol, "translation", 0))

\* The IR response becomes the answer.
Answer(translated) ==
    /\ pc = "answer"
    /\ \/ /\ translated.ok
          /\ pc' = "client"
          /\ flight' = translated.value
          /\ status' = 200
          /\ UNCHANGED <<client, wants, history, request, route, asked, reply, failed, made,
                         portable>>
       \/ /\ ~translated.ok
          /\ Fail("answer", writeRuntimeError(client.protocol, "other", 0))

createChatCompletion ==
    /\ client.protocol = "chat"
    /\ \/ Dispatch(Chat!ToIR(flight, request, route.model))
       \/ Answer(Chat!FromIR(flight))

createResponse ==
    /\ client.protocol = "responses"
    /\ \/ Dispatch(Responses!ToIR(flight, request, route.model))
       \/ Answer(Responses!FromIR(flight))

createMessage ==
    /\ client.protocol = "anthropic"
    /\ \/ Dispatch(Messages!ToIRRequest(flight, request, route.model))
       \/ Answer(Messages!FromIRResponse(flight))

generateContent ==
    /\ client.protocol = "gemini"
    /\ \/ Dispatch(Content!ToIRRequest(flight, request, route.model))
       \/ Answer(Content!FromIRResponse(flight))

\* The invocation of the adapter is lost, or the gateway's deadline passes
\* while it waits; what the adapter still does is not heard of.
Abandon ==
    /\ pc \in {"adapter", "provider", "reply", "answer"}
    /\ \E cause \in {"deadline", "other"} :
          Fail("lost", writeRuntimeError(client.protocol, cause, 0))

-----------------------------------------------------------------------------
(***************************************************************************)
(* The adapters.                                                           *)
(***************************************************************************)
\* An adapter's error is what the gateway reports.
Report(step, code) == Fail(step, writeRuntimeError(client.protocol, "adapter", code))

\* Provider and credential are resolved, or not, and the request is sent.
Send(translated) ==
    /\ pc = "adapter"
    /\ \/ Report("resolve", 422)
       \/ Report("resolve", 502)
       \/ /\ translated.ok
          /\ pc' = "provider"
          /\ flight' = translated.value
          /\ asked' = flight
          /\ UNCHANGED <<client, wants, history, request, route, reply, status, failed, made,
                         portable>>
       \/ ~translated.ok /\ Report("adapter", 400)

\* The provider answered with a status or a reply.
Receive(translated) ==
    /\ pc = "reply"
    /\ \/ reply.code = 429 /\ Report("provider", 429)
       \/ reply.code \notin {200, 429} /\ Report("provider", 502)
       \/ reply.code = 200 /\ ~translated.ok /\ Report("reply", 502)
       \/ /\ reply.code = 200
          /\ translated.ok
          /\ pc' = "answer"
          /\ flight' = translated.value
          /\ asked' = Nothing
          /\ UNCHANGED <<client, wants, history, request, route, reply, status, failed, made,
                         portable>>

generateChat ==
    /\ route.protocol = "chat"
    /\ \/ Send(Chat!ToChatRequest(flight))
       \/ Receive(Chat!FromChatResponse(flight, asked))

generateResponses ==
    /\ route.protocol = "responses"
    /\ \/ Send(IF Responses!WithinLimit(flight) THEN Responses!ToProviderRequest(flight)
               ELSE Refused)
       \/ Receive(Responses!ToIRResponse(flight, asked))

generateMessages ==
    /\ route.protocol = "anthropic"
    /\ \/ Send(Messages!ToMessageRequest(flight))
       \/ Receive(Messages!ToIRResponse(flight, asked))

generateGemini ==
    /\ route.protocol = "gemini"
    /\ \/ Send(Content!ToProviderRequest(flight))
       \/ Receive(Content!ToIRResponse(flight, asked))

-----------------------------------------------------------------------------
(***************************************************************************)
(* The provider and the client.                                            *)
(***************************************************************************)
Talk ==
    By(route.protocol, Chat!Talk, Responses!Talk, Messages!Talk, Content!Talk)
ToolReplies ==
    By(route.protocol, Chat!ToolReplies(request), Responses!ToolReplies(request),
       Messages!ToolReplies(request), Content!ToolReplies(request, route.model))
OddReplies ==
    By(route.protocol, Chat!OddReplies(request), Responses!OddReplies(request),
       Messages!OddReplies(request), Content!OddReplies(request, route.model))

Final == wants # Plain \/ request = MaxRequests

Replied(body) ==
    /\ pc' = "reply"
    /\ flight' = body
    /\ reply' = [code |-> 200, body |-> body]
    /\ UNCHANGED <<client, wants, history, request, route, asked, status, failed, made,
                   portable>>

\* Bound: the last request of a conversation is answered with text.
Provider ==
    /\ pc = "provider"
    /\ \/ Replied(Talk)
       \/ ~Final /\ \E body \in ToolReplies \cup OddReplies : Replied(body)
       \/ \E code \in {429, 500} :     \* 500 stands for no answer, too
             /\ pc' = "reply"
             /\ flight' = Nothing
             /\ reply' = [code |-> code]
             /\ UNCHANGED <<client, wants, history, request, route, asked, status, failed,
                            made, portable>>

\* What the provider said, if anything, is complete text or calls and has nothing
\* in it but what every protocol can express.
OrdinaryReply ==
    \/ reply = Nothing
    \/ reply.code # 200
    \/ reply.body \in {Talk} \cup ToolReplies

AskWith(protocol, messages) ==
    By(protocol, Chat!Ask(wants, messages), Responses!Ask(wants, messages),
       Messages!Ask(wants, messages), Content!Ask(wants, messages))

\* A request with the history so far: the first, or again after a failure.
Ask(messages) ==
    /\ request < IF wants = Plain THEN MaxRequests ELSE 1
    /\ request' = request + 1
    /\ route' \in Routes
    /\ pc' = "gateway"
    /\ history' = messages
    /\ flight' = AskWith(client.protocol, messages)
    /\ reply' = Nothing
    /\ status' = 0
    /\ failed' = "-"
    /\ UNCHANGED <<client, wants, asked>>

AskAgain ==
    /\ pc = "client"
    /\ status # 200
    /\ Ask(history)
    /\ UNCHANGED <<made, portable>>

ReadAnswer(protocol, body) ==
    By(protocol, Chat!Read(body), Responses!Read(body), Messages!Read(body),
       Content!Read(body))

Echo(body) ==
    By(client.protocol, Chat!Echo(body), Responses!Echo(body), Messages!Echo(body),
       Content!Echo(body, client.style))

Results(body, order, form, isError) ==
    By(client.protocol, Chat!Results(body, order), Responses!Results(body, order, form),
       Messages!Results(body, order, form, isError), Content!Results(body, order, client.style))

Forms ==
    By(client.protocol, {"text"}, {"text", "json", "image"}, {"text", "image"}, {"object"})

\* The orders in which n calls may be answered.
Orders(n) == IF client.style = "ids" THEN SetToSeqs(1..n) ELSE {[k \in 1..n |-> k]}

\* The signature that call k of the answer has, for a client that keeps it.
Signature(k) ==
    IF client.protocol # "gemini" THEN NoSignature
    ELSE OfType(flight.parts, "functionCall")[k].signature

\* The client makes the calls of the answer and sends their results.
AskWithResults ==
    /\ pc = "client"
    /\ status = 200
    /\ LET calls == ReadAnswer(client.protocol, flight).calls
       IN  /\ calls # << >>
           /\ \E order \in Orders(Len(calls)), form \in Forms, isError \in BOOLEAN :
                 /\ isError => client.protocol = "anthropic"
                 /\ Ask(history \o Echo(flight) \o Results(flight, order, form, isError))
                 /\ portable' = (portable /\ OrdinaryReply /\ form # "image" /\ ~isError)
                 /\ made' = made \o [k \in DOMAIN calls |->
                       [name |-> calls[k].name, arguments |-> calls[k].arguments,
                        signature |-> Signature(k), isError |-> isError]]

\* The client goes on after an answer without calls.
AskMore ==
    /\ pc = "client"
    /\ status = 200
    /\ ReadAnswer(client.protocol, flight).calls = << >>
    /\ Ask(history \o Echo(flight) \o Opening(client.protocol, <<Text>>))
    /\ portable' = (portable /\ OrdinaryReply)
    /\ made' = made

Next ==
    \/ createChatCompletion \/ createResponse \/ createMessage \/ generateContent
    \/ generateChat \/ generateResponses \/ generateMessages \/ generateGemini
    \/ Abandon \/ Provider \/ AskAgain \/ AskWithResults \/ AskMore

Spec == Init /\ [][Next]_vars

-----------------------------------------------------------------------------
\* Every variable has its type; what is on its way to an adapter, and what an
\* adapter answers, is valid IR (Request.Validate, Response.Validate).
TypeOK ==
    /\ client \in Clients
    /\ request \in 0..MaxRequests
    /\ route \in Routes \cup {NoRoute}
    /\ pc \in {"client", "gateway", "adapter", "provider", "reply", "answer"}
    /\ pc = "adapter" => RequestValid(flight)
    /\ pc = "answer" => ResponseValid(flight)
    /\ status \in {0, 200, 400, 429, 502, 504}
    /\ failed \in {"-", "request", "adapter", "resolve", "provider", "reply", "answer", "lost"}
    /\ portable \in BOOLEAN

\* What the provider has before it.
Seen ==
    By(route.protocol, Chat!Seen(flight), Responses!Seen(flight), Messages!Seen(flight),
       Content!Seen(flight))

(***************************************************************************)
(* A history that every protocol can express, with the calls of the        *)
(* answers so far and their results, is always accepted again, by the      *)
(* client's gateway and by whatever adapter the request is routed to; and  *)
(* an ordinary reply to it reaches the client in both translations.  Any   *)
(* other reply (one of Anthropic that names a dated snapshot of the model, *)
(* one of Gemini with a signature beside its text) may be refused with a   *)
(* 502, and the same history is then still good for the next request.      *)
(***************************************************************************)
HistoryAccepted ==
    portable =>
        /\ failed \notin {"request", "adapter"}
        /\ OrdinaryReply => failed \notin {"reply", "answer"}

(***************************************************************************)
(* The provider sees every call that was made, once and in order, under    *)
(* IDs that are unique, and after each call the result of that very call,  *)
(* once, whatever protocols and IDs came between.                          *)
(***************************************************************************)
ResultsPaired ==
    pc = "provider" =>
        LET parts == Seen.parts
            Calls == {i \in DOMAIN parts : parts[i].type = "call"}
            Results_ == DOMAIN parts \ Calls
            calls == OfType(parts, "call")
        IN  /\ [k \in DOMAIN calls |-> <<calls[k].name, calls[k].arguments>>]
                   = [k \in DOMAIN made |-> <<made[k].name, made[k].arguments>>]
            /\ \A i, j \in Calls : i # j => parts[i].id # parts[j].id
            /\ \A i \in Calls :
                  /\ \E j \in Results_ : j > i /\ parts[j].id = parts[i].id
                  /\ \A j \in Results_ : parts[j].id = parts[i].id =>
                        /\ parts[j].outcome = parts[i].arguments
                        /\ parts[j].name \in {NoName, parts[i].name}
            /\ Cardinality(Results_) = Cardinality(Calls)

(***************************************************************************)
(* Gemini 3 never sees a call without a signature, and gets back the one   *)
(* that its own call had if the client was able to keep it.                *)
(***************************************************************************)
CallsSigned ==
    (pc = "provider" /\ route.protocol = "gemini") =>
        LET calls == OfType(Seen.parts, "call")
        IN  \A k \in DOMAIN calls :
                /\ route.model = Content!Gemini3 => calls[k].signature # NoSignature
                /\ made[k].signature # NoSignature => calls[k].signature = made[k].signature

(***************************************************************************)
(* The result of a failed tool call is not presented to the provider as    *)
(* that of a successful one.  OpenAI Chat, whose tool messages have no     *)
(* such flag, is the exception: the adapter leaves it out.                 *)
(***************************************************************************)
FailuresMarked ==
    (pc = "provider" /\ route.protocol # "chat") =>
        \A part \in ToSet(Seen.parts) : part.type = "result" =>
            \A k \in DOMAIN made :
                (made[k].arguments = part.outcome /\ made[k].isError) => part.isError

(***************************************************************************)
(* What the client demands is what the provider is asked for: tools,       *)
(* choice, parallel calls, token limit and stop sequences survive two      *)
(* translations, or the request is refused.  No choice means auto.         *)
(***************************************************************************)
Mode(mode) == IF mode = "-" THEN "auto" ELSE mode

DemandsKept ==
    pc = "provider" =>
        /\ ~wants.extras
        /\ Seen.tools = wants.tools
        /\ wants.tools # << >> =>
              /\ Mode(Seen.mode) = Mode(wants.mode)
              /\ wants.mode = "named" => Seen.name = wants.name
              /\ wants.mode # "none" => Seen.parallel = wants.parallel
        /\ wants.max # {} => Seen.max = wants.max
        /\ wants.stop = Seen.stop

(***************************************************************************)
(* What the client said first is what the provider sees: the system prompt *)
(* and the images survive two translations, or the request is refused.     *)
(***************************************************************************)
PromptKept ==
    pc = "provider" =>
        /\ Seen.system
        /\ Seen.images = (IF wants.image = "-" THEN << >> ELSE <<Image(wants.image)>>)

(***************************************************************************)
(* 400 tells the client that no provider was asked, 429 that the provider  *)
(* refused for its rate limit, 200 that the provider answered.             *)
(***************************************************************************)
StatusTells ==
    pc = "client" =>
        /\ status = 400 => reply = Nothing /\ failed = "request"
        /\ status = 429 => reply = [code |-> 429]
        /\ status = 200 => reply # Nothing /\ reply.code = 200

(***************************************************************************)
(* The answer has the calls of the provider's reply, in their order, and   *)
(* tells whether it is complete, cut short or filtered.                    *)
(***************************************************************************)
AnswerKept ==
    (pc = "client" /\ status = 200) =>
        LET answer == ReadAnswer(client.protocol, flight)
            origin == ReadAnswer(route.protocol, reply.body)
        IN  /\ answer.ended = origin.ended
            /\ [k \in DOMAIN answer.calls |-> <<answer.calls[k].name, answer.calls[k].arguments>>]
                   = [k \in DOMAIN origin.calls |->
                         <<origin.calls[k].name, origin.calls[k].arguments>>]

(***************************************************************************)
(* The answer reports the tokens that the provider counted: all input      *)
(* tokens, those read from a cache, and all output tokens.                 *)
(***************************************************************************)
UsageKept ==
    (pc = "client" /\ status = 200) =>
        ReadAnswer(client.protocol, flight).usage
            = ReadAnswer(route.protocol, reply.body).usage
=============================================================================
