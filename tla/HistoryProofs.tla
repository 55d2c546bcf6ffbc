--------------------------- MODULE HistoryProofs ----------------------------
(***************************************************************************)
(* Proofs about Conversation: what the history carries from one request to *)
(* the next. Whatever clients, gateways and providers made of it, the      *)
(* provider sees the calls that were made, each with its result (Keeping,  *)
(* Dating).                                                                *)
(***************************************************************************)
EXTENDS ConversationProofs

-----------------------------------------------------------------------------
(***************************************************************************)
(* One round of a client: the echo of an answer and the results of its     *)
(* calls.                                                                  *)
(***************************************************************************)
\* The calls of an answer, echoed.
EchoesCalls(C, calls) ==
    /\ IsSeq(C) /\ Len(C) = Len(calls)
    /\ \A k \in 1..Len(calls) : /\ C[k].id = calls[k].id /\ C[k].name = calls[k].name
                                /\ C[k].arguments = calls[k].arguments
                                /\ C[k].signature = NoSignature
Quiet(E) == \A i \in DOMAIN E : E[i].type \notin {"tool_result", "image"}
Echoes(E, calls) == IsSeq(E) /\ Quiet(E) /\ EchoesCalls(OfType(E, "tool_call"), calls)

\* The results of the calls, in the client's order.
ResultsOf(R, calls, order, isError) ==
    /\ IsSeq(R) /\ Len(R) = Len(calls)
    /\ \A k \in 1..Len(calls) :
          /\ R[k].type = "tool_result" /\ R[k].id = calls[order[k]].id
          /\ R[k].outcome = calls[order[k]].arguments /\ R[k].isError = isError
          /\ isError => R[k].form \in {"text", "image"}

\* The entries of made for the calls of an answer.
Makes(N, calls, isError) ==
    /\ IsSeq(N) /\ IsSeq(calls) /\ Len(N) = Len(calls)
    /\ \A k \in 1..Len(calls) : /\ N[k].name = calls[k].name
                                /\ N[k].arguments = calls[k].arguments
                                /\ N[k].isError = isError
Unsigned(N) == \A k \in 1..Len(N) : N[k].signature = NoSignature

\* The echo of an answer and the results tell of the calls that the client made.
LEMMA RoundMade ==
    ASSUME NEW E, NEW R, NEW N, NEW calls, NEW order, NEW isError, Echoes(E, calls),
           ResultsOf(R, calls, order, isError), Makes(N, calls, isError), Unsigned(N),
           Onto(order, Len(calls))
    PROVE  Faithful(E \o R, N, << >>)
<1>1. PICK C : C = OfType(E, "tool_call")
  OBVIOUS
<1>2. EchoesCalls(C, calls) /\ IsSeq(E) /\ IsSeq(R) /\ Quiet(E)
  BY <1>1 DEF Echoes, ResultsOf
<1>3. PICK n \in Nat : n = Len(calls) /\ n = Len(N) /\ n = Len(C) /\ n = Len(R)
  BY <1>2, IsSeqFields DEF EchoesCalls, Makes, ResultsOf
<1>4. SameCalls(C, N)
  BY <1>2, <1>3 DEF SameCalls, EchoesCalls, Makes, Unsigned
<1>5. AnswersInOrder(R, C, N, order)
  <2> SUFFICES ASSUME NEW k \in 1..n
               PROVE  R[k].type = "tool_result" /\ Answers(R[k], C[order[k]], N[order[k]])
    BY <1>3 DEF AnswersInOrder
  <2>1. PICK j \in 1..n : j = order[k]
    BY <1>3, Zenon DEF Onto
  <2>2. /\ R[k].type = "tool_result" /\ R[k].id = calls[j].id
        /\ R[k].outcome = calls[j].arguments /\ R[k].isError = isError
        /\ isError => R[k].form \in {"text", "image"}
    BY <1>3, <2>1 DEF ResultsOf
  <2>3. C[j].id = calls[j].id
    BY <1>2, <1>3 DEF EchoesCalls
  <2>4. N[j].arguments = calls[j].arguments /\ N[j].isError = isError
    BY <1>3 DEF Makes
  <2> QED
    BY <2>1, <2>2, <2>3, <2>4 DEF Answers
<1>6. \A i \in DOMAIN E : E[i].type \notin {"tool_result", "image"}
  BY <1>2 DEF Quiet
<1> QED
  BY <1>1, <1>2, <1>3, <1>4, <1>5, <1>6, RoundFaithful, Zenon

\* The echo of an answer without calls tells of none.
LEMMA EchoSilent ==
    ASSUME NEW E, Echoes(E, << >>)
    PROVE  Faithful(E, << >>, << >>)
<1>1. IsSeq(E) /\ Quiet(E)
  BY DEF Echoes
<1>2. PICK C : C = OfType(E, "tool_call")
  OBVIOUS
<1>3. IsSeq(C) /\ Len(C) = 0
  BY <1>2 DEF Echoes, EchoesCalls
<1>4. C = << >>
  BY <1>3 DEF IsSeq
<1>5. \A i \in DOMAIN E : E[i].type \notin {"tool_call", "tool_result"} /\ E[i].type # "image"
  BY <1>1, <1>2, <1>4, OfTypeMembers DEF Quiet
<1>6. OfType(E, "image") = << >>
  BY <1>1, <1>5, OfTypeMembers
<1>7. Faithful(E, << >>, OfType(E, "image"))
  BY <1>1, <1>5, FaithfulSilent
<1> QED
  BY <1>6, <1>7

\* A function of the positions of a sequence is a sequence.
LEMMA IsSeqOver ==
    ASSUME NEW s, IsSeq(s), NEW t, t = [k \in DOMAIN s |-> t[k]]
    PROVE  IsSeq(t) /\ Len(t) = Len(s) /\ DOMAIN t = 1..Len(s)
<1>1. Len(s) \in Nat /\ DOMAIN s = 1..Len(s)
  BY IsSeqFields
<1>2. t = [k \in 1..Len(s) |-> t[k]]
  BY <1>1
<1> QED
  BY <1>1, <1>2, IsSeqMap

-----------------------------------------------------------------------------
(* Chat. *)
ToolCalls(calls) ==
    [k \in DOMAIN calls |->
        ToolCall(calls[k].id, calls[k].name, calls[k].arguments, NoSignature)]

\* Calls that are copied are echoed.
LEMMA ToolCallsEcho ==
    ASSUME NEW calls, IsSeq(calls)
    PROVE  /\ EchoesCalls(ToolCalls(calls), calls)
           /\ AllOf(ToolCalls(calls), "tool_call")
<1>1. PICK t : t = ToolCalls(calls)
  OBVIOUS
<1>2. t = [k \in DOMAIN calls |-> t[k]]
  BY <1>1 DEF ToolCalls
<1>3. IsSeq(t) /\ Len(t) = Len(calls) /\ DOMAIN t = 1..Len(calls)
  BY <1>2, IsSeqOver
<1>4. \A k \in 1..Len(calls) :
          t[k] = ToolCall(calls[k].id, calls[k].name, calls[k].arguments, NoSignature)
  BY <1>1, <1>3 DEF ToolCalls
<1>5. \A k \in 1..Len(calls) : /\ t[k].id = calls[k].id /\ t[k].name = calls[k].name
                               /\ t[k].arguments = calls[k].arguments
                               /\ t[k].signature = NoSignature /\ t[k].type = "tool_call"
  <2> SUFFICES ASSUME NEW k \in 1..Len(calls)
               PROVE  /\ t[k].id = calls[k].id /\ t[k].name = calls[k].name
                      /\ t[k].arguments = calls[k].arguments
                      /\ t[k].signature = NoSignature /\ t[k].type = "tool_call"
    OBVIOUS
  <2>1. PICK id, name, arguments : /\ id = calls[k].id /\ name = calls[k].name
                                   /\ arguments = calls[k].arguments
    BY Zenon
  <2>2. t[k] = ToolCall(id, name, arguments, NoSignature)
    BY <1>4, <2>1
  <2> QED
    BY <2>1, <2>2 DEF ToolCall
<1> QED
  BY <1>1, <1>3, <1>5 DEF EchoesCalls, AllOf

\* A Chat client's echo of an answer has its calls.
LEMMA ChatEcho ==
    ASSUME NEW body, IsSeq(body.calls)
    PROVE  /\ Lifts("chat", Chat!Echo(body))
           /\ Echoes(Lifted("chat", Chat!Echo(body)), Chat!Read(body).calls)
<1>1. PICK said, calls : /\ said = (IF body.content THEN <<Text>> ELSE << >>)
                         /\ calls = body.calls
  BY Zenon
<1>2. PICK m : m = Chat!ChatMessage("assistant", said, calls)
  OBVIOUS
<1>3. Chat!Echo(body) = <<m>> /\ Chat!Read(body).calls = calls
  BY <1>1, <1>2 DEF Chat!Echo, Chat!Read, Chat!Text, Text
<1>4. Lift("chat", m) = said \o ToolCalls(calls)
  BY <1>2 DEF Lift, ChatLift, Chat!ChatMessage, ToolCalls
<1>5. IsSeq(said) /\ \A i \in DOMAIN said : said[i].type = "text"
  BY <1>1, IsSeqTuples DEF Text
<1>6. PICK C : C = ToolCalls(calls)
  OBVIOUS
<1>7. EchoesCalls(C, calls) /\ AllOf(C, "tool_call") /\ IsSeq(C)
  BY <1>1, <1>6, ToolCallsEcho DEF EchoesCalls
<1>8. NoneOf(said, "tool_call")
  BY <1>5 DEF NoneOf
<1>9. /\ OfType(said \o C, "tool_call") = C /\ IsSeq(said \o C)
      /\ ToSet(said \o C) = ToSet(said) \cup ToSet(C)
  BY <1>5, <1>7, <1>8, SaidThenCalls
<1>10. PICK E : E = said \o C
  BY Zenon
<1>11. Quiet(E)
  <2> SUFFICES ASSUME NEW i \in DOMAIN E PROVE E[i].type \notin {"tool_result", "image"}
    BY DEF Quiet
  <2>1. E[i] \in ToSet(said) \cup ToSet(C)
    BY <1>9, <1>10 DEF ToSet
  <2> QED
    BY <1>5, <1>7, <2>1 DEF ToSet, AllOf
<1>12. Echoes(E, calls)
  BY <1>7, <1>9, <1>10, <1>11 DEF Echoes
<1>13. Lifts("chat", <<m>>) /\ Lifted("chat", <<m>>) = E
  BY <1>4, <1>6, <1>9, <1>10, LiftedOne, Zenon
<1> QED
  BY <1>3, <1>12, <1>13

\* A Chat client's results are those of the calls of the answer.
LEMMA ChatResults ==
    ASSUME NEW body, IsSeq(body.calls), NEW order, order \in [1..Len(body.calls) -> 1..Len(body.calls)]
    PROVE  /\ Lifts("chat", Chat!Results(body, order))
           /\ ResultsOf(Lifted("chat", Chat!Results(body, order)), Chat!Read(body).calls, order,
                        FALSE)
<1>1. PICK calls, rs : calls = body.calls /\ rs = Chat!Results(body, order)
  OBVIOUS
<1>2. PICK n \in Nat : n = Len(calls) /\ DOMAIN order = 1..n
  BY <1>1, IsSeqFields
<1>3. rs = [k \in 1..n |-> Chat!ToolMessage(calls[order[k]].id, calls[order[k]].arguments)]
  BY <1>1, <1>2 DEF Chat!Results
<1>4. rs = [k \in 1..n |-> rs[k]]
  BY <1>3
<1>5. IsSeq(rs) /\ Len(rs) = n /\ DOMAIN rs = 1..n
  BY <1>3, <1>4, IsSeqMap
<1>6. PICK v : v = [k \in 1..n |-> ToolResult(calls[order[k]].id, NoName, "text",
                                              calls[order[k]].arguments, FALSE)]
  BY Zenon
<1>7. LiftsTo("chat", rs, v)
  <2> SUFFICES ASSUME NEW k \in 1..n PROVE Lift("chat", rs[k]) = <<v[k]>>
    BY <1>5 DEF LiftsTo
  <2>1. PICK id, arguments : id = calls[order[k]].id /\ arguments = calls[order[k]].arguments
    BY Zenon
  <2>2. rs[k] = Chat!ToolMessage(id, arguments) /\ v[k] = ToolResult(id, NoName, "text", arguments, FALSE)
    BY <1>3, <1>6, <2>1
  <2>3. rs[k].role = "tool" /\ rs[k].callID = id /\ rs[k].outcome = arguments
    BY <2>2 DEF Chat!ToolMessage
  <2> QED
    BY <2>2, <2>3 DEF Lift, ChatLift
<1>8. Lifts("chat", rs) /\ Lifted("chat", rs) = [k \in 1..n |-> v[k]]
  BY <1>5, <1>7, LiftedEach
<1>9. [k \in 1..n |-> v[k]] = v
  BY <1>6
<1>10. IsSeq(v) /\ Len(v) = n
  BY <1>9, IsSeqMap
<1>11. ASSUME NEW k \in 1..n
       PROVE  /\ v[k].type = "tool_result" /\ v[k].id = calls[order[k]].id
              /\ v[k].outcome = calls[order[k]].arguments /\ v[k].isError = FALSE
  <2>1. PICK id, arguments : id = calls[order[k]].id /\ arguments = calls[order[k]].arguments
    BY Zenon
  <2>2. v[k] = ToolResult(id, NoName, "text", arguments, FALSE)
    BY <1>6, <2>1
  <2> QED
    BY <2>1, <2>2 DEF ToolResult
<1>12. ResultsOf(v, calls, order, FALSE)
  BY <1>2, <1>10, <1>11, Zenon DEF ResultsOf
<1>13. Chat!Read(body).calls = calls
  BY <1>1 DEF Chat!Read
<1> QED
  BY <1>1, <1>8, <1>9, <1>12, <1>13, Zenon

-----------------------------------------------------------------------------
(* Responses. *)
RespShape(output) ==
    /\ IsSeq(output)
    /\ \A i \in DOMAIN output :
          \/ output[i].type = "function_call"
          \/ /\ output[i].type = "message" /\ IsSeq(output[i].content)
             /\ \A k \in DOMAIN output[i].content : output[i].content[k].type = "output_text"

\* The calls that a Responses client reads.
LEMMA ResponsesCalls ==
    ASSUME NEW body, IsSeq(body.output)
    PROVE  LET calls == OfType(body.output, "function_call")
           IN  /\ IsSeq(calls) /\ IsSeq(Responses!Read(body).calls)
               /\ Len(Responses!Read(body).calls) = Len(calls)
               /\ \A k \in 1..Len(calls) :
                     /\ Responses!Read(body).calls[k].id = calls[k].id
                     /\ Responses!Read(body).calls[k].name = calls[k].name
                     /\ Responses!Read(body).calls[k].arguments = calls[k].arguments
<1>1. PICK calls, read : calls = OfType(body.output, "function_call") /\ read = Responses!Read(body).calls
  OBVIOUS
<1>2. IsSeq(calls)
  BY <1>1, OfTypeMembers
<1>3. read = [k \in DOMAIN calls |-> [id |-> calls[k].id, name |-> calls[k].name,
                                      arguments |-> calls[k].arguments]]
  BY <1>1, ResponsesSequences DEF Responses!Read, Responses!OutputCalls
<1>4. read = [k \in DOMAIN calls |-> read[k]]
  BY <1>3
<1>5. IsSeq(read) /\ Len(read) = Len(calls) /\ DOMAIN calls = 1..Len(calls)
  BY <1>2, <1>4, IsSeqOver, IsSeqFields
<1>6. \A k \in 1..Len(calls) : /\ read[k].id = calls[k].id /\ read[k].name = calls[k].name
                               /\ read[k].arguments = calls[k].arguments
  BY <1>3, <1>5
<1> QED
  BY <1>1, <1>2, <1>5, <1>6

\* A Responses client's echo of an answer has its calls.
LEMMA ResponsesEcho ==
    ASSUME NEW body, RespShape(body.output)
    PROVE  /\ Lifts("responses", Responses!Echo(body))
           /\ Echoes(Lifted("responses", Responses!Echo(body)), Responses!Read(body).calls)
<1>1. PICK out : out = body.output
  OBVIOUS
<1>2. Responses!Echo(body) = out
  BY <1>1 DEF Responses!Echo
<1>3. IsSeq(out) /\ Len(out) \in Nat /\ DOMAIN out = 1..Len(out)
  BY <1>1, IsSeqFields DEF RespShape
<1>4. ASSUME NEW i \in DOMAIN out, out[i].type = "function_call"
      PROVE  Lift("responses", out[i])
                 = <<ToolCall(out[i].id, out[i].name, out[i].arguments, NoSignature)>>
  BY <1>4 DEF Lift, RespLift
<1>5. ASSUME NEW i \in DOMAIN out, out[i].type # "function_call"
      PROVE  /\ IsSeq(Lift("responses", out[i]))
             /\ \A k \in DOMAIN Lift("responses", out[i]) : Lift("responses", out[i])[k] = Text
  <2>1. PICK content, row : content = out[i].content /\ row = Lift("responses", out[i])
    OBVIOUS
  <2>2. /\ out[i].type = "message" /\ IsSeq(content)
        /\ \A k \in DOMAIN content : content[k].type = "output_text"
    BY <1>1, <1>5, <2>1 DEF RespShape
  <2>3. row = [k \in DOMAIN content |->
                  IF content[k].type = "output_text" THEN Text ELSE content[k]]
    BY <2>1, <2>2 DEF Lift, RespLift
  <2>4. row = [k \in DOMAIN content |-> row[k]] /\ \A k \in DOMAIN row : row[k] = Text
    BY <2>2, <2>3
  <2> QED
    BY <2>1, <2>2, <2>4, IsSeqOver
<1>6. Lifts("responses", out)
  BY <1>3, <1>4, <1>5, IsSeqTuples DEF Lifts
<1>7. PICK ss, E : ss = LiftRows("responses", out) /\ E = Lifted("responses", out)
  OBVIOUS
<1>8. AreRows(ss, Len(out)) /\ E = FlattenSeq(ss) /\ \A i \in DOMAIN out : ss[i] = Lift("responses", out[i])
  BY <1>3, <1>6, <1>7, LiftedRows DEF Lifted, LiftRows
<1>9. RowFor(out, ss, "function_call", "tool_call")
  <2> SUFFICES ASSUME NEW i \in DOMAIN out
               PROVE  \/ out[i].type = "function_call" /\ Len(OfType(ss[i], "tool_call")) = 1
                      \/ out[i].type # "function_call" /\ OfType(ss[i], "tool_call") = << >>
    BY DEF RowFor
  <2>1. CASE out[i].type = "function_call"
    <3>1. PICK x : x = ToolCall(out[i].id, out[i].name, out[i].arguments, NoSignature)
      OBVIOUS
    <3>2. x.type = "tool_call" /\ ss[i] = <<x>>
      BY <1>4, <1>8, <2>1, <3>1 DEF ToolCall
    <3> QED
      BY <2>1, <3>2, OfTypeOne
  <2>2. CASE out[i].type # "function_call"
    <3>1. PICK row : row = ss[i]
      OBVIOUS
    <3>2. IsSeq(row) /\ \A k \in DOMAIN row : row[k] = Text
      BY <1>5, <1>8, <2>2, <3>1
    <3>3. \A k \in DOMAIN row : row[k].type # "tool_call"
      BY <3>2 DEF Text
    <3> QED
      BY <2>2, <3>1, <3>2, <3>3, OfTypeMembers
  <2> QED
    BY <2>1, <2>2
<1>10. RowsAlike(out, ss, "function_call", "tool_call")
  BY <1>3, <1>8, <1>9, RowsAligned
<1>11. PICK items, C : items = OfType(out, "function_call") /\ C = OfType(E, "tool_call")
  OBVIOUS
<1>12. /\ IsSeq(E) /\ IsSeq(items) /\ IsSeq(C) /\ Len(items) = Len(C)
       /\ \A j \in 1..Len(items) : \E i \in DOMAIN out :
             /\ out[i].type = "function_call" /\ items[j] = out[i]
             /\ C[j] = OfType(ss[i], "tool_call")[1]
  BY <1>8, <1>10, <1>11 DEF RowsAlike
<1>13. ASSUME NEW j \in 1..Len(items)
       PROVE  C[j] = ToolCall(items[j].id, items[j].name, items[j].arguments, NoSignature)
  <2>1. PICK i \in DOMAIN out : /\ out[i].type = "function_call" /\ items[j] = out[i]
                                /\ C[j] = OfType(ss[i], "tool_call")[1]
    BY <1>12
  <2>2. PICK x : x = ToolCall(out[i].id, out[i].name, out[i].arguments, NoSignature)
    OBVIOUS
  <2>3. x.type = "tool_call" /\ ss[i] = <<x>>
    BY <1>4, <1>8, <2>1, <2>2 DEF ToolCall
  <2>4. OfType(ss[i], "tool_call") = <<x>>
    BY <2>3, OfTypeOne
  <2> QED
    BY <2>1, <2>2, <2>4
<1>14. PICK calls : calls = Responses!Read(body).calls
  OBVIOUS
<1>15. /\ Len(calls) = Len(items)
       /\ \A k \in 1..Len(items) : /\ calls[k].id = items[k].id /\ calls[k].name = items[k].name
                                   /\ calls[k].arguments = items[k].arguments
  BY <1>1, <1>3, <1>11, <1>14, ResponsesCalls
<1>16. EchoesCalls(C, calls)
  <2> SUFFICES ASSUME NEW k \in 1..Len(items)
               PROVE  /\ C[k].id = calls[k].id /\ C[k].name = calls[k].name
                      /\ C[k].arguments = calls[k].arguments /\ C[k].signature = NoSignature
    BY <1>12, <1>15 DEF EchoesCalls
  <2>1. PICK id, name, arguments : /\ id = items[k].id /\ name = items[k].name
                                   /\ arguments = items[k].arguments
    BY Zenon
  <2>2. C[k] = ToolCall(id, name, arguments, NoSignature)
    BY <1>13, <2>1
  <2>3. /\ C[k].id = id /\ C[k].name = name /\ C[k].arguments = arguments
        /\ C[k].signature = NoSignature
    BY <2>2 DEF ToolCall
  <2> QED
    BY <1>15, <2>1, <2>3
<1>17. Quiet(E)
  <2> SUFFICES ASSUME NEW j \in DOMAIN E PROVE E[j].type \notin {"tool_result", "image"}
    BY DEF Quiet
  <2>1. E[j] \in ToSet(FlattenSeq(ss))
    BY <1>8 DEF ToSet
  <2>2. PICK i \in 1..Len(out) : E[j] \in ToSet(ss[i])
    BY <1>3, <1>8, <2>1, FlattenMembers
  <2>3. PICK row : row = ss[i]
    OBVIOUS
  <2>4. CASE out[i].type = "function_call"
    <3>1. PICK x : x = ToolCall(out[i].id, out[i].name, out[i].arguments, NoSignature)
      OBVIOUS
    <3>2. x.type = "tool_call" /\ ss[i] = <<x>>
      BY <1>3, <1>4, <1>8, <2>4, <3>1 DEF ToolCall
    <3> QED
      BY <2>2, <3>2, IsSeqTuples
  <2>5. CASE out[i].type # "function_call"
    <3>1. \A k \in DOMAIN row : row[k] = Text
      BY <1>3, <1>5, <1>8, <2>3, <2>5
    <3> QED
      BY <2>2, <2>3, <3>1 DEF ToSet, Text
  <2> QED
    BY <2>4, <2>5
<1>18. Echoes(E, calls)
  BY <1>11, <1>12, <1>16, <1>17 DEF Echoes
<1> QED
  BY <1>2, <1>6, <1>7, <1>14, <1>18

\* A Responses client's results are those of the calls of the answer.
LEMMA ResponsesResults ==
    ASSUME NEW body, IsSeq(body.output), NEW calls, calls = Responses!Read(body).calls,
           NEW order, order \in [1..Len(calls) -> 1..Len(calls)], NEW form
    PROVE  /\ Lifts("responses", Responses!Results(body, order, form))
           /\ ResultsOf(Lifted("responses", Responses!Results(body, order, form)), calls, order,
                        FALSE)
<1>1. PICK items, rs : /\ items = OfType(body.output, "function_call")
                       /\ rs = Responses!Results(body, order, form)
  OBVIOUS
<1>2. /\ IsSeq(items) /\ IsSeq(calls) /\ Len(calls) = Len(items)
      /\ \A k \in 1..Len(items) : /\ calls[k].id = items[k].id
                                  /\ calls[k].arguments = items[k].arguments
  BY <1>1, ResponsesCalls
<1>3. PICK n \in Nat : n = Len(calls) /\ DOMAIN order = 1..n
  BY <1>2, IsSeqFields
<1>4. rs = [k \in 1..n |-> Responses!OutputItem(items[order[k]].id, form, items[order[k]].arguments)]
  BY <1>1, <1>3, ResponsesSequences DEF Responses!Results, Responses!OutputCalls
<1>5. rs = [k \in 1..n |-> rs[k]]
  BY <1>4
<1>6. IsSeq(rs) /\ Len(rs) = n /\ DOMAIN rs = 1..n
  BY <1>5, IsSeqMap
<1>7. PICK given : given = IF form = "json" THEN "object" ELSE form
  OBVIOUS
<1>8. PICK v : v = [k \in 1..n |-> ToolResult(items[order[k]].id, NoName, given,
                                              items[order[k]].arguments, FALSE)]
  BY Zenon
<1>9. LiftsTo("responses", rs, v)
  <2> SUFFICES ASSUME NEW k \in 1..n PROVE Lift("responses", rs[k]) = <<v[k]>>
    BY <1>6 DEF LiftsTo
  <2>1. PICK id, arguments : id = items[order[k]].id /\ arguments = items[order[k]].arguments
    BY Zenon
  <2>2. /\ rs[k] = Responses!OutputItem(id, form, arguments)
        /\ v[k] = ToolResult(id, NoName, given, arguments, FALSE)
    BY <1>4, <1>8, <2>1
  <2>3. /\ rs[k].type = "function_call_output" /\ rs[k].id = id /\ rs[k].form = form
        /\ rs[k].outcome = arguments
    BY <2>2 DEF Responses!OutputItem
  <2> QED
    BY <1>7, <2>2, <2>3 DEF Lift, RespLift
<1>10. Lifts("responses", rs) /\ Lifted("responses", rs) = [k \in 1..n |-> v[k]]
  BY <1>6, <1>9, LiftedEach
<1>11. [k \in 1..n |-> v[k]] = v
  BY <1>8
<1>12. IsSeq(v) /\ Len(v) = n
  BY <1>11, IsSeqMap
<1>13. ASSUME NEW k \in 1..n
       PROVE  /\ v[k].type = "tool_result" /\ v[k].id = calls[order[k]].id
              /\ v[k].outcome = calls[order[k]].arguments /\ v[k].isError = FALSE
  <2>1. PICK j \in 1..n : j = order[k]
    BY <1>3
  <2>2. PICK id, arguments : id = items[j].id /\ arguments = items[j].arguments
    BY Zenon
  <2>3. v[k] = ToolResult(id, NoName, given, arguments, FALSE)
    BY <1>8, <2>1, <2>2
  <2>4. id = calls[j].id /\ arguments = calls[j].arguments
    BY <1>2, <1>3, <2>2
  <2> QED
    BY <2>1, <2>3, <2>4 DEF ToolResult
<1>14. ResultsOf(v, calls, order, FALSE)
  BY <1>3, <1>12, <1>13, Zenon DEF ResultsOf
<1> QED
  BY <1>1, <1>10, <1>11, <1>14, Zenon

-----------------------------------------------------------------------------
(* Anthropic. *)
AnthShape(content) ==
    IsSeq(content) /\ \A k \in DOMAIN content : content[k].type \in {"text", "tool_use"}

\* The calls that an Anthropic client reads.
LEMMA AnthropicCalls ==
    ASSUME NEW body, IsSeq(body.content)
    PROVE  LET uses == OfType(body.content, "tool_use")
           IN  /\ IsSeq(uses) /\ IsSeq(Messages!Read(body).calls)
               /\ Len(Messages!Read(body).calls) = Len(uses)
               /\ \A k \in 1..Len(uses) :
                     /\ Messages!Read(body).calls[k].id = uses[k].id
                     /\ Messages!Read(body).calls[k].name = uses[k].name
                     /\ Messages!Read(body).calls[k].arguments = uses[k].input
<1>1. PICK calls, read : calls = OfType(body.content, "tool_use") /\ read = Messages!Read(body).calls
  OBVIOUS
<1>2. IsSeq(calls)
  BY <1>1, OfTypeMembers
<1>3. read = [k \in DOMAIN calls |-> [id |-> calls[k].id, name |-> calls[k].name,
                                      arguments |-> calls[k].input]]
  BY <1>1, MessagesSequences DEF Messages!Read
<1>4. read = [k \in DOMAIN calls |-> read[k]]
  BY <1>3
<1>5. IsSeq(read) /\ Len(read) = Len(calls) /\ DOMAIN calls = 1..Len(calls)
  BY <1>2, <1>4, IsSeqOver, IsSeqFields
<1>6. \A k \in 1..Len(calls) : /\ read[k].id = calls[k].id /\ read[k].name = calls[k].name
                               /\ read[k].arguments = calls[k].input
  BY <1>3, <1>5
<1> QED
  BY <1>1, <1>2, <1>5, <1>6

\* An Anthropic client's echo of an answer has its calls.
LEMMA AnthropicEcho ==
    ASSUME NEW body, AnthShape(body.content)
    PROVE  /\ Lifts("anthropic", Messages!Echo(body))
           /\ Echoes(Lifted("anthropic", Messages!Echo(body)), Messages!Read(body).calls)
<1>1. PICK content, m : content = body.content /\ m = Messages!Message("assistant", content)
  OBVIOUS
<1>2. Messages!Echo(body) = <<m>> /\ m.content = content
  BY <1>1 DEF Messages!Echo, Messages!Message
<1>3. PICK E : E = Lift("anthropic", m)
  OBVIOUS
<1>4. E = [k \in DOMAIN content |-> AnthBlock(content[k])]
  BY <1>2, <1>3 DEF Lift, AnthLift
<1>5. E = [k \in DOMAIN content |-> E[k]]
  BY <1>4
<1>6. IsSeq(content) /\ \A k \in DOMAIN content : content[k].type \in {"text", "tool_use"}
  BY <1>1 DEF AnthShape
<1>7. IsSeq(E) /\ DOMAIN E = DOMAIN content
  BY <1>5, <1>6, IsSeqOver, IsSeqFields
<1>8. Lifts("anthropic", <<m>>) /\ Lifted("anthropic", <<m>>) = E
  BY <1>3, <1>7, LiftedOne
<1>9. \A k \in DOMAIN content :
          /\ content[k].type = "tool_use" =>
                E[k] = ToolCall(content[k].id, content[k].name, content[k].input, NoSignature)
          /\ content[k].type # "tool_use" => E[k] = content[k]
  BY <1>4, <1>6 DEF AnthBlock
<1>10. \A k \in DOMAIN content : content[k].type = "tool_use" <=> E[k].type = "tool_call"
  <2> SUFFICES ASSUME NEW k \in DOMAIN content
               PROVE  content[k].type = "tool_use" <=> E[k].type = "tool_call"
    OBVIOUS
  <2>1. CASE content[k].type = "tool_use"
    <3>1. PICK id, name, input : /\ id = content[k].id /\ name = content[k].name
                                 /\ input = content[k].input
      OBVIOUS
    <3>2. E[k] = ToolCall(id, name, input, NoSignature)
      BY <1>9, <2>1, <3>1
    <3>3. E[k].type = "tool_call"
      BY <3>2 DEF ToolCall
    <3> QED
      BY <2>1, <3>3
  <2>2. CASE content[k].type = "text"
    BY <1>9, <2>2
  <2> QED
    BY <1>6, <2>1, <2>2
<1>11. Mirrors(E, content, "tool_call", "tool_use")
  BY <1>5, <1>10 DEF Mirrors
<1>12. Aligned(E, content, "tool_call", "tool_use")
  BY <1>6, <1>11, MirrorAligned
<1>13. PICK uses, C : uses = OfType(content, "tool_use") /\ C = OfType(E, "tool_call")
  OBVIOUS
<1>14. /\ IsSeq(uses) /\ IsSeq(C) /\ Len(uses) = Len(C)
       /\ \A j \in 1..Len(uses) : \E k \in DOMAIN content :
             content[k].type = "tool_use" /\ uses[j] = content[k] /\ C[j] = E[k]
  BY <1>12, <1>13 DEF Aligned
<1>15. PICK calls : calls = Messages!Read(body).calls
  OBVIOUS
<1>16. /\ Len(calls) = Len(uses)
       /\ \A k \in 1..Len(uses) : /\ calls[k].id = uses[k].id /\ calls[k].name = uses[k].name
                                  /\ calls[k].arguments = uses[k].input
  BY <1>1, <1>6, <1>13, <1>15, AnthropicCalls
<1>17. EchoesCalls(C, calls)
  <2> SUFFICES ASSUME NEW j \in 1..Len(uses)
               PROVE  /\ C[j].id = calls[j].id /\ C[j].name = calls[j].name
                      /\ C[j].arguments = calls[j].arguments /\ C[j].signature = NoSignature
    BY <1>14, <1>16 DEF EchoesCalls
  <2>1. PICK k \in DOMAIN content : content[k].type = "tool_use" /\ uses[j] = content[k] /\ C[j] = E[k]
    BY <1>14
  <2>2. PICK id, name, input : /\ id = uses[j].id /\ name = uses[j].name
                               /\ input = uses[j].input
    BY Zenon
  <2>3. C[j] = ToolCall(id, name, input, NoSignature)
    BY <1>9, <2>1, <2>2
  <2>4. /\ C[j].id = id /\ C[j].name = name /\ C[j].arguments = input
        /\ C[j].signature = NoSignature
    BY <2>3 DEF ToolCall
  <2> QED
    BY <1>16, <2>2, <2>4
<1>18. Quiet(E)
  <2> SUFFICES ASSUME NEW k \in DOMAIN content PROVE E[k].type \notin {"tool_result", "image"}
    BY <1>7 DEF Quiet
  <2>1. CASE content[k].type = "tool_use"
    BY <1>10, <2>1
  <2>2. CASE content[k].type = "text"
    BY <1>9, <2>2
  <2> QED
    BY <1>6, <2>1, <2>2
<1>19. Echoes(E, calls)
  BY <1>7, <1>13, <1>17, <1>18 DEF Echoes
<1> QED
  BY <1>2, <1>8, <1>15, <1>19

\* An Anthropic client's results are those of the calls of the answer.
LEMMA AnthropicResults ==
    ASSUME NEW body, IsSeq(body.content), NEW calls, calls = Messages!Read(body).calls,
           NEW order, order \in [1..Len(calls) -> 1..Len(calls)],
           NEW form \in {"text", "image"}, NEW isError
    PROVE  /\ Lifts("anthropic", Messages!Results(body, order, form, isError))
           /\ ResultsOf(Lifted("anthropic", Messages!Results(body, order, form, isError)), calls,
                        order, isError)
<1>1. PICK uses : uses = OfType(body.content, "tool_use")
  OBVIOUS
<1>2. /\ IsSeq(uses) /\ IsSeq(calls) /\ Len(calls) = Len(uses)
      /\ \A k \in 1..Len(uses) : /\ calls[k].id = uses[k].id
                                 /\ calls[k].arguments = uses[k].input
  BY <1>1, AnthropicCalls
<1>3. PICK n \in Nat : n = Len(calls) /\ DOMAIN order = 1..n
  BY <1>2, IsSeqFields
<1>4. PICK blocks, m :
          /\ blocks = [k \in 1..n |-> Messages!ResultBlock(uses[order[k]].id, form,
                                                           uses[order[k]].input, isError)]
          /\ m = Messages!Message("user", blocks)
  BY Zenon
<1>5. Messages!Results(body, order, form, isError) = <<m>>
  BY <1>1, <1>3, <1>4, MessagesSequences, Zenon DEF Messages!Results
<1>6. PICK v : v = Lift("anthropic", m)
  OBVIOUS
<1>7. v = [k \in 1..n |-> AnthBlock(blocks[k])]
  BY <1>4, <1>6 DEF Lift, AnthLift, Messages!Message
<1>8. v = [k \in 1..n |-> v[k]]
  BY <1>7
<1>9. IsSeq(v) /\ Len(v) = n
  BY <1>8, IsSeqMap
<1>10. Lifts("anthropic", <<m>>) /\ Lifted("anthropic", <<m>>) = v
  BY <1>6, <1>9, LiftedOne
<1>11. ASSUME NEW k \in 1..n
       PROVE  /\ v[k].type = "tool_result" /\ v[k].id = calls[order[k]].id
              /\ v[k].outcome = calls[order[k]].arguments /\ v[k].isError = isError
              /\ v[k].form \in {"text", "image"}
  <2>1. PICK j \in 1..n : j = order[k]
    BY <1>3
  <2>2. PICK id, input, b : /\ id = uses[j].id /\ input = uses[j].input
                            /\ b = Messages!ResultBlock(id, form, input, isError)
    BY Zenon
  <2>3. blocks[k] = b
    BY <1>4, <2>1, <2>2
  <2>4. /\ b.type = "tool_result" /\ b.id = id /\ b.form = form /\ b.outcome = input
        /\ b.isError = isError
    BY <2>2 DEF Messages!ResultBlock
  <2>5. v[k] = ToolResult(id, NoName, form, input, isError)
    BY <1>7, <2>3, <2>4 DEF AnthBlock
  <2>6. id = calls[j].id /\ input = calls[j].arguments
    BY <1>2, <1>3, <2>2
  <2> QED
    BY <2>1, <2>5, <2>6 DEF ToolResult
<1>12. ResultsOf(v, calls, order, isError)
  BY <1>3, <1>9, <1>11 DEF ResultsOf
<1> QED
  BY <1>5, <1>10, <1>12

-----------------------------------------------------------------------------
(***************************************************************************)
(* The Gemini gateway, whose histories have calls without IDs: a response  *)
(* is given to the first open call that it fits.                           *)
(***************************************************************************)
\* The translation of a content, part by part.
Steps(f, rid, d, parts, n) ==
    f = [k \in 0..n |-> IF k = 0 THEN [d EXCEPT !.content = << >>]
                        ELSE Content!TranslatePart(rid, f[k - 1], parts[k])]

\* The translation of a history, content by content.
Start == [messages |-> << >>, content |-> << >>, pending |-> << >>, ok |-> TRUE]
Turns(f, rid, h, n) ==
    f = [i \in 0..n |-> IF i = 0 THEN Start
                        ELSE Content!TranslateContent(rid, f[i - 1], h[i])]

\* TranslatePart is folded along the parts, and there is such a fold.
LEMMA StepsExists ==
    ASSUME NEW rid, NEW d, NEW parts, NEW n \in Nat
    PROVE  \E f : Steps(f, rid, d, parts, n)
<1> DEFINE P == {m \in Nat : \E f : Steps(f, rid, d, parts, m)}
           At(f, i) == Content!TranslatePart(rid, f[i - 1], parts[i])
           Base == [d EXCEPT !.content = << >>]
<1>1. 0 \in P
  <2> DEFINE f == [i \in 0..0 |-> Base]
  <2>1. f = [i \in 0..0 |-> IF i = 0 THEN Base ELSE At(f, i)]
    <3> HIDE DEF At, Base
    <3> QED
      OBVIOUS
  <2>2. Steps(f, rid, d, parts, 0)
    BY <2>1, Zenon DEF Steps
  <2> QED
    BY <2>2
<1>2. ASSUME NEW m \in Nat, m \in P PROVE m + 1 \in P
  <2>1. PICK f : Steps(f, rid, d, parts, m)
    BY <1>2
  <2> DEFINE last == Content!TranslatePart(rid, f[m], parts[m + 1])
             g == [i \in 0..(m + 1) |-> IF i = m + 1 THEN last ELSE f[i]]
  <2>2. f[0] = Base /\ \A i \in 1..m : f[i] = At(f, i)
    <3>1. f = [i \in 0..m |-> IF i = 0 THEN Base ELSE At(f, i)]
      BY <2>1, Zenon DEF Steps
    <3> HIDE DEF At, Base
    <3> QED
      BY <3>1
  <2> HIDE DEF last
  <2>3. \A i \in 0..m : g[i] = f[i]
    OBVIOUS
  <2>4. g[m + 1] = last
    OBVIOUS
  <2>5. g = [i \in 0..(m + 1) |-> g[i]]
    OBVIOUS
  <2> HIDE DEF g, Base
  <2>6. g[m + 1] = At(g, m + 1)
    <3>1. m + 1 - 1 = m /\ g[m] = f[m]
      BY <2>3
    <3> QED
      BY <2>4, <3>1 DEF last
  <2>7. \A i \in 1..m : g[i] = At(g, i)
    <3> SUFFICES ASSUME NEW i \in 1..m PROVE g[i] = At(g, i)
      OBVIOUS
    <3>1. g[i - 1] = f[i - 1] /\ g[i] = f[i]
      BY <2>3
    <3> QED
      BY <2>2, <3>1
  <2>8. ASSUME NEW i \in 0..(m + 1) PROVE g[i] = IF i = 0 THEN Base ELSE At(g, i)
    <3> HIDE DEF At
    <3>1. CASE i = 0
      BY <2>2, <2>3, <3>1
    <3>2. CASE i \in 1..m
      BY <2>7, <3>2
    <3>3. CASE i = m + 1
      BY <2>6, <3>3
    <3> QED
      BY <3>1, <3>2, <3>3
  <2>9. g = [i \in 0..(m + 1) |-> IF i = 0 THEN Base ELSE At(g, i)]
    <3> HIDE DEF At
    <3> QED
      BY <2>5, <2>8
  <2>10. Steps(g, rid, d, parts, m + 1)
    BY <2>9, Zenon DEF Steps, Base
  <2> QED
    BY <2>10
<1> HIDE DEF P
<1>3. Nat \subseteq P
  BY <1>1, <1>2, SetInduction
<1> QED
  BY <1>3 DEF P

\* TranslateContent is folded along the contents, and there is such a fold.
LEMMA TurnsExists ==
    ASSUME NEW rid, NEW h, NEW n \in Nat
    PROVE  \E f : Turns(f, rid, h, n)
<1> DEFINE P == {m \in Nat : \E f : Turns(f, rid, h, m)}
           At(f, i) == Content!TranslateContent(rid, f[i - 1], h[i])
           Base == Start
<1>1. 0 \in P
  <2> DEFINE f == [i \in 0..0 |-> Base]
  <2>1. f = [i \in 0..0 |-> IF i = 0 THEN Base ELSE At(f, i)]
    <3> HIDE DEF At, Base
    <3> QED
      OBVIOUS
  <2>2. Turns(f, rid, h, 0)
    BY <2>1, Zenon DEF Turns
  <2> QED
    BY <2>2
<1>2. ASSUME NEW m \in Nat, m \in P PROVE m + 1 \in P
  <2>1. PICK f : Turns(f, rid, h, m)
    BY <1>2
  <2> DEFINE last == Content!TranslateContent(rid, f[m], h[m + 1])
             g == [i \in 0..(m + 1) |-> IF i = m + 1 THEN last ELSE f[i]]
  <2>2. f[0] = Base /\ \A i \in 1..m : f[i] = At(f, i)
    <3>1. f = [i \in 0..m |-> IF i = 0 THEN Base ELSE At(f, i)]
      BY <2>1, Zenon DEF Turns
    <3> HIDE DEF At, Base
    <3> QED
      BY <3>1
  <2> HIDE DEF last
  <2>3. \A i \in 0..m : g[i] = f[i]
    OBVIOUS
  <2>4. g[m + 1] = last
    OBVIOUS
  <2>5. g = [i \in 0..(m + 1) |-> g[i]]
    OBVIOUS
  <2> HIDE DEF g, Base
  <2>6. g[m + 1] = At(g, m + 1)
    <3>1. m + 1 - 1 = m /\ g[m] = f[m]
      BY <2>3
    <3> QED
      BY <2>4, <3>1 DEF last
  <2>7. \A i \in 1..m : g[i] = At(g, i)
    <3> SUFFICES ASSUME NEW i \in 1..m PROVE g[i] = At(g, i)
      OBVIOUS
    <3>1. g[i - 1] = f[i - 1] /\ g[i] = f[i]
      BY <2>3
    <3> QED
      BY <2>2, <3>1
  <2>8. ASSUME NEW i \in 0..(m + 1) PROVE g[i] = IF i = 0 THEN Base ELSE At(g, i)
    <3> HIDE DEF At
    <3>1. CASE i = 0
      BY <2>2, <2>3, <3>1
    <3>2. CASE i \in 1..m
      BY <2>7, <3>2
    <3>3. CASE i = m + 1
      BY <2>6, <3>3
    <3> QED
      BY <3>1, <3>2, <3>3
  <2>9. g = [i \in 0..(m + 1) |-> IF i = 0 THEN Base ELSE At(g, i)]
    <3> HIDE DEF At
    <3> QED
      BY <2>5, <2>8
  <2>10. Turns(g, rid, h, m + 1)
    BY <2>9, Zenon DEF Turns, Base
  <2> QED
    BY <2>10
<1> HIDE DEF P
<1>3. Nat \subseteq P
  BY <1>1, <1>2, SetInduction
<1> QED
  BY <1>3 DEF P

\* What that fold has at a position.
LEMMA TurnsAt ==
    ASSUME NEW rid, NEW h, NEW n \in Nat, NEW f, Turns(f, rid, h, n)
    PROVE  /\ f[0] = Start
           /\ \A i \in 1..n : f[i] = Content!TranslateContent(rid, f[i - 1], h[i])
<1> DEFINE At(i) == Content!TranslateContent(rid, f[i - 1], h[i])
           Base == Start
<1>1. f = [i \in 0..n |-> IF i = 0 THEN Base ELSE At(i)]
  BY Zenon DEF Turns
<1> HIDE DEF At, Base
<1>2. f[0] = Base /\ \A i \in 1..n : f[i] = At(i)
  BY <1>1
<1> QED
  BY <1>2 DEF At, Base

\* The first contents decide how they are translated.
LEMMA TurnsUnique ==
    ASSUME NEW rid, NEW h, NEW g, NEW n \in Nat, NEW m \in Nat, n <= m, Agree(g, h, n),
           NEW e, NEW f, Turns(f, rid, h, n), Turns(e, rid, g, m)
    PROVE  f[n] = e[n]
<1> DEFINE P == {k \in Nat : k \in 0..n => f[k] = e[k]}
<1>1. f[0] = Start /\ \A i \in 1..n : f[i] = Content!TranslateContent(rid, f[i - 1], h[i])
  BY TurnsAt
<1>2. e[0] = Start /\ \A i \in 1..m : e[i] = Content!TranslateContent(rid, e[i - 1], g[i])
  <2>1. PICK a, b : a = e /\ b = g
    OBVIOUS
  <2>2. Turns(a, rid, b, m)
    BY <2>1
  <2>3. a[0] = Start /\ \A i \in 1..m : a[i] = Content!TranslateContent(rid, a[i - 1], b[i])
    BY <2>2, TurnsAt
  <2> QED
    BY <2>1, <2>3
<1>3. 0 \in P
  BY <1>1, <1>2
<1>4. ASSUME NEW k \in Nat, k \in P PROVE k + 1 \in P
  <2> SUFFICES ASSUME k + 1 \in 0..n PROVE f[k + 1] = e[k + 1]
    OBVIOUS
  <2>1. k + 1 \in 1..n /\ k + 1 \in 1..m /\ f[k] = e[k] /\ (k + 1) - 1 = k
    BY <1>4
  <2>2. h[k + 1] = g[k + 1]
    BY <2>1 DEF Agree
  <2>3. f[k + 1] = Content!TranslateContent(rid, f[k], h[k + 1])
    BY <1>1, <2>1
  <2>4. e[k + 1] = Content!TranslateContent(rid, e[k], g[k + 1])
    BY <1>2, <2>1
  <2> QED
    BY <2>1, <2>2, <2>3, <2>4
<1> HIDE DEF P
<1>5. Nat \subseteq P
  BY <1>3, <1>4, SetInduction
<1> QED
  BY <1>5 DEF P

\* A content is translated part by part; then its message is added.
LEMMA TranslatedSteps ==
    ASSUME NEW rid, NEW d, NEW c, Len(c.parts) \in Nat
    PROVE  \E f : /\ Steps(f, rid, d, c.parts, Len(c.parts))
                  /\ \E role : /\ Content!TranslateContent(rid, d, c)
                                    = [f[Len(c.parts)] EXCEPT
                                          !.messages = Append(@, Message(role, f[Len(c.parts)].content))]
                               /\ c.role = "model" => role = "assistant"
                               /\ c.role # "model" => role \in {"tool", "user"}
<1> DEFINE n == Len(c.parts)
           f == CHOOSE f : f = [k \in 0..Len(c.parts) |->
                    IF k = 0 THEN [d EXCEPT !.content = << >>]
                    ELSE Content!TranslatePart(rid, f[k - 1], c.parts[k])]
           role == IF c.role = "model" THEN "assistant"
                   ELSE IF Content!ContainsResponse(c) THEN "tool" ELSE "user"
<1>1. \E e : Steps(e, rid, d, c.parts, n)
  BY StepsExists, Zenon
<1>2. Steps(f, rid, d, c.parts, n)
  BY <1>1, Zenon DEF Steps
<1>3. Content!TranslateContent(rid, d, c)
        = [f[n] EXCEPT !.messages = Append(@, Message(role, f[n].content))]
  BY DEF Content!TranslateContent, Content!Message, Message
<1> HIDE DEF f
<1>4. /\ c.role = "model" => role = "assistant"
      /\ c.role # "model" => role \in {"tool", "user"}
  OBVIOUS
<1> HIDE DEF role
<1> QED
  BY <1>2, <1>3, <1>4, Zenon

\* A history is translated content by content.
LEMMA TranslatedTurns ==
    ASSUME NEW rid, NEW h, Len(h) \in Nat
    PROVE  \E f : Turns(f, rid, h, Len(h)) /\ Content!TranslateContents(rid, h) = f[Len(h)]
<1> DEFINE f == CHOOSE f : f = [i \in 0..Len(h) |->
                    IF i = 0
                    THEN [messages |-> << >>, content |-> << >>, pending |-> << >>, ok |-> TRUE]
                    ELSE Content!TranslateContent(rid, f[i - 1], h[i])]
<1>1. \E e : Turns(e, rid, h, Len(h))
  BY TurnsExists
<1>2. Turns(f, rid, h, Len(h))
  BY <1>1, Zenon DEF Turns, Start
<1>3. Content!TranslateContents(rid, h) = f[Len(h)]
  BY Zenon DEF Content!TranslateContents
<1> HIDE DEF f
<1> QED
  BY <1>2, <1>3

\* No contents are no messages.
LEMMA TranslatedFirst ==
    ASSUME NEW rid
    PROVE  Content!TranslateContents(rid, << >>) = Start
<1>1. Len(<< >>) = 0
  OBVIOUS
<1>2. PICK f : Turns(f, rid, << >>, 0) /\ Content!TranslateContents(rid, << >>) = f[0]
  BY <1>1, TranslatedTurns
<1>3. f[0] = Start
  BY <1>2, TurnsAt, Zenon
<1> QED
  BY <1>2, <1>3

\* One content more.
LEMMA TranslatedMore ==
    ASSUME NEW rid, NEW h, IsSeq(h), NEW c
    PROVE  /\ Content!TranslateContents(rid, h \o <<c>>)
                = Content!TranslateContent(rid, Content!TranslateContents(rid, h), c)
           /\ IsSeq(h \o <<c>>)
<1>1. PICK g : g = h \o <<c>>
  BY Zenon
<1>2. IsSeq(<<c>>) /\ Len(<<c>>) = 1 /\ <<c>>[1] = c
  BY IsSeqTuples
<1>3. Joins(g, h, <<c>>)
  BY <1>1, <1>2, JoinsConcat
<1>4. PICK n \in Nat : n = Len(h)
  BY IsSeqFields
<1>5. Len(g) = n + 1 /\ Len(g) \in Nat /\ g[n + 1] = c /\ IsSeq(g)
  BY <1>2, <1>3, <1>4 DEF Joins
<1>6. Agree(g, h, n)
  BY <1>3, <1>4 DEF Joins, Agree
<1>7. PICK f : Turns(f, rid, h, n) /\ Content!TranslateContents(rid, h) = f[n]
  BY <1>4, TranslatedTurns
<1>8. PICK e : Turns(e, rid, g, n + 1) /\ Content!TranslateContents(rid, g) = e[n + 1]
  BY <1>5, TranslatedTurns
<1>9. PICK m \in Nat : m = n + 1 /\ n <= m /\ n + 1 \in 1..m /\ (n + 1) - 1 = n
  OBVIOUS
<1>10. Turns(e, rid, g, m)
  BY <1>8, <1>9
<1>11. f[n] = e[n]
  BY <1>6, <1>7, <1>9, <1>10, TurnsUnique
<1>12. \A i \in 1..m : e[i] = Content!TranslateContent(rid, e[i - 1], g[i])
  BY <1>10, TurnsAt
<1>13. e[n + 1] = Content!TranslateContent(rid, e[n], g[n + 1])
  BY <1>9, <1>12
<1> QED
  BY <1>1, <1>5, <1>7, <1>8, <1>11, <1>13

\* A translation that is under way.
Full(d) == d = [messages |-> d.messages, content |-> d.content, pending |-> d.pending, ok |-> d.ok]
State(d) == Full(d) /\ IsSeq(d.messages) /\ IsSeq(d.content) /\ IsSeq(d.pending)

\* The fields of a translation after its content changed.
LEMMA FullContent ==
    ASSUME NEW d, Full(d), NEW c, NEW t, t = [d EXCEPT !.content = c]
    PROVE  Full(t) /\ t.messages = d.messages /\ t.content = c /\ t.pending = d.pending /\ t.ok = d.ok
<1>1. PICK m, x, p, o : m = d.messages /\ x = d.content /\ p = d.pending /\ o = d.ok
  OBVIOUS
<1>2. d = [messages |-> m, content |-> x, pending |-> p, ok |-> o]
  BY <1>1, Zenon DEF Full
<1>3. t = [messages |-> m, content |-> c, pending |-> p, ok |-> o]
  BY <1>2
<1> QED
  BY <1>1, <1>3 DEF Full

\* A step that changes content and open calls.
SetsBoth(t, d, q, c) == t = [d EXCEPT !.pending = q, !.content = c]

\* The fields after such a step.
LEMMA FullPending ==
    ASSUME NEW d, Full(d), NEW c, NEW q, NEW t, SetsBoth(t, d, q, c)
    PROVE  Full(t) /\ t.messages = d.messages /\ t.content = c /\ t.pending = q /\ t.ok = d.ok
<1>1. PICK m, x, p, o : m = d.messages /\ x = d.content /\ p = d.pending /\ o = d.ok
  OBVIOUS
<1>2. d = [messages |-> m, content |-> x, pending |-> p, ok |-> o]
  BY <1>1, Zenon DEF Full
<1>3. t = [messages |-> m, content |-> c, pending |-> q, ok |-> o]
  BY <1>2, Zenon DEF SetsBoth
<1> QED
  BY <1>1, <1>3 DEF Full

\* The fields after the messages changed.
LEMMA FullMessages ==
    ASSUME NEW d, Full(d), NEW ms, NEW t, t = [d EXCEPT !.messages = ms]
    PROVE  Full(t) /\ t.messages = ms /\ t.content = d.content /\ t.pending = d.pending /\ t.ok = d.ok
<1>1. PICK m, x, p, o : m = d.messages /\ x = d.content /\ p = d.pending /\ o = d.ok
  OBVIOUS
<1>2. d = [messages |-> m, content |-> x, pending |-> p, ok |-> o]
  BY <1>1, Zenon DEF Full
<1>3. t = [messages |-> ms, content |-> x, pending |-> p, ok |-> o]
  BY <1>2
<1> QED
  BY <1>1, <1>3 DEF Full

\* The fields after a refusal.
LEMMA FullRefused ==
    ASSUME NEW d, Full(d), NEW no, NEW t, t = [d EXCEPT !.ok = no]
    PROVE  Full(t) /\ t.messages = d.messages /\ t.content = d.content /\ t.pending = d.pending /\ t.ok = no
<1>1. PICK m, x, p, o : m = d.messages /\ x = d.content /\ p = d.pending /\ o = d.ok
  OBVIOUS
<1>2. d = [messages |-> m, content |-> x, pending |-> p, ok |-> o]
  BY <1>1, Zenon DEF Full
<1>3. t = [messages |-> m, content |-> x, pending |-> p, ok |-> no]
  BY <1>2
<1> QED
  BY <1>1, <1>3 DEF Full

\* A sequence with one element more.
LEMMA Appended ==
    ASSUME NEW s, IsSeq(s), NEW x
    PROVE  /\ IsSeq(Append(s, x)) /\ Append(s, x) = s \o <<x>>
           /\ Len(Append(s, x)) = Len(s) + 1
           /\ Append(s, x)[Len(s) + 1] = x
           /\ \A k \in 1..Len(s) : Append(s, x)[k] = s[k]
<1> DEFINE S == ToSet(s) \cup {x}
<1>1. s \in Seq(S) /\ x \in S
  BY DEF IsSeq
<1> HIDE DEF S
<1>2. Append(s, x) \in Seq(S)
  BY <1>1
<1>3. IsSeq(Append(s, x))
  BY <1>2, IsSeqOf, Zenon
<1>4. Len(Append(s, x)) = Len(s) + 1 /\ Append(s, x)[Len(s) + 1] = x
  BY <1>1
<1>5. \A k \in 1..Len(s) : Append(s, x)[k] = s[k]
  BY <1>1
<1>6. Append(s, x) = s \o <<x>>
  <2>1. <<x>> \in Seq(S)
    BY <1>1
  <2>2. PICK m \in Nat : m = Len(s)
    BY <1>1
  <2>3. s \o <<x>> \in Seq(S) /\ Len(s \o <<x>>) = m + 1
    BY <1>1, <2>1, <2>2
  <2>4. \A k \in 1..(m + 1) : Append(s, x)[k] = (s \o <<x>>)[k]
    BY <1>1, <2>1, <2>2
  <2> QED
    BY <1>2, <1>4, <2>2, <2>3, <2>4
<1> QED
  BY <1>3, <1>4, <1>5, <1>6

\* One element more.
Longer(u, s, x) == u = Append(s, x)

\* The same, with its position by position form.
LEMMA LongerSeq ==
    ASSUME NEW u, NEW s, IsSeq(s), NEW x, Longer(u, s, x)
    PROVE  /\ IsSeq(u) /\ u = s \o <<x>>
           /\ Len(u) = Len(s) + 1 /\ u[Len(s) + 1] = x
           /\ \A k \in 1..Len(s) : u[k] = s[k]
<1>1. PICK v : v = Append(s, x)
  BY Zenon
<1>2. u = v
  BY <1>1 DEF Longer
<1>3. IsSeq(v) /\ v = s \o <<x>> /\ Len(v) = Len(s) + 1 /\ v[Len(s) + 1] = x
  BY <1>1, Appended, Zenon
<1>4. \A k \in 1..Len(s) : v[k] = s[k]
  BY <1>1, Appended, Zenon
<1> QED
  BY <1>2, <1>3, <1>4

\* What one part does.
Adds(d, t, x) == t.ok = d.ok /\ t.content = Append(d.content, x)
Called(d, t, part) ==
    \E id : /\ part.id # NoID => id = part.id
            /\ t.pending = Append(d.pending, [id |-> id, name |-> part.name])
            /\ Adds(d, t, ToolCall(id, part.name, part.args, part.signature))
Responded(d, t, part) ==
    \E j \in Content!OpenCalls(d.pending, part) :
        /\ t.pending = RemoveAt(d.pending, j)
        /\ Adds(d, t, ToolResult(d.pending[j].id, part.name, "object", part.outcome, FALSE))

\* What a part does to a translation: a call is opened, a response closes one.
Moves(d, t, part) ==
    /\ Full(t) /\ t.messages = d.messages
    /\ part.type = "functionCall" => Called(d, t, part)
    /\ part.type = "functionResponse" =>
          \/ ~t.ok /\ t.content = d.content /\ t.pending = d.pending
          \/ Responded(d, t, part)
    /\ part.type = "inlineData" => t.pending = d.pending /\ Adds(d, t, Image("inline"))
    /\ part.type \notin {"functionCall", "functionResponse", "inlineData"} =>
          t.pending = d.pending /\ Adds(d, t, Text)

\* That is what TranslatePart does.
LEMMA PartMoves ==
    ASSUME NEW rid, NEW d, Full(d), NEW part, NEW t, t = Content!TranslatePart(rid, d, part)
    PROVE  Moves(d, t, part)
<1>1. CASE part.type = "functionCall"
  <2>1. PICK id : id = IF part.id # Content!NoID THEN part.id
                       ELSE Content!HistoryID(rid, Len(d.messages) + 1, Len(d.content) + 1)
    OBVIOUS
  <2>2. PICK q, c : /\ q = Append(d.pending, [id |-> id, name |-> part.name])
                    /\ c = Append(d.content, ToolCall(id, part.name, part.args, part.signature))
    BY Zenon
  <2>3. SetsBoth(t, d, q, c)
    <3>1. t = [d EXCEPT !.pending = Append(@, [id |-> id, name |-> part.name]),
                        !.content = Append(@, ToolCall(id, part.name, part.args, part.signature))]
      BY <1>1, <2>1 DEF Content!TranslatePart, Content!ToolCall, ToolCall
    <3> QED
      BY <2>2, <3>1 DEF Full, SetsBoth
  <2>4. Full(t) /\ t.messages = d.messages /\ t.content = c /\ t.pending = q /\ t.ok = d.ok
    BY <2>3, FullPending
  <2>5. part.id # NoID => id = part.id
    BY <2>1 DEF NoID, Content!NoID
  <2>6. Called(d, t, part)
    BY <2>2, <2>4, <2>5 DEF Called, Adds
  <2> QED
    BY <1>1, <2>4, <2>6 DEF Moves
<1>2. CASE part.type = "functionResponse"
  <2>1. PICK open : open = Content!OpenCalls(d.pending, part)
    OBVIOUS
  <2>2. CASE open = {}
    <3>1. t = [d EXCEPT !.ok = FALSE]
      BY <1>2, <2>1, <2>2 DEF Content!TranslatePart
    <3>2. PICK no : no = FALSE
      BY Zenon
    <3>3. t = [d EXCEPT !.ok = no]
      BY <3>1, <3>2, Zenon
    <3>4. Full(t) /\ t.messages = d.messages /\ t.content = d.content /\ t.pending = d.pending /\ t.ok = no
      BY <3>3, FullRefused
    <3> QED
      BY <1>2, <3>2, <3>4 DEF Moves
  <2>3. CASE open # {}
    <3>1. PICK j : j = CHOOSE k \in open : TRUE
      OBVIOUS
    <3>2. j \in open
      BY <2>3, <3>1
    <3>3. PICK x : x = ToolResult(d.pending[j].id, part.name, "object", part.outcome, FALSE)
      BY Zenon
    <3>4. PICK q, c : q = RemoveAt(d.pending, j) /\ c = Append(d.content, x)
      BY Zenon
    <3>5. SetsBoth(t, d, q, c)
      <4>1. x = Content!ToolResult(d.pending[j].id, part.name, "object", part.outcome, FALSE)
        BY <3>3, Zenon DEF Content!ToolResult, ToolResult
      <4>2. q = Content!RemoveAt(d.pending, j)
        BY <3>4 DEF RemoveAt, Content!RemoveAt
      <4>3. t = [d EXCEPT !.pending = Content!RemoveAt(@, j), !.content = Append(@, x)]
        BY <1>2, <2>1, <2>3, <3>1, <4>1 DEF Content!TranslatePart
      <4> QED
        BY <3>4, <4>2, <4>3 DEF Full, SetsBoth
    <3>6. Full(t) /\ t.messages = d.messages /\ t.content = c /\ t.pending = q /\ t.ok = d.ok
      BY <3>5, FullPending
    <3>7. Responded(d, t, part)
      BY <2>1, <3>2, <3>3, <3>4, <3>6, Zenon DEF Responded, Adds
    <3> QED
      BY <1>2, <3>6, <3>7 DEF Moves
  <2> QED
    BY <2>2, <2>3
<1>3. CASE part.type = "inlineData"
  <2>1. PICK c : c = Append(d.content, Image("inline"))
    BY Zenon
  <2>2. t = [d EXCEPT !.content = c]
    <3>1. t = [d EXCEPT !.content = Append(@, Image("inline"))]
      BY <1>3 DEF Content!TranslatePart, Content!Image, Image
    <3> QED
      BY <2>1, <3>1 DEF Full
  <2>3. Full(t) /\ t.messages = d.messages /\ t.content = c /\ t.pending = d.pending /\ t.ok = d.ok
    BY <2>2, FullContent
  <2> QED
    BY <1>3, <2>1, <2>3 DEF Moves, Adds
<1>4. CASE part.type \notin {"functionCall", "functionResponse", "inlineData"}
  <2>1. PICK c : c = Append(d.content, Text)
    BY Zenon
  <2>2. t = [d EXCEPT !.content = c]
    <3>1. t = [d EXCEPT !.content = Append(@, Text)]
      BY <1>4 DEF Content!TranslatePart, Content!Text, Text
    <3> QED
      BY <2>1, <3>1 DEF Full
  <2>3. Full(t) /\ t.messages = d.messages /\ t.content = c /\ t.pending = d.pending /\ t.ok = d.ok
    BY <2>2, FullContent
  <2> QED
    BY <1>4, <2>1, <2>3 DEF Moves, Adds
<1> QED
  BY <1>1, <1>2, <1>3, <1>4

\* A sequence without one of its elements.
LEMMA RemovedAt ==
    ASSUME NEW s, IsSeq(s), NEW j \in DOMAIN s
    PROVE  /\ IsSeq(RemoveAt(s, j)) /\ Len(RemoveAt(s, j)) = Len(s) - 1
           /\ j = 1 => \A k \in 1..(Len(s) - 1) : RemoveAt(s, j)[k] = s[k + 1]
<1> DEFINE S == ToSet(s)
<1>1. s \in Seq(S)
  BY DEF IsSeq
<1> HIDE DEF S
<1>2. PICK n \in Nat : n = Len(s) /\ j \in 1..n
  BY <1>1
<1>3. PICK a, b : a = SubSeq(s, 1, j - 1) /\ b = SubSeq(s, j + 1, n)
  BY Zenon
<1>4. a \in Seq(S) /\ Len(a) = j - 1
  BY <1>1, <1>2, <1>3
<1>5. b \in Seq(S) /\ Len(b) = n - j
  BY <1>1, <1>2, <1>3
<1>6. \A k \in 1..(n - j) : b[k] = s[j + k]
  BY <1>1, <1>2, <1>3
<1>7. RemoveAt(s, j) = a \o b
  BY <1>2, <1>3 DEF RemoveAt
<1>8. a \o b \in Seq(S) /\ Len(a \o b) = n - 1
  BY <1>2, <1>4, <1>5
<1>9. ASSUME j = 1, NEW k \in 1..(n - 1) PROVE (a \o b)[k] = s[k + 1]
  <2>1. Len(a) = 0 /\ Len(b) = n - 1
    BY <1>4, <1>5, <1>9
  <2>2. (a \o b)[k] = b[k]
    BY <1>4, <1>5, <2>1
  <2>3. b[k] = s[k + 1]
    BY <1>6, <1>9
  <2> QED
    BY <2>2, <2>3
<1> QED
  BY <1>2, <1>7, <1>8, <1>9, IsSeqOf, Zenon

\* A part keeps the translation a translation, and no error is forgotten.
LEMMA StateOf ==
    ASSUME NEW t, Full(t), IsSeq(t.messages), IsSeq(t.content), IsSeq(t.pending)
    PROVE  State(t)
  BY DEF State

\* A translation that moves keeps its form, and never recovers from a refusal.
LEMMA MovesKeep ==
    ASSUME NEW d, State(d), NEW part, NEW t, Moves(d, t, part)
    PROVE  State(t) /\ t.messages = d.messages /\ (t.ok => d.ok)
<1>1. Full(t) /\ t.messages = d.messages /\ IsSeq(t.messages)
  BY DEF Moves, State
<1>2. PICK a, b : a = d.content /\ b = d.pending
  OBVIOUS
<1>3. IsSeq(a) /\ IsSeq(b)
  BY <1>2 DEF State
<1>4. CASE part.type = "functionCall"
  <2>1. Called(d, t, part)
    BY <1>4 DEF Moves
  <2>2. PICK x, y : t.ok = d.ok /\ Longer(t.content, a, x) /\ Longer(t.pending, b, y)
    BY <1>2, <2>1 DEF Called, Adds, Longer
  <2>3. IsSeq(t.content)
    BY <1>3, <2>2, LongerSeq, Zenon
  <2>4. IsSeq(t.pending)
    BY <1>3, <2>2, LongerSeq, Zenon
  <2> QED
    BY <1>1, <2>2, <2>3, <2>4, StateOf
<1>5. CASE part.type = "functionResponse"
  <2>1. CASE ~t.ok /\ t.content = d.content /\ t.pending = d.pending
    <3>1. IsSeq(t.content) /\ IsSeq(t.pending)
      BY <1>2, <1>3, <2>1
    <3> QED
      BY <1>1, <2>1, <3>1, StateOf
  <2>2. CASE Responded(d, t, part)
    <3>1. PICK j, x : /\ j \in Content!OpenCalls(b, part)
                      /\ t.ok = d.ok /\ Longer(t.content, a, x) /\ t.pending = RemoveAt(b, j)
      BY <1>2, <2>2, Zenon DEF Responded, Adds, Longer
    <3>2. j \in DOMAIN b
      BY <3>1 DEF Content!OpenCalls
    <3>3. IsSeq(t.content)
      BY <1>3, <3>1, LongerSeq, Zenon
    <3>4. IsSeq(t.pending)
      BY <1>3, <3>1, <3>2, RemovedAt
    <3> QED
      BY <1>1, <3>1, <3>3, <3>4, StateOf
  <2> QED
    BY <1>5, <2>1, <2>2 DEF Moves
<1>6. CASE part.type \notin {"functionCall", "functionResponse"}
  <2>1. PICK x : t.ok = d.ok /\ Longer(t.content, a, x) /\ t.pending = b
    BY <1>2, <1>6, Zenon DEF Moves, Adds, Longer
  <2>2. IsSeq(t.content)
    BY <1>3, <2>1, LongerSeq, Zenon
  <2> QED
    BY <1>1, <1>3, <2>1, <2>2, StateOf
<1> QED
  BY <1>4, <1>5, <1>6

\* What the gateway makes of a part that is no response.
ReadsPart(x, part) ==
    /\ part.type = "functionCall" =>
          \E id : /\ part.id # NoID => id = part.id
                  /\ x = ToolCall(id, part.name, part.args, part.signature)
    /\ part.type = "inlineData" => x = Image("inline")
    /\ part.type \notin {"functionCall", "inlineData"} => x = Text

\* The pending calls are the calls of a content.
Pended(q, s) ==
    /\ IsSeq(q) /\ Len(q) = Len(OfType(s, "tool_call"))
    /\ \A j \in 1..Len(q) : /\ q[j].id = OfType(s, "tool_call")[j].id
                            /\ q[j].name = OfType(s, "tool_call")[j].name

\* u is s with x at its end, position by position.
Grown(u, s, x) ==
    /\ IsSeq(u) /\ Len(u) = Len(s) + 1 /\ u[Len(s) + 1] = x
    /\ \A k \in 1..Len(s) : u[k] = s[k]

\* A longer sequence has grown.
LEMMA LongerAt ==
    ASSUME NEW u, NEW s, IsSeq(s), NEW x, Longer(u, s, x)
    PROVE  Grown(u, s, x)
  BY LongerSeq, Zenon DEF Grown

\* An element more, and the elements of a type.
LEMMA LongerOfType ==
    ASSUME NEW u, NEW s, IsSeq(s), NEW x, Longer(u, s, x), NEW t
    PROVE  /\ x.type = t => Longer(OfType(u, t), OfType(s, t), x)
           /\ x.type # t => OfType(u, t) = OfType(s, t)
           /\ IsSeq(OfType(s, t))
<1>1. PICK e : e = <<x>>
  BY Zenon
<1>2. IsSeq(e) /\ u = s \o e
  BY <1>1, LongerSeq, OfTypeOne, Zenon
<1>3. OfType(u, t) = OfType(s, t) \o OfType(e, t)
  BY <1>2, OfTypeJoin
<1>4. PICK v : v = OfType(s, t)
  OBVIOUS
<1>5. IsSeq(v)
  BY <1>4, OfTypeMembers
<1>6. ASSUME x.type = t PROVE Longer(OfType(u, t), v, x)
  <2>1. OfType(e, t) = e
    BY <1>1, <1>6, OfTypeOne
  <2>2. Append(v, x) = v \o e
    BY <1>1, <1>5, Appended, Zenon
  <2> QED
    BY <1>3, <1>4, <2>1, <2>2 DEF Longer
<1>7. ASSUME x.type # t PROVE OfType(u, t) = v
  <2>1. OfType(e, t) = << >>
    BY <1>1, <1>7, OfTypeOne
  <2>2. v \o << >> = v
    BY <1>5 DEF IsSeq
  <2> QED
    BY <1>3, <1>4, <2>1, <2>2
<1> QED
  BY <1>4, <1>5, <1>6, <1>7

\* A call more is an open call more.
LEMMA PendedMore ==
    ASSUME NEW s, IsSeq(s), NEW q, Pended(q, s), NEW x, NEW u, Longer(u, s, x),
           x.type = "tool_call", NEW y, y.id = x.id, y.name = x.name, NEW r, Longer(r, q, y)
    PROVE  Pended(r, u)
<1>1. PICK v, w : v = OfType(s, "tool_call") /\ w = OfType(u, "tool_call")
  OBVIOUS
<1>2. IsSeq(v) /\ Longer(w, v, x)
  BY <1>1, LongerOfType
<1>3. IsSeq(q) /\ Len(q) = Len(v) /\ \A j \in 1..Len(q) : q[j].id = v[j].id /\ q[j].name = v[j].name
  BY <1>1 DEF Pended
<1>4. PICK n \in Nat : n = Len(v)
  BY <1>2, IsSeqFields
<1>8. Grown(w, v, x) /\ Grown(r, q, y)
  BY <1>2, <1>3, LongerAt
<1>5. Len(w) = n + 1 /\ w[n + 1] = x /\ \A k \in 1..n : w[k] = v[k]
  BY <1>4, <1>8 DEF Grown
<1>6. IsSeq(r) /\ Len(r) = n + 1 /\ r[n + 1] = y /\ \A k \in 1..n : r[k] = q[k]
  BY <1>3, <1>4, <1>8 DEF Grown
<1>7. ASSUME NEW j \in 1..(n + 1) PROVE r[j].id = w[j].id /\ r[j].name = w[j].name
  <2>1. CASE j = n + 1
    BY <1>5, <1>6, <2>1
  <2>2. CASE j \in 1..n
    BY <1>3, <1>4, <1>5, <1>6, <2>2
  <2> QED
    BY <2>1, <2>2
<1> QED
  BY <1>1, <1>5, <1>6, <1>7 DEF Pended

\* Other parts open no call.
LEMMA PendedSame ==
    ASSUME NEW s, IsSeq(s), NEW q, Pended(q, s), NEW x, NEW u, Longer(u, s, x),
           x.type # "tool_call"
    PROVE  Pended(q, u)
<1>1. OfType(u, "tool_call") = OfType(s, "tool_call")
  BY LongerOfType
<1> QED
  BY <1>1 DEF Pended

\* A part that is no response is said.
LEMMA PartSaid ==
    ASSUME NEW d, State(d), Pended(d.pending, d.content), NEW part,
           part.type # "functionResponse", NEW t, Moves(d, t, part)
    PROVE  /\ t.ok = d.ok /\ Pended(t.pending, t.content)
           /\ \E x : ReadsPart(x, part) /\ Longer(t.content, d.content, x)
<1>1. IsSeq(d.content) /\ IsSeq(d.pending)
  BY DEF State
<1>2. CASE part.type = "functionCall"
  <2>1. Called(d, t, part)
    BY <1>2 DEF Moves
  <2>2. PICK id : /\ part.id # NoID => id = part.id
                  /\ t.pending = Append(d.pending, [id |-> id, name |-> part.name])
                  /\ Adds(d, t, ToolCall(id, part.name, part.args, part.signature))
    BY <2>1 DEF Called
  <2>3. PICK x, y : /\ x = ToolCall(id, part.name, part.args, part.signature)
                    /\ y = [id |-> id, name |-> part.name]
    BY Zenon
  <2>4. x.type = "tool_call" /\ y.id = x.id /\ y.name = x.name
    BY <2>3 DEF ToolCall
  <2>5. Longer(t.content, d.content, x) /\ Longer(t.pending, d.pending, y) /\ t.ok = d.ok
    BY <2>2, <2>3 DEF Adds, Longer
  <2>6. Pended(t.pending, t.content)
    BY <1>1, <2>4, <2>5, PendedMore
  <2>7. ReadsPart(x, part)
    BY <1>2, <2>2, <2>3 DEF ReadsPart
  <2> QED
    BY <2>5, <2>6, <2>7
<1>3. CASE part.type = "inlineData"
  <2>1. PICK x : x = Image("inline")
    OBVIOUS
  <2>2. t.ok = d.ok /\ t.pending = d.pending /\ Longer(t.content, d.content, x)
    BY <1>3, <2>1 DEF Moves, Adds, Longer
  <2>3. x.type # "tool_call"
    BY <2>1 DEF Image
  <2>4. Pended(d.pending, t.content)
    BY <1>1, <2>2, <2>3, PendedSame
  <2>5. ReadsPart(x, part)
    BY <1>3, <2>1 DEF ReadsPart
  <2> QED
    BY <2>2, <2>4, <2>5
<1>4. CASE part.type \notin {"functionCall", "inlineData"}
  <2>1. PICK x : x = Text
    OBVIOUS
  <2>2. t.ok = d.ok /\ t.pending = d.pending /\ Longer(t.content, d.content, x)
    BY <1>4, <2>1 DEF Moves, Adds, Longer
  <2>3. x.type # "tool_call"
    BY <2>1 DEF Text
  <2>4. Pended(d.pending, t.content)
    BY <1>1, <2>2, <2>3, PendedSame
  <2>5. ReadsPart(x, part)
    BY <1>4, <2>1 DEF ReadsPart
  <2> QED
    BY <2>2, <2>4, <2>5
<1> QED
  BY <1>2, <1>3, <1>4

\* The first k parts of a content that has no response are read.
Saying(t, d, parts, k) ==
    /\ State(t) /\ t.messages = d.messages /\ t.ok = d.ok
    /\ Len(t.content) = k
    /\ \A i \in 1..k : ReadsPart(t.content[i], parts[i])
    /\ Pended(t.pending, t.content)

\* One part further.
LEMMA SayingMore ==
    ASSUME NEW d, NEW parts, NEW k \in Nat, NEW e, Saying(e, d, parts, k),
           NEW part, part = parts[k + 1], part.type # "functionResponse", NEW t, Moves(e, t, part)
    PROVE  Saying(t, d, parts, k + 1)
<1>1. State(e) /\ Pended(e.pending, e.content) /\ IsSeq(e.content) /\ Len(e.content) = k
  BY DEF Saying, State
<1>2. State(t) /\ t.messages = d.messages
  BY <1>1, MovesKeep DEF Saying
<1>3. t.ok = d.ok /\ Pended(t.pending, t.content)
  BY <1>1, PartSaid DEF Saying
<1>4. PICK x : ReadsPart(x, part) /\ Longer(t.content, e.content, x)
  BY <1>1, PartSaid
<1>7. Grown(t.content, e.content, x)
  BY <1>1, <1>4, LongerAt
<1>5. Len(t.content) = k + 1 /\ t.content[k + 1] = x /\ \A i \in 1..k : t.content[i] = e.content[i]
  BY <1>1, <1>7 DEF Grown
<1>6. ASSUME NEW i \in 1..(k + 1) PROVE ReadsPart(t.content[i], parts[i])
  <2>1. CASE i = k + 1
    BY <1>4, <1>5, <2>1
  <2>2. CASE i \in 1..k
    BY <1>5, <2>2 DEF Saying
  <2> QED
    BY <2>1, <2>2
<1> QED
  BY <1>2, <1>3, <1>5, <1>6 DEF Saying

\* Before the first part.
LEMMA SayingNone ==
    ASSUME NEW d, State(d), d.pending = << >>, NEW parts, NEW t, t = [d EXCEPT !.content = << >>]
    PROVE  Saying(t, d, parts, 0)
<1>1. PICK c : c = << >>
  OBVIOUS
<1>2. Full(t) /\ t.messages = d.messages /\ t.content = c /\ t.pending = d.pending /\ t.ok = d.ok
  BY <1>1, FullContent DEF State
<1>3. IsSeq(c) /\ Len(c) = 0 /\ OfType(c, "tool_call") = << >>
  BY <1>1, OfTypeZero
<1>4. State(t)
  BY <1>1, <1>2, <1>3, StateOf DEF State
<1>5. Pended(c, c)
  BY <1>1, <1>3 DEF Pended
<1> QED
  BY <1>1, <1>2, <1>3, <1>4, <1>5 DEF Saying

\* How a content ends: its message is added.
Ends(t, e, role) == t = [e EXCEPT !.messages = Append(@, Message(role, e.content))]
Ended(t, e, role) ==
    /\ State(t) /\ Longer(t.messages, e.messages, Message(role, e.content))
    /\ t.content = e.content /\ t.pending = e.pending /\ t.ok = e.ok

\* The fields after a message was added.
LEMMA EndsIs ==
    ASSUME NEW e, State(e), NEW role, NEW t, Ends(t, e, role)
    PROVE  Ended(t, e, role)
<1>1. PICK x, ms : x = Message(role, e.content) /\ ms = Append(e.messages, x)
  BY Zenon
<1>2. t = [e EXCEPT !.messages = ms]
  <2>1. t = [e EXCEPT !.messages = Append(@, x)]
    BY <1>1 DEF Ends
  <2> QED
    BY <1>1, <2>1 DEF State, Full
<1>3. Full(t) /\ t.messages = ms /\ t.content = e.content /\ t.pending = e.pending /\ t.ok = e.ok
  BY <1>2, FullMessages DEF State
<1>4. Longer(t.messages, e.messages, x)
  BY <1>1, <1>3 DEF Longer
<1>5. IsSeq(e.messages) /\ IsSeq(e.content) /\ IsSeq(e.pending)
  BY DEF State
<1>6. IsSeq(t.messages)
  BY <1>4, <1>5, LongerAt DEF Grown
<1>7. State(t)
  BY <1>3, <1>5, <1>6, StateOf
<1> QED
  BY <1>1, <1>3, <1>4, <1>7 DEF Ended

\* The translation of a content, from the state before it to the one after.
Passes(t, rid, d, c) ==
    \E f, role : /\ Steps(f, rid, d, c.parts, Len(c.parts))
                 /\ Ends(t, f[Len(c.parts)], role)
                 /\ c.role = "model" => role = "assistant"
                 /\ c.role # "model" => role \in {"tool", "user"}

\* The translation of a content, as a predicate.
LEMMA PassesIs ==
    ASSUME NEW rid, NEW d, NEW c, IsSeq(c.parts), NEW t, t = Content!TranslateContent(rid, d, c)
    PROVE  Passes(t, rid, d, c)
<1>1. Len(c.parts) \in Nat
  BY IsSeqFields
<1> QED
  BY <1>1, TranslatedSteps, Zenon DEF Passes, Ends

\* The start of a content, and the steps from there.
Begins(e, d) == e = [d EXCEPT !.content = << >>]
Taken(f, rid, d, parts, n) ==
    Begins(f[0], d) /\ \A i \in 1..n : f[i] = Content!TranslatePart(rid, f[i - 1], parts[i])

\* The fold takes these steps.
LEMMA StepsTaken ==
    ASSUME NEW rid, NEW d, NEW parts, NEW n \in Nat, NEW f, Steps(f, rid, d, parts, n)
    PROVE  Taken(f, rid, d, parts, n)
<1> DEFINE At(i) == Content!TranslatePart(rid, f[i - 1], parts[i])
           Base == [d EXCEPT !.content = << >>]
<1>1. f = [i \in 0..n |-> IF i = 0 THEN Base ELSE At(i)]
  BY Zenon DEF Steps
<1> HIDE DEF At, Base
<1>2. f[0] = Base /\ \A i \in 1..n : f[i] = At(i)
  BY <1>1
<1> QED
  BY <1>2 DEF At, Base, Taken, Begins

\* Every step moves the translation.
LEMMA StepMoves ==
    ASSUME NEW rid, NEW d, NEW parts, NEW n \in Nat, NEW f, Steps(f, rid, d, parts, n),
           NEW k \in Nat, k < n, Full(f[k])
    PROVE  Moves(f[k], f[k + 1], parts[k + 1])
<1>1. k + 1 \in 1..n /\ (k + 1) - 1 = k
  OBVIOUS
<1>2. Taken(f, rid, d, parts, n)
  BY StepsTaken
<1>3. f[k + 1] = Content!TranslatePart(rid, f[k], parts[k + 1])
  <2>1. PICK i \in 1..n : i = k + 1 /\ i - 1 = k
    BY <1>1
  <2>2. f[i] = Content!TranslatePart(rid, f[i - 1], parts[i])
    BY <1>2 DEF Taken
  <2> QED
    BY <2>1, <2>2
<1> QED
  BY <1>3, PartMoves

\* After all parts, all of them are said.
LEMMA StepsSay ==
    ASSUME NEW rid, NEW d, State(d), d.pending = << >>, NEW parts,
           NEW n \in Nat, NEW f, Steps(f, rid, d, parts, n),
           \A k \in 1..n : parts[k].type # "functionResponse"
    PROVE  Saying(f[n], d, parts, n)
<1> DEFINE P == {k \in Nat : k <= n => Saying(f[k], d, parts, k)}
<1>1. 0 \in P
  <2>1. Begins(f[0], d)
    BY StepsTaken, Zenon DEF Taken
  <2>2. Saying(f[0], d, parts, 0)
    BY <2>1, SayingNone DEF Begins
  <2> QED
    BY <2>2
<1>2. ASSUME NEW k \in Nat, k \in P PROVE k + 1 \in P
  <2> SUFFICES ASSUME k + 1 <= n PROVE Saying(f[k + 1], d, parts, k + 1)
    OBVIOUS
  <2>1. Saying(f[k], d, parts, k) /\ k < n /\ k + 1 \in 1..n
    BY <1>2
  <2>2. Full(f[k])
    BY <2>1 DEF Saying, State
  <2>3. PICK part : part = parts[k + 1]
    OBVIOUS
  <2>4. Moves(f[k], f[k + 1], part)
    BY <2>1, <2>2, <2>3, StepMoves
  <2>5. part.type # "functionResponse"
    BY <2>1, <2>3
  <2> QED
    BY <2>1, <2>3, <2>4, <2>5, SayingMore
<1> HIDE DEF P
<1>3. Nat \subseteq P
  BY <1>1, <1>2, SetInduction
<1> QED
  BY <1>3 DEF P

\* A content without responses, after which its calls are pending.
SaysContent(t, d, c, role, E) ==
    /\ State(t) /\ t.ok = d.ok
    /\ IsSeq(E) /\ Longer(t.messages, d.messages, Message(role, E))
    /\ Len(E) = Len(c.parts)
    /\ \A k \in 1..Len(E) : ReadsPart(E[k], c.parts[k])
    /\ Pended(t.pending, E)

\* A content without responses becomes a message that says its parts.
LEMMA SaidContent ==
    ASSUME NEW rid, NEW d, State(d), d.pending = << >>, NEW c, IsSeq(c.parts),
           NoneOf(c.parts, "functionResponse"), NEW t, t = Content!TranslateContent(rid, d, c)
    PROVE  \E role, E : SaysContent(t, d, c, role, E) /\ (c.role = "model" => role = "assistant")
<1>1. PICK n \in Nat : n = Len(c.parts) /\ DOMAIN c.parts = 1..n
  BY IsSeqFields
<1>2. Passes(t, rid, d, c)
  BY PassesIs
<1>3. PICK f, role : /\ Steps(f, rid, d, c.parts, n) /\ Ends(t, f[n], role)
                     /\ c.role = "model" => role = "assistant"
  BY <1>1, <1>2, Zenon DEF Passes
<1>4. \A k \in 1..n : c.parts[k].type # "functionResponse"
  BY <1>1 DEF NoneOf
<1>5. Saying(f[n], d, c.parts, n)
  BY <1>3, <1>4, StepsSay
<1>6. PICK e, E : e = f[n] /\ E = e.content
  OBVIOUS
<1>7. State(e) /\ Ends(t, e, role) /\ Saying(e, d, c.parts, n)
  BY <1>3, <1>5, <1>6 DEF Saying
<1>8. Ended(t, e, role)
  BY <1>7, EndsIs
<1>9. IsSeq(E) /\ Len(E) = n
  BY <1>6, <1>7 DEF State, Saying
<1>10. Longer(t.messages, d.messages, Message(role, E))
  BY <1>6, <1>7, <1>8 DEF Ended, Saying
<1>11. State(t) /\ t.ok = d.ok /\ Pended(t.pending, E)
  BY <1>6, <1>7, <1>8 DEF Ended, Saying
<1>12. \A k \in 1..n : ReadsPart(E[k], c.parts[k])
  BY <1>6, <1>7 DEF Saying
<1>13. SaysContent(t, d, c, role, E)
  BY <1>1, <1>9, <1>10, <1>11, <1>12 DEF SaysContent
<1> QED
  BY <1>3, <1>13

\* A content of any kind.
Going(t, d) == State(t) /\ t.messages = d.messages /\ (t.ok => d.ok)

\* Whatever the parts, the earlier messages stay.
LEMMA StepsGo ==
    ASSUME NEW rid, NEW d, State(d), NEW parts,
           NEW n \in Nat, NEW f, Steps(f, rid, d, parts, n)
    PROVE  Going(f[n], d)
<1> DEFINE P == {k \in Nat : k <= n => Going(f[k], d)}
<1>1. 0 \in P
  <2>1. Begins(f[0], d)
    BY StepsTaken, Zenon DEF Taken
  <2>2. PICK c : c = << >>
    OBVIOUS
  <2>3. Full(f[0]) /\ f[0].messages = d.messages /\ f[0].content = c /\ f[0].pending = d.pending
        /\ f[0].ok = d.ok
    BY <2>1, <2>2, FullContent DEF State, Begins
  <2>4. IsSeq(c)
    BY <2>2, OfTypeZero
  <2>5. State(f[0])
    BY <2>3, <2>4, StateOf DEF State
  <2>6. Going(f[0], d)
    BY <2>3, <2>5 DEF Going
  <2> QED
    BY <2>6
<1>2. ASSUME NEW k \in Nat, k \in P PROVE k + 1 \in P
  <2> SUFFICES ASSUME k + 1 <= n PROVE Going(f[k + 1], d)
    OBVIOUS
  <2>1. Going(f[k], d) /\ k < n
    BY <1>2
  <2>2. Full(f[k]) /\ State(f[k])
    BY <2>1 DEF Going, State
  <2>3. PICK part : part = parts[k + 1]
    OBVIOUS
  <2>4. Moves(f[k], f[k + 1], part)
    BY <2>1, <2>2, <2>3, StepMoves
  <2>5. State(f[k + 1]) /\ f[k + 1].messages = f[k].messages /\ (f[k + 1].ok => f[k].ok)
    BY <2>2, <2>4, MovesKeep
  <2> QED
    BY <2>1, <2>5 DEF Going
<1> HIDE DEF P
<1>3. Nat \subseteq P
  BY <1>1, <1>2, SetInduction
<1> QED
  BY <1>3 DEF P

\* A content adds one message.
AddsMessage(t, d) ==
    /\ State(t) /\ (t.ok => d.ok)
    /\ \E role, E : IsSeq(E) /\ Longer(t.messages, d.messages, Message(role, E))

\* Whatever the parts of a content are.
LEMMA AnyContent ==
    ASSUME NEW rid, NEW d, State(d), NEW c, IsSeq(c.parts),
           NEW t, t = Content!TranslateContent(rid, d, c)
    PROVE  AddsMessage(t, d)
<1>1. PICK n \in Nat : n = Len(c.parts)
  BY IsSeqFields
<1>2. Passes(t, rid, d, c)
  BY PassesIs
<1>3. PICK f, role : Steps(f, rid, d, c.parts, n) /\ Ends(t, f[n], role)
  BY <1>1, <1>2 DEF Passes
<1>4. PICK e : e = f[n]
  OBVIOUS
<1>5. Going(e, d) /\ Ends(t, e, role)
  BY <1>3, <1>4, StepsGo
<1>6. State(e) /\ e.messages = d.messages /\ (e.ok => d.ok) /\ IsSeq(e.content)
  BY <1>5 DEF Going, State
<1>7. Ended(t, e, role)
  BY <1>5, <1>6, EndsIs
<1>8. Longer(t.messages, d.messages, Message(role, e.content)) /\ State(t) /\ (t.ok => d.ok)
  BY <1>6, <1>7 DEF Ended
<1> QED
  BY <1>6, <1>8 DEF AddsMessage

\* What the gateway makes of a response: the result of the call whose ID it has, or of
\* some pending call if it has none.
Gives(x, part) ==
    \E id : /\ part.id # NoID => id = part.id
            /\ x = ToolResult(id, part.name, "object", part.outcome, FALSE)

\* Responses without IDs, in the order of the pending calls.
InOrder(parts, P, n) ==
    /\ Len(P) = n
    /\ \A i \in 1..n : parts[i].id = NoID /\ parts[i].name = P[i].name

\* In a row so far: the first k calls have their results, the others are pending.
InRow(t, P, k) ==
    /\ \A i \in 1..k : t.content[i].id = P[i].id
    /\ \A j \in 1..(Len(P) - k) : t.pending[j] = P[k + j]

\* The first k responses gave the results of their calls.
Given(t, P, parts, k, n) ==
    /\ Len(t.content) = k /\ Len(t.pending) = Len(P) - k
    /\ \A i \in 1..k : Gives(t.content[i], parts[i])
    /\ InOrder(parts, P, n) => InRow(t, P, k)

\* A translation after k responses.
Responding(t, d, parts, k, n) ==
    /\ State(t) /\ t.messages = d.messages /\ (t.ok => d.ok)
    /\ t.ok => Given(t, d.pending, parts, k, n)

\* Before the first response.
LEMMA RespondingNone ==
    ASSUME NEW d, State(d), NEW parts, NEW n, NEW t, Begins(t, d)
    PROVE  Responding(t, d, parts, 0, n)
<1>1. PICK c, P : c = << >> /\ P = d.pending
  OBVIOUS
<1>2. Full(t) /\ t.messages = d.messages /\ t.content = c /\ t.pending = P /\ t.ok = d.ok
  BY <1>1, FullContent DEF State, Begins
<1>3. IsSeq(c) /\ Len(c) = 0
  BY <1>1, OfTypeZero
<1>4. IsSeq(P) /\ Len(P) \in Nat
  BY <1>1, IsSeqFields DEF State
<1>5. State(t)
  BY <1>1, <1>2, <1>3, <1>4, StateOf DEF State
<1>6. InRow(t, P, 0)
  BY <1>2, <1>4 DEF InRow
<1>7. Given(t, P, parts, 0, n)
  BY <1>2, <1>3, <1>4, <1>6 DEF Given
<1> QED
  BY <1>1, <1>2, <1>5, <1>7 DEF Responding

\* r is s without its element j; without the first, the others move up.
Removed(r, s, j) ==
    /\ IsSeq(r) /\ Len(r) = Len(s) - 1
    /\ j = 1 => \A k \in 1..(Len(s) - 1) : r[k] = s[k + 1]

\* That is what RemoveAt does.
LEMMA RemovedIs ==
    ASSUME NEW s, IsSeq(s), NEW j \in DOMAIN s, NEW r, r = RemoveAt(s, j)
    PROVE  Removed(r, s, j)
  BY RemovedAt DEF Removed

\* A response without ID that has the name of the first open call is given to it.
LEMMA FirstOpen ==
    ASSUME NEW q, IsSeq(q), Len(q) # 0, NEW part, part.id = NoID, part.name = q[1].name,
           NEW j \in Content!OpenCalls(q, part)
    PROVE  j = 1
<1>1. PICK n \in Nat : n = Len(q) /\ DOMAIN q = 1..n
  BY IsSeqFields
<1>2. 1 \in 1..n
  BY <1>1
<1>3. part.id \in {Content!NoID, q[1].id}
  BY DEF Content!NoID, NoID
<1>4. j \in 1..n /\ j <= 1
  BY <1>1, <1>2, <1>3 DEF Content!OpenCalls
<1> QED
  BY <1>4

\* One response further.
LEMMA RespondingMore ==
    ASSUME NEW d, State(d), NEW parts, NEW n \in Nat, NEW k \in Nat, k < n,
           NEW e, Responding(e, d, parts, k, n),
           NEW part, part = parts[k + 1], part.type = "functionResponse", NEW t, Moves(e, t, part)
    PROVE  Responding(t, d, parts, k + 1, n)
<1>1. State(e) /\ e.messages = d.messages /\ (e.ok => d.ok)
  BY DEF Responding
<1>2. State(t) /\ t.messages = d.messages /\ (t.ok => e.ok)
  BY <1>1, MovesKeep
<1>3. PICK P, a, q : P = d.pending /\ a = e.content /\ q = e.pending
  OBVIOUS
<1>4. IsSeq(P) /\ IsSeq(a) /\ IsSeq(q)
  BY <1>1, <1>3 DEF State
<1>5. ASSUME t.ok PROVE Given(t, P, parts, k + 1, n)
  <2>1. e.ok /\ Given(e, P, parts, k, n)
    BY <1>2, <1>3, <1>5 DEF Responding
  <2>2. Responded(e, t, part)
    BY <1>5 DEF Moves
  <2>3. PICK j : /\ j \in Content!OpenCalls(q, part)
                 /\ t.pending = RemoveAt(q, j)
                 /\ Adds(e, t, ToolResult(q[j].id, part.name, "object", part.outcome, FALSE))
    BY <1>3, <2>2, Zenon DEF Responded
  <2>4. PICK id, x : /\ id = q[j].id
                     /\ x = ToolResult(id, part.name, "object", part.outcome, FALSE)
    BY Zenon
  <2>5. Longer(t.content, a, x)
    BY <1>3, <2>3, <2>4 DEF Adds, Longer
  <2>6. Grown(t.content, a, x)
    BY <1>4, <2>5, LongerAt
  <2>7. Len(a) = k /\ Len(q) = Len(P) - k /\ Len(P) \in Nat /\ Len(q) \in Nat
    BY <1>3, <1>4, <2>1, IsSeqFields DEF Given
  <2>8. Len(t.content) = k + 1 /\ t.content[k + 1] = x /\ \A i \in 1..k : t.content[i] = a[i]
    BY <2>6, <2>7 DEF Grown
  <2>9. j \in DOMAIN q /\ part.id \in {NoID, q[j].id}
    BY <2>3 DEF Content!OpenCalls, Content!NoID, NoID
  <2>10. Removed(t.pending, q, j)
    BY <1>4, <2>3, <2>9, RemovedIs
  <2>11. Len(t.pending) = Len(P) - (k + 1)
    BY <2>7, <2>10 DEF Removed
  <2>12. Gives(x, part)
    BY <2>4, <2>9, Zenon DEF Gives
  <2>13. ASSUME NEW i \in 1..(k + 1) PROVE Gives(t.content[i], parts[i])
    <3>1. CASE i = k + 1
      BY <2>8, <2>12, <3>1
    <3>2. CASE i \in 1..k
      BY <1>3, <2>1, <2>8, <3>2 DEF Given
    <3> QED
      BY <3>1, <3>2
  <2>14. ASSUME InOrder(parts, P, n) PROVE InRow(t, P, k + 1)
    <3>1. InRow(e, P, k)
      BY <2>1, <2>14 DEF Given
    <3>2. Len(P) = n /\ k + 1 \in 1..n /\ 1 \in 1..(n - k)
      BY <2>14 DEF InOrder
    <3>3. q[1] = P[k + 1]
      BY <1>3, <3>1, <3>2 DEF InRow
    <3>4. part.id = NoID /\ part.name = q[1].name
      BY <2>14, <3>2, <3>3 DEF InOrder
    <3>5. Len(q) # 0
      BY <2>7, <3>2
    <3>6. j = 1
      BY <1>4, <2>3, <3>4, <3>5, FirstOpen
    <3>7. x.id = P[k + 1].id
      BY <2>4, <3>3, <3>6 DEF ToolResult
    <3>8. ASSUME NEW i \in 1..(k + 1) PROVE t.content[i].id = P[i].id
      <4>1. CASE i = k + 1
        BY <2>8, <3>7, <4>1
      <4>2. CASE i \in 1..k
        BY <1>3, <2>8, <3>1, <4>2 DEF InRow
      <4> QED
        BY <4>1, <4>2
    <3>9. ASSUME NEW i \in 1..(Len(P) - (k + 1)) PROVE t.pending[i] = P[(k + 1) + i]
      <4>1. i \in 1..(Len(q) - 1) /\ i + 1 \in 1..(Len(P) - k) /\ k + (i + 1) = (k + 1) + i
        BY <2>7
      <4>2. t.pending[i] = q[i + 1]
        BY <2>10, <3>6, <4>1 DEF Removed
      <4>3. q[i + 1] = P[k + (i + 1)]
        BY <1>3, <3>1, <4>1 DEF InRow
      <4> QED
        BY <4>1, <4>2, <4>3
    <3> QED
      BY <3>8, <3>9 DEF InRow
  <2> QED
    BY <2>8, <2>11, <2>13, <2>14 DEF Given
<1> QED
  BY <1>1, <1>2, <1>3, <1>5 DEF Responding

\* After all responses, all results are given.
LEMMA StepsRespond ==
    ASSUME NEW rid, NEW d, State(d), NEW parts,
           NEW n \in Nat, NEW f, Steps(f, rid, d, parts, n),
           \A k \in 1..n : parts[k].type = "functionResponse"
    PROVE  Responding(f[n], d, parts, n, n)
<1> DEFINE P == {k \in Nat : k <= n => Responding(f[k], d, parts, k, n)}
<1>1. 0 \in P
  <2>1. Begins(f[0], d)
    BY StepsTaken DEF Taken
  <2>2. Responding(f[0], d, parts, 0, n)
    BY <2>1, RespondingNone
  <2> QED
    BY <2>2
<1>2. ASSUME NEW k \in Nat, k \in P PROVE k + 1 \in P
  <2> SUFFICES ASSUME k + 1 <= n PROVE Responding(f[k + 1], d, parts, k + 1, n)
    OBVIOUS
  <2>1. Responding(f[k], d, parts, k, n) /\ k < n /\ k + 1 \in 1..n
    BY <1>2
  <2>2. Full(f[k])
    BY <2>1 DEF Responding, State
  <2>3. PICK part : part = parts[k + 1]
    OBVIOUS
  <2>4. Moves(f[k], f[k + 1], part)
    BY <2>1, <2>2, <2>3, StepMoves
  <2>5. part.type = "functionResponse"
    BY <2>1, <2>3
  <2> QED
    BY <2>1, <2>3, <2>4, <2>5, RespondingMore
<1> HIDE DEF P
<1>3. Nat \subseteq P
  BY <1>1, <1>2, SetInduction
<1> QED
  BY <1>3 DEF P

\* A content of responses.
GivesContent(t, d, c, role, R) ==
    /\ IsSeq(R) /\ Longer(t.messages, d.messages, Message(role, R))
    /\ Len(R) = Len(c.parts)
    /\ Len(t.pending) = Len(d.pending) - Len(R)
    /\ \A k \in 1..Len(R) : Gives(R[k], c.parts[k])
    /\ InOrder(c.parts, d.pending, Len(R)) => \A k \in 1..Len(R) : R[k].id = d.pending[k].id

\* A content of responses becomes a message of results.
LEMMA GivenContent ==
    ASSUME NEW rid, NEW d, State(d), NEW c, IsSeq(c.parts), AllOf(c.parts, "functionResponse"),
           NEW t, t = Content!TranslateContent(rid, d, c), t.ok
    PROVE  \E role, R : GivesContent(t, d, c, role, R)
<1>1. PICK n \in Nat : n = Len(c.parts) /\ DOMAIN c.parts = 1..n
  BY IsSeqFields
<1>2. Passes(t, rid, d, c)
  BY PassesIs
<1>3. PICK f, role : Steps(f, rid, d, c.parts, n) /\ Ends(t, f[n], role)
  BY <1>1, <1>2 DEF Passes
<1>4. \A k \in 1..n : c.parts[k].type = "functionResponse"
  BY <1>1 DEF AllOf
<1>5. PICK e, R, P : e = f[n] /\ R = e.content /\ P = d.pending
  OBVIOUS
<1>6. Responding(e, d, c.parts, n, n) /\ Ends(t, e, role)
  BY <1>3, <1>4, <1>5, StepsRespond
<1>7. State(e) /\ e.messages = d.messages /\ IsSeq(R)
  BY <1>5, <1>6 DEF Responding, State
<1>8. Ended(t, e, role)
  BY <1>6, <1>7, EndsIs
<1>9. Given(e, P, c.parts, n, n)
  BY <1>5, <1>6, <1>8 DEF Ended, Responding
<1>10. Longer(t.messages, d.messages, Message(role, R)) /\ t.pending = e.pending
  BY <1>5, <1>7, <1>8 DEF Ended
<1>11. Len(R) = n /\ Len(t.pending) = Len(P) - n /\ \A k \in 1..n : Gives(R[k], c.parts[k])
  BY <1>5, <1>9, <1>10 DEF Given
<1>12. InOrder(c.parts, P, n) => \A k \in 1..n : R[k].id = P[k].id
  BY <1>5, <1>9 DEF Given, InRow
<1>13. GivesContent(t, d, c, role, R)
  BY <1>1, <1>5, <1>7, <1>10, <1>11, <1>12 DEF GivesContent
<1> QED
  BY <1>13

\* The messages are valid.
Valids(ms) == \A i \in DOMAIN ms : MessageValid(ms[i])

\* One message more.
ContentsGrow(us, ms, role, E) ==
    /\ Formed(us) /\ Contents(us) = Contents(ms) \o E
    /\ Valids(us) => Valids(ms) /\ MessageValid(Message(role, E))

\* One message more.
LEMMA ContentsLonger ==
    ASSUME NEW ms, Formed(ms), NEW role, NEW E, IsSeq(E),
           NEW us, Longer(us, ms, Message(role, E))
    PROVE  ContentsGrow(us, ms, role, E)
<1>1. PICK x : x = Message(role, E)
  OBVIOUS
<1>2. x.content = E
  BY <1>1 DEF Message
<1>3. PICK n \in Nat : n = Len(ms) /\ DOMAIN ms = 1..n
  BY IsSeqFields DEF Formed
<1>4. Grown(us, ms, x)
  BY <1>1, LongerAt DEF Formed
<1>5. IsSeq(us) /\ Len(us) = n + 1 /\ us[n + 1] = x /\ \A k \in 1..n : us[k] = ms[k]
  BY <1>3, <1>4 DEF Grown
<1>6. DOMAIN us = 1..(n + 1)
  BY <1>5, IsSeqFields
<1>7. \A k \in 1..(n + 1) : k \in 1..n \/ k = n + 1
  OBVIOUS
<1>8. Formed(us)
  <2> SUFFICES ASSUME NEW k \in 1..(n + 1) PROVE IsSeq(us[k].content)
    BY <1>5, <1>6 DEF Formed
  <2>1. CASE k \in 1..n
    BY <1>3, <1>5, <2>1 DEF Formed
  <2>2. CASE k = n + 1
    BY <1>2, <1>5, <2>2
  <2> QED
    BY <1>7, <2>1, <2>2
<1>9. PICK uu, ss : uu = ContentRows(us) /\ ss = ContentRows(ms)
  OBVIOUS
<1>10. AreRows(uu, n + 1) /\ Contents(us) = FlattenSeq(uu)
  BY <1>5, <1>8, <1>9, ContentsRows
<1>11. AreRows(ss, n) /\ Contents(ms) = FlattenSeq(ss)
  BY <1>3, <1>9, ContentsRows
<1>12. \A k \in 1..(n + 1) : uu[k] = us[k].content
  BY <1>5, <1>9 DEF ContentRows
<1>13. ss = [k \in 1..n |-> ms[k].content]
  BY <1>3, <1>9 DEF ContentRows
<1>14. PICK tt : tt = [k \in 1..1 |-> E]
  BY Zenon
<1>15. Splits(uu, ss, n, tt, 1)
  <2>1. ss = [k \in 1..n |-> uu[k]]
    BY <1>5, <1>12, <1>13
  <2>2. \A k \in 1..1 : n + k = n + 1 /\ uu[n + k] = E
    BY <1>2, <1>5, <1>12
  <2>3. tt = [k \in 1..1 |-> uu[n + k]]
    BY <1>14, <2>2
  <2> QED
    BY <2>1, <2>3 DEF Splits
<1>16. FlattenSeq(uu) = FlattenSeq(ss) \o FlattenSeq(tt)
  <2>1. PICK one \in Nat : one = 1
    OBVIOUS
  <2>2. AreRows(uu, n + one) /\ Splits(uu, ss, n, tt, one)
    BY <1>10, <1>15, <2>1
  <2> QED
    BY <2>2, FlattenJoin
<1>17. FlattenSeq(tt) = E
  BY <1>14, FlattenOne
<1>18. ASSUME Valids(us) PROVE Valids(ms) /\ MessageValid(x)
  BY <1>3, <1>5, <1>6, <1>7, <1>18 DEF Valids
<1> QED
  BY <1>1, <1>8, <1>10, <1>11, <1>16, <1>17, <1>18 DEF ContentsGrow

\* The answers a Gemini client gets.
GemShaped(part) ==
    \/ part.type \in {"text", "inlineData"}
    \/ \E id, name, args, signature :
          id # NoID /\ part = Content!FunctionCall(id, name, args, signature)
GemShape(parts) == IsSeq(parts) /\ \A k \in DOMAIN parts : GemShaped(parts[k])

\* What the client sends back of a part.
EchoPart(part, style) ==
    IF part.type = "functionCall" /\ style = "none" THEN [part EXCEPT !.id = NoID] ELSE part

\* The call in the IR is the one in the answer, but for its ID.
SameCall(x, part, style) ==
    /\ x.type = "tool_call" /\ x.name = part.name /\ x.arguments = part.args
    /\ x.signature = part.signature
    /\ style # "none" => x.id = part.id

\* What the gateway makes of a part that the client echoes.
EchoReads(x, part, style) ==
    \/ part.type = "functionCall" /\ SameCall(x, part, style)
    \/ part.type = "inlineData" /\ x.type = "image"
    \/ part.type = "text" /\ x.type = "text"

\* An echoed part is read as what it was.
LEMMA EchoRead ==
    ASSUME NEW part, GemShaped(part), NEW style, NEW x, ReadsPart(x, EchoPart(part, style))
    PROVE  EchoReads(x, part, style) /\ EchoPart(part, style).type # "functionResponse"
<1>1. CASE part.type \in {"text", "inlineData"}
  <2>1. EchoPart(part, style) = part
    BY <1>1 DEF EchoPart
  <2>2. ReadsPart(x, part)
    BY <2>1
  <2> QED
    BY <1>1, <2>1, <2>2 DEF ReadsPart, EchoReads, Image, Text
<1>2. CASE part.type \notin {"text", "inlineData"}
  <2>1. PICK id, name, args, signature :
            id # NoID /\ part = Content!FunctionCall(id, name, args, signature)
    BY <1>2 DEF GemShaped
  <2>2. /\ part.type = "functionCall" /\ part.id = id /\ part.name = name /\ part.args = args
        /\ part.signature = signature
    BY <2>1 DEF Content!FunctionCall
  <2>3. PICK sent : sent = EchoPart(part, style)
    OBVIOUS
  <2>4. /\ sent.type = "functionCall" /\ sent.name = name /\ sent.args = args
        /\ sent.signature = signature /\ (style # "none" => sent.id = id)
    <3>1. CASE style = "none"
      <4>1. PICK no : no = NoID
        OBVIOUS
      <4>2. sent = [part EXCEPT !.id = no]
        BY <2>2, <2>3, <3>1, <4>1 DEF EchoPart
      <4>3. sent = [type |-> "functionCall", id |-> no, name |-> name, args |-> args,
                    signature |-> signature]
        BY <2>1, <4>2 DEF Content!FunctionCall
      <4> QED
        BY <3>1, <4>3
    <3>2. CASE style # "none"
      BY <2>2, <2>3, <3>2 DEF EchoPart
    <3> QED
      BY <3>1, <3>2
  <2>5. PICK other : /\ sent.id # NoID => other = sent.id
                     /\ x = ToolCall(other, name, args, signature)
    BY <2>3, <2>4 DEF ReadsPart
  <2>6. /\ x.type = "tool_call" /\ x.id = other /\ x.name = name /\ x.arguments = args
        /\ x.signature = signature
    BY <2>5 DEF ToolCall
  <2>7. SameCall(x, part, style)
    BY <2>1, <2>2, <2>4, <2>5, <2>6 DEF SameCall
  <2> QED
    BY <2>2, <2>3, <2>4, <2>7 DEF EchoReads
<1> QED
  BY <1>1, <1>2

-----------------------------------------------------------------------------
(***************************************************************************)
(* A Gemini client echoes calls in its style, and the gateway finds them   *)
(* again.                                                                  *)
(***************************************************************************)
\* A client echoes no responses.
LEMMA EchoNoResponse ==
    ASSUME NEW part, GemShaped(part), NEW style
    PROVE  EchoPart(part, style).type # "functionResponse"
<1>1. CASE part.type \in {"text", "inlineData"}
  BY <1>1 DEF EchoPart
<1>2. CASE part.type \notin {"text", "inlineData"}
  <2>1. PICK id, name, args, signature : part = Content!FunctionCall(id, name, args, signature)
    BY <1>2 DEF GemShaped
  <2>2. PICK no : no = NoID
    OBVIOUS
  <2>3. part.type = "functionCall"
    BY <2>1 DEF Content!FunctionCall
  <2>4. [part EXCEPT !.id = no].type = "functionCall"
    BY <2>1 DEF Content!FunctionCall
  <2> QED
    BY <2>2, <2>3, <2>4 DEF EchoPart
<1> QED
  BY <1>1, <1>2

\* The calls C are the echo of the calls of the answer.
EchoedCalls(C, calls, style) ==
    /\ IsSeq(C) /\ IsSeq(calls) /\ Len(C) = Len(calls)
    /\ \A k \in 1..Len(calls) : SameCall(C[k], calls[k], style)

\* The answer is said again.
Echoed(t, d, parts, style, E) ==
    /\ State(t) /\ t.ok = d.ok /\ Formed(t.messages) /\ Pended(t.pending, E)
    /\ IsSeq(E) /\ Contents(t.messages) = Contents(d.messages) \o E
    /\ Valids(t.messages) => Valids(d.messages) /\ Quiet(E)
    /\ EchoedCalls(OfType(E, "tool_call"), OfType(parts, "functionCall"), style)

\* The content with which a client echoes the parts of an answer.
IsEcho(c, parts, style) ==
    /\ c.role = "model"
    /\ c.parts = [k \in DOMAIN parts |-> EchoPart(parts[k], style)]

\* The gateway reads the echo: the calls are there, and open.
LEMMA EchoStep ==
    ASSUME NEW parts, GemShape(parts), NEW style, NEW c, IsEcho(c, parts, style), NEW rid,
           NEW d, State(d), Formed(d.messages), d.pending = << >>,
           NEW t, t = Content!TranslateContent(rid, d, c)
    PROVE  \E E : Echoed(t, d, parts, style, E)
<1>1. IsSeq(parts) /\ \A k \in DOMAIN parts : GemShaped(parts[k])
  BY DEF GemShape
<1>2. PICK n \in Nat : n = Len(parts) /\ DOMAIN parts = 1..n
  BY <1>1, IsSeqFields
<1>3. \A k \in 1..n : c.parts[k] = EchoPart(parts[k], style)
  BY <1>2 DEF IsEcho
<1>4. c.parts = [k \in 1..n |-> c.parts[k]]
  BY <1>2 DEF IsEcho
<1>5. IsSeq(c.parts) /\ Len(c.parts) = n
  BY <1>4, IsSeqMap
<1>6. NoneOf(c.parts, "functionResponse")
  BY <1>1, <1>2, <1>3, <1>4, EchoNoResponse DEF NoneOf
<1>7. PICK role, E : SaysContent(t, d, c, role, E) /\ role = "assistant"
  BY <1>5, <1>6, SaidContent DEF IsEcho
<1>8. /\ State(t) /\ t.ok = d.ok /\ Pended(t.pending, E) /\ IsSeq(E) /\ Len(E) = n
      /\ Longer(t.messages, d.messages, Message(role, E))
  BY <1>5, <1>7 DEF SaysContent
<1>9. \A k \in 1..n : ReadsPart(E[k], EchoPart(parts[k], style))
  BY <1>3, <1>5, <1>7 DEF SaysContent
<1>10. \A k \in 1..n : EchoReads(E[k], parts[k], style)
  BY <1>1, <1>2, <1>9, EchoRead
<1>11. ContentsGrow(t.messages, d.messages, role, E)
  BY <1>8, ContentsLonger
<1>12. ASSUME Valids(t.messages) PROVE Valids(d.messages) /\ Quiet(E)
  <2>1. Valids(d.messages) /\ MessageValid(Message(role, E))
    BY <1>11, <1>12 DEF ContentsGrow
  <2>2. PICK m : m = Message(role, E)
    OBVIOUS
  <2>3. m.content = E /\ m.role = "assistant"
    BY <1>7, <2>2 DEF Message
  <2>4. \A i \in DOMAIN E : E[i].type \in Allowed("assistant")
    BY <2>1, <2>2, <2>3 DEF MessageValid
  <2>5. Allowed("assistant") = {"text", "tool_call"}
    BY DEF Allowed
  <2> QED
    BY <2>1, <2>4, <2>5 DEF Quiet
<1>13. DOMAIN E = 1..n
  BY <1>8, IsSeqFields
<1>14. Mirrors(E, parts, "tool_call", "functionCall")
  <2>1. E = [k \in 1..n |-> E[k]]
    BY <1>8, <1>13 DEF IsSeq
  <2>2. \A k \in 1..n : parts[k].type = "functionCall" <=> E[k].type = "tool_call"
    BY <1>10 DEF EchoReads, SameCall
  <2> QED
    BY <1>2, <2>1, <2>2 DEF Mirrors
<1>15. Aligned(E, parts, "tool_call", "functionCall")
  BY <1>1, <1>14, MirrorAligned
<1>16. PICK C, calls : C = OfType(E, "tool_call") /\ calls = OfType(parts, "functionCall")
  OBVIOUS
<1>17. /\ IsSeq(C) /\ IsSeq(calls) /\ Len(C) = Len(calls)
       /\ \A j \in 1..Len(calls) : \E k \in DOMAIN parts :
             parts[k].type = "functionCall" /\ calls[j] = parts[k] /\ C[j] = E[k]
  BY <1>15, <1>16 DEF Aligned
<1>18. \A j \in 1..Len(calls) : SameCall(C[j], calls[j], style)
  BY <1>2, <1>10, <1>17 DEF EchoReads
<1>19. EchoedCalls(C, calls, style)
  BY <1>17, <1>18 DEF EchoedCalls
<1>20. Echoed(t, d, parts, style, E)
  BY <1>8, <1>11, <1>12, <1>16, <1>19 DEF Echoed, ContentsGrow
<1> QED
  BY <1>20

\* The calls that a Gemini client has made.
MakesSigned(N, calls, no) ==
    /\ IsSeq(N) /\ Len(N) = Len(calls)
    /\ \A k \in 1..Len(calls) :
          /\ N[k].name = calls[k].name /\ N[k].arguments = calls[k].args
          /\ N[k].signature = calls[k].signature /\ N[k].isError = no

\* The content with which a client gives the results of the calls.
IsResults(c, calls, order, style) ==
    c.parts = [k \in 1..Len(calls) |->
        Content!FunctionResponse(IF style = "ids" THEN calls[order[k]].id ELSE NoID,
                                 calls[order[k]].name, calls[order[k]].args, FALSE)]

\* A client without IDs gives the results in the order of the calls.
InStyle(order, n, style) ==
    /\ order \in [1..n -> 1..n]
    /\ style # "ids" => order = [k \in 1..n |-> k]

\* Every call has an ID.
HasIDs(calls) == \A k \in 1..Len(calls) : calls[k].id # NoID

\* The results are said.
Resulted(t, e, N, C, order, R) ==
    /\ Formed(t.messages) /\ t.pending = << >>
    /\ IsSeq(R) /\ Contents(t.messages) = Contents(e.messages) \o R
    /\ Valids(t.messages) => Valids(e.messages)
    /\ AnswersInOrder(R, C, N, order)

\* The gateway reads the results: each is that of its call, whatever the client's style.
LEMMA ResultsStep ==
    ASSUME NEW style, NEW E, NEW C, C = OfType(E, "tool_call"), NEW calls, HasIDs(calls),
           EchoedCalls(C, calls, style), NEW order, InStyle(order, Len(calls), style),
           NEW N, MakesSigned(N, calls, FALSE), NEW c, IsResults(c, calls, order, style),
           NEW rid, NEW e, State(e), Formed(e.messages), Pended(e.pending, E),
           NEW t, t = Content!TranslateContent(rid, e, c), t.ok
    PROVE  \E R : Resulted(t, e, N, C, order, R)
<1>1. PICK n \in Nat : n = Len(calls)
  BY IsSeqFields DEF EchoedCalls
<1>2. PICK q : q = e.pending
  OBVIOUS
<1>3. IsSeq(q) /\ Len(q) = n /\ \A j \in 1..n : q[j].id = C[j].id /\ q[j].name = C[j].name
  BY <1>1, <1>2 DEF Pended, EchoedCalls
<1>4. \A k \in 1..n : SameCall(C[k], calls[k], style)
  BY <1>1 DEF EchoedCalls
<1>5. order \in [1..n -> 1..n] /\ (style # "ids" => order = [k \in 1..n |-> k])
  BY <1>1 DEF InStyle
<1>6. PICK no : no = FALSE
  BY Zenon
<1>7. ASSUME NEW k \in 1..n
      PROVE  /\ c.parts[k].type = "functionResponse"
             /\ c.parts[k].name = calls[order[k]].name /\ c.parts[k].outcome = calls[order[k]].args
             /\ style = "ids" => c.parts[k].id = calls[order[k]].id
             /\ style # "ids" => c.parts[k].id = NoID
  <2>1. PICK id, name, args : /\ id = IF style = "ids" THEN calls[order[k]].id ELSE NoID
                              /\ name = calls[order[k]].name /\ args = calls[order[k]].args
    OBVIOUS
  <2>2. c.parts[k] = Content!FunctionResponse(id, name, args, FALSE)
    BY <1>1, <1>7, <2>1 DEF IsResults
  <2>3. /\ c.parts[k].type = "functionResponse" /\ c.parts[k].id = id
        /\ c.parts[k].name = name /\ c.parts[k].outcome = args
    BY <2>2 DEF Content!FunctionResponse
  <2> QED
    BY <2>1, <2>3
<1>8. c.parts = [k \in 1..n |-> c.parts[k]]
  BY <1>1 DEF IsResults
<1>9. IsSeq(c.parts) /\ Len(c.parts) = n /\ DOMAIN c.parts = 1..n
  BY <1>8, IsSeqMap
<1>10. AllOf(c.parts, "functionResponse")
  BY <1>7, <1>9 DEF AllOf
<1>11. PICK role, R : GivesContent(t, e, c, role, R)
  BY <1>9, <1>10, GivenContent
<1>12. /\ IsSeq(R) /\ Longer(t.messages, e.messages, Message(role, R)) /\ Len(R) = n
       /\ Len(t.pending) = n - n /\ \A k \in 1..n : Gives(R[k], c.parts[k])
  BY <1>2, <1>3, <1>9, <1>11 DEF GivesContent
<1>13. ContentsGrow(t.messages, e.messages, role, R)
  BY <1>12, ContentsLonger
<1>14. t.pending = << >>
  <2>2. AddsMessage(t, e)
    BY <1>9, AnyContent
  <2>3. PICK p : p = t.pending
    OBVIOUS
  <2>4. IsSeq(p) /\ Len(p) = 0
    BY <1>12, <2>2, <2>3 DEF AddsMessage, State
  <2> QED
    BY <2>3, <2>4 DEF IsSeq
<1>15. ASSUME NEW k \in 1..n
       PROVE  R[k].type = "tool_result" /\ Answers(R[k], C[order[k]], N[order[k]])
  <2>1. order[k] \in 1..n
    BY <1>5
  <2>2. PICK id, name, out : /\ R[k] = ToolResult(id, name, "object", out, no)
                             /\ c.parts[k].id # NoID => id = c.parts[k].id
                             /\ out = c.parts[k].outcome
    BY <1>6, <1>12, Zenon DEF Gives
  <2>3. /\ R[k].type = "tool_result" /\ R[k].id = id /\ R[k].outcome = out
        /\ R[k].isError = no
    BY <2>2 DEF ToolResult
  <2>4. R[k].id = C[order[k]].id
    <3>1. CASE style = "ids"
      <4>1. c.parts[k].id = calls[order[k]].id /\ calls[order[k]].id # NoID
        BY <1>1, <1>7, <2>1, <3>1 DEF HasIDs
      <4>2. C[order[k]].id = calls[order[k]].id
        BY <1>4, <2>1, <3>1 DEF SameCall
      <4> QED
        BY <2>2, <2>3, <4>1, <4>2
    <3>2. CASE style # "ids"
      <4>1. \A i \in 1..n : order[i] = i
        BY <1>5, <3>2
      <4>2. \A i \in 1..n : c.parts[i].id = NoID /\ c.parts[i].name = q[i].name
        <5> SUFFICES ASSUME NEW i \in 1..n
                     PROVE  c.parts[i].id = NoID /\ c.parts[i].name = q[i].name
          OBVIOUS
        <5>1. c.parts[i].id = NoID /\ c.parts[i].name = calls[order[i]].name
          BY <1>7, <3>2
        <5>2. calls[i].name = C[i].name
          BY <1>4 DEF SameCall
        <5> QED
          BY <1>3, <4>1, <5>1, <5>2
      <4>3. InOrder(c.parts, q, n)
        BY <1>3, <4>2 DEF InOrder
      <4>4. R[k].id = q[k].id
        BY <1>2, <1>11, <1>12, <4>3 DEF GivesContent
      <4> QED
        BY <1>3, <4>1, <4>4
    <3> QED
      BY <3>1, <3>2
  <2>5. R[k].outcome = N[order[k]].arguments
    BY <1>1, <1>7, <2>1, <2>2, <2>3 DEF MakesSigned
  <2>6. N[order[k]].isError = no
    BY <1>1, <1>6, <2>1, Zenon DEF MakesSigned
  <2>7. Answers(R[k], C[order[k]], N[order[k]])
    BY <1>6, <2>3, <2>4, <2>5, <2>6 DEF Answers
  <2> QED
    BY <2>3, <2>7
<1>16. AnswersInOrder(R, C, N, order)
  BY <1>1, <1>12, <1>15 DEF AnswersInOrder, MakesSigned
<1>17. Resulted(t, e, N, C, order, R)
  BY <1>12, <1>13, <1>14, <1>16 DEF Resulted, ContentsGrow
<1> QED
  BY <1>17

-----------------------------------------------------------------------------
(***************************************************************************)
(* The histories of Gemini clients.                                        *)
(***************************************************************************)
\* Concatenation is associative.
LEMMA JoinThrice ==
    ASSUME NEW a, IsSeq(a), NEW b, IsSeq(b), NEW c, IsSeq(c)
    PROVE  (a \o b) \o c = a \o (b \o c)
<1> DEFINE S == ToSet(a) \cup ToSet(b) \cup ToSet(c)
<1>1. a \in Seq(ToSet(a)) /\ b \in Seq(ToSet(b)) /\ c \in Seq(ToSet(c))
  BY DEF IsSeq
<1>2. ToSet(a) \subseteq S /\ ToSet(b) \subseteq S /\ ToSet(c) \subseteq S
  OBVIOUS
<1> HIDE DEF S
<1>3. a \in Seq(S) /\ b \in Seq(S) /\ c \in Seq(S)
  BY <1>1, <1>2
<1> QED
  BY <1>3

\* Content without calls and images changes nothing.
LEMMA FaithfulSame ==
    ASSUME NEW C, NEW M, NEW im, Faithful(C, M, im), NEW D, Faithful(D, << >>, << >>)
    PROVE  Faithful(C \o D, M, im)
<1>1. Faithful(C \o D, M \o << >>, im \o << >>)
  BY FaithfulJoin, Zenon
<1>2. IsSeq(M) /\ im = OfType(C, "image") /\ IsSeq(C)
  BY DEF Faithful, SameCalls
<1>3. IsSeq(im)
  BY <1>2, OfTypeMembers
<1>4. M \o << >> = M /\ im \o << >> = im
  BY <1>2, <1>3 DEF IsSeq
<1> QED
  BY <1>1, <1>4

\* The gateway accepts every content.
Accepts(h) == \A i \in DOMAIN h : Content!ContentAccepted(h[i])

\* The translation of a history of which the last content is c.
Further(t, d, rid, h, c, g) ==
    /\ IsSeq(g) /\ t = Content!TranslateContent(rid, d, c)
    /\ State(t) /\ Formed(t.messages)
    /\ t.ok => d.ok
    /\ Valids(t.messages) => Valids(d.messages)
    /\ Accepts(g) => Accepts(h) /\ Content!ContentAccepted(c)

\* One content further in the history.
LEMMA OneFurther ==
    ASSUME NEW h, IsSeq(h), NEW c, IsSeq(c.parts), NEW g, g = h \o <<c>>, NEW rid,
           NEW d, d = Content!TranslateContents(rid, h), State(d), Formed(d.messages),
           NEW t, t = Content!TranslateContents(rid, g)
    PROVE  Further(t, d, rid, h, c, g)
<1>1. IsSeq(g) /\ t = Content!TranslateContent(rid, d, c)
  BY TranslatedMore
<1>2. AddsMessage(t, d)
  BY <1>1, AnyContent
<1>3. PICK role, E : IsSeq(E) /\ Longer(t.messages, d.messages, Message(role, E))
  BY <1>2 DEF AddsMessage
<1>4. ContentsGrow(t.messages, d.messages, role, E)
  BY <1>3, ContentsLonger
<1>5. ASSUME Accepts(g) PROVE Accepts(h) /\ Content!ContentAccepted(c)
  <2>1. PICK e : e = <<c>>
    OBVIOUS
  <2>2. IsSeq(e) /\ Len(e) = 1 /\ e[1] = c
    BY <2>1, IsSeqTuples
  <2>3. Joins(g, h, e)
    BY <2>1, <2>2, JoinsConcat
  <2>4. PICK n \in Nat : n = Len(h) /\ DOMAIN h = 1..n
    BY IsSeqFields
  <2>5. Len(g) = n + 1 /\ g[n + 1] = c /\ \A k \in 1..n : g[k] = h[k]
    BY <2>2, <2>3, <2>4 DEF Joins
  <2>6. DOMAIN g = 1..(n + 1)
    BY <1>1, <2>5, IsSeqFields
  <2> QED
    BY <1>5, <2>4, <2>5, <2>6 DEF Accepts
<1> QED
  BY <1>1, <1>2, <1>4, <1>5 DEF Further, AddsMessage, ContentsGrow

\* A content with which a client opens or goes on.
Opens(c) ==
    /\ IsSeq(c.parts)
    /\ \A k \in DOMAIN c.parts : c.parts[k].type \in {"text", "inlineData", "fileData"}

\* The client says something more.
Opened(t, d, c, E) ==
    /\ t.pending = << >>
    /\ IsSeq(E) /\ Contents(t.messages) = Contents(d.messages) \o E
    /\ Faithful(E, << >>, OfType(E, "image"))
    /\ Len(E) = Len(c.parts)
    /\ \A k \in 1..Len(E) : ReadsPart(E[k], c.parts[k])

\* The gateway reads what the client says.
LEMMA OpeningStep ==
    ASSUME NEW c, Opens(c), NEW rid,
           NEW d, State(d), Formed(d.messages), d.pending = << >>,
           NEW t, t = Content!TranslateContent(rid, d, c)
    PROVE  \E E : Opened(t, d, c, E)
<1>1. IsSeq(c.parts) /\ NoneOf(c.parts, "functionResponse")
  BY DEF Opens, NoneOf
<1>2. PICK n \in Nat : n = Len(c.parts) /\ DOMAIN c.parts = 1..n
  BY <1>1, IsSeqFields
<1>3. PICK role, E : SaysContent(t, d, c, role, E)
  BY <1>1, SaidContent
<1>4. /\ Pended(t.pending, E) /\ IsSeq(E) /\ Len(E) = n
      /\ Longer(t.messages, d.messages, Message(role, E))
      /\ \A k \in 1..n : ReadsPart(E[k], c.parts[k])
  BY <1>2, <1>3 DEF SaysContent
<1>5. DOMAIN E = 1..n
  BY <1>4, IsSeqFields
<1>6. \A k \in 1..n : E[k].type \in {"text", "image"}
  <2> SUFFICES ASSUME NEW k \in 1..n PROVE E[k].type \in {"text", "image"}
    OBVIOUS
  <2>1. E[k] = Image("inline") \/ E[k] = Text
    BY <1>2, <1>4, Zenon DEF ReadsPart, Opens
  <2> QED
    BY <2>1 DEF Image, Text
<1>7. Faithful(E, << >>, OfType(E, "image"))
  BY <1>4, <1>5, <1>6, FaithfulSilent
<1>8. OfType(E, "tool_call") = << >>
  BY <1>4, <1>5, <1>6, OfTypeMembers
<1>9. t.pending = << >>
  <2>1. PICK p : p = t.pending
    OBVIOUS
  <2>2. IsSeq(p) /\ Len(p) = 0
    BY <1>4, <1>8, <2>1 DEF Pended
  <2> QED
    BY <2>1, <2>2 DEF IsSeq
<1>10. ContentsGrow(t.messages, d.messages, role, E)
  BY <1>4, ContentsLonger
<1>11. Opened(t, d, c, E)
  BY <1>2, <1>4, <1>7, <1>9, <1>10 DEF Opened, ContentsGrow
<1> QED
  BY <1>11

\* A history that keeps what was said, whatever ID the request gets.
Keeps(t, h, M, im) ==
    /\ State(t) /\ Formed(t.messages)
    /\ (t.ok /\ Accepts(h) /\ Valids(t.messages)) =>
          t.pending = << >> /\ Faithful(Contents(t.messages), M, im)
GemKept(h, M, im) ==
    /\ IsSeq(h)
    /\ \A rid, t : t = Content!TranslateContents(rid, h) => Keeps(t, h, M, im)

\* The client goes on after an answer without calls.
LEMMA GemMore ==
    ASSUME NEW h, NEW M, NEW im, GemKept(h, M, im), NEW parts, GemShape(parts),
           OfType(parts, "functionCall") = << >>, NEW style,
           NEW c, IsEcho(c, parts, style), NEW o, Opens(o),
           Len(o.parts) = 1, o.parts[1].type = "text",
           NEW g, g = h \o <<c>>, NEW k, k = g \o <<o>>
    PROVE  GemKept(k, M, im)
<1>1. IsSeq(h)
  BY DEF GemKept
<1>2. IsSeq(c.parts)
  <2>1. PICK n \in Nat : n = Len(parts) /\ DOMAIN parts = 1..n
    BY IsSeqFields DEF GemShape
  <2>2. c.parts = [i \in 1..n |-> c.parts[i]]
    BY <2>1 DEF IsEcho
  <2> QED
    BY <2>2, IsSeqMap
<1>3. IsSeq(o.parts)
  BY DEF Opens
<1>4. IsSeq(g)
  BY <1>1, TranslatedMore, Zenon
<1>5. IsSeq(k)
  BY <1>4, TranslatedMore, Zenon
<1>6. ASSUME NEW rid, NEW t, t = Content!TranslateContents(rid, k) PROVE Keeps(t, k, M, im)
  <2>1. PICK d, e : d = Content!TranslateContents(rid, h) /\ e = Content!TranslateContents(rid, g)
    OBVIOUS
  <2>2. Keeps(d, h, M, im)
    BY <2>1 DEF GemKept
  <2>3. State(d) /\ Formed(d.messages)
    BY <2>2 DEF Keeps
  <2>4. Further(e, d, rid, h, c, g)
    BY <1>1, <1>2, <2>1, <2>3, OneFurther, Zenon
  <2>5. State(e) /\ Formed(e.messages)
    BY <2>4 DEF Further
  <2>6. Further(t, e, rid, g, o, k)
    BY <1>3, <1>4, <1>6, <2>1, <2>5, OneFurther, Zenon
  <2>7. ASSUME t.ok, Accepts(k), Valids(t.messages)
        PROVE  t.pending = << >> /\ Faithful(Contents(t.messages), M, im)
    <3>1. e.ok /\ Accepts(g) /\ Valids(e.messages)
      BY <2>6, <2>7 DEF Further
    <3>2. d.ok /\ Accepts(h) /\ Valids(d.messages)
      BY <2>4, <3>1 DEF Further
    <3>3. d.pending = << >> /\ Faithful(Contents(d.messages), M, im)
      BY <2>2, <3>2 DEF Keeps
    <3>4. e = Content!TranslateContent(rid, d, c) /\ t = Content!TranslateContent(rid, e, o)
      BY <2>4, <2>6 DEF Further
    <3>5. PICK E : Echoed(e, d, parts, style, E)
      BY <2>3, <3>3, <3>4, EchoStep
    <3>6. IsSeq(E) /\ Contents(e.messages) = Contents(d.messages) \o E /\ Quiet(E)
          /\ EchoedCalls(OfType(E, "tool_call"), << >>, style) /\ Pended(e.pending, E)
      BY <3>1, <3>5 DEF Echoed
    <3>7. OfType(E, "tool_call") = << >> /\ OfType(E, "image") = << >>
      <4>1. PICK C : C = OfType(E, "tool_call")
        OBVIOUS
      <4>2. IsSeq(C) /\ Len(C) = 0
        BY <3>6, <4>1, OfTypeZero DEF EchoedCalls
      <4>3. C = << >>
        BY <4>2 DEF IsSeq
      <4>4. OfType(E, "image") = << >>
        BY <3>6, OfTypeMembers DEF Quiet
      <4> QED
        BY <4>1, <4>3, <4>4
    <3>8. \A i \in DOMAIN E : E[i].type \notin {"tool_call", "tool_result"}
      BY <3>6, <3>7, OfTypeMembers DEF Quiet
    <3>9. Faithful(E, << >>, << >>)
      BY <3>6, <3>7, <3>8, FaithfulSilent
    <3>10. e.pending = << >>
      <4>1. PICK p : p = e.pending
        OBVIOUS
      <4>2. IsSeq(p) /\ Len(p) = 0
        BY <3>6, <3>7, <4>1 DEF Pended
      <4> QED
        BY <4>1, <4>2 DEF IsSeq
    <3>11. PICK D : Opened(t, e, o, D)
      BY <2>5, <3>4, <3>10, OpeningStep
    <3>12. IsSeq(D) /\ Len(D) = 1 /\ ReadsPart(D[1], o.parts[1])
      BY <3>11 DEF Opened
    <3>13. D[1].type = "text"
      BY <3>12 DEF ReadsPart, Text
    <3>14. OfType(D, "image") = << >>
      <4>1. DOMAIN D = 1..1
        BY <3>12, IsSeqFields
      <4>2. \A i \in DOMAIN D : D[i].type # "image"
        BY <3>13, <4>1
      <4> QED
        BY <3>12, <4>2, OfTypeMembers
    <3>15. Faithful(D, << >>, << >>) /\ t.pending = << >>
           /\ Contents(t.messages) = Contents(e.messages) \o D
      BY <3>11, <3>14 DEF Opened
    <3>16. Faithful(Contents(e.messages), M, im)
      BY <3>3, <3>6, <3>9, FaithfulSame
    <3>17. Faithful(Contents(t.messages), M, im)
      BY <3>15, <3>16, FaithfulSame
    <3> QED
      BY <3>15, <3>17
  <2> QED
    BY <2>6, <2>7 DEF Further, Keeps
<1> QED
  BY <1>5, <1>6, Zenon DEF GemKept

\* The client goes on with the results of its calls.
LEMMA GemRound ==
    ASSUME NEW h, NEW M, NEW im, GemKept(h, M, im), NEW parts, GemShape(parts),
           NEW style, NEW c, IsEcho(c, parts, style),
           NEW calls, calls = OfType(parts, "functionCall"), HasIDs(calls),
           NEW order, InStyle(order, Len(calls), style), Onto(order, Len(calls)),
           NEW N, MakesSigned(N, calls, FALSE), NEW o, IsResults(o, calls, order, style),
           NEW g, g = h \o <<c>>, NEW k, k = g \o <<o>>
    PROVE  GemKept(k, M \o N, im)
<1>1. IsSeq(h)
  BY DEF GemKept
<1>2. IsSeq(c.parts)
  <2>1. PICK n \in Nat : n = Len(parts) /\ DOMAIN parts = 1..n
    BY IsSeqFields DEF GemShape
  <2>2. c.parts = [i \in 1..n |-> c.parts[i]]
    BY <2>1 DEF IsEcho
  <2> QED
    BY <2>2, IsSeqMap
<1>3. IsSeq(o.parts)
  <2>1. IsSeq(calls)
    BY OfTypeMembers DEF GemShape
  <2>2. PICK n \in Nat : n = Len(calls)
    BY <2>1, IsSeqFields
  <2>3. o.parts = [i \in 1..n |-> o.parts[i]]
    BY <2>2 DEF IsResults
  <2> QED
    BY <2>3, IsSeqMap
<1>4. IsSeq(g)
  BY <1>1, TranslatedMore
<1>5. IsSeq(k)
  BY <1>4, TranslatedMore, Zenon
<1>6. ASSUME NEW rid, NEW t, t = Content!TranslateContents(rid, k)
      PROVE  Keeps(t, k, M \o N, im)
  <2>1. PICK d, e : d = Content!TranslateContents(rid, h) /\ e = Content!TranslateContents(rid, g)
    OBVIOUS
  <2>2. Keeps(d, h, M, im)
    BY <2>1 DEF GemKept
  <2>3. State(d) /\ Formed(d.messages)
    BY <2>2 DEF Keeps
  <2>4. Further(e, d, rid, h, c, g)
    BY <1>1, <1>2, <2>1, <2>3, OneFurther, Zenon
  <2>5. State(e) /\ Formed(e.messages)
    BY <2>4 DEF Further
  <2>6. Further(t, e, rid, g, o, k)
    BY <1>3, <1>4, <1>6, <2>1, <2>5, OneFurther, Zenon
  <2>7. ASSUME t.ok, Accepts(k), Valids(t.messages)
        PROVE  t.pending = << >> /\ Faithful(Contents(t.messages), M \o N, im)
    <3>1. e.ok /\ Accepts(g) /\ Valids(e.messages)
      BY <2>6, <2>7 DEF Further
    <3>2. d.ok /\ Accepts(h) /\ Valids(d.messages)
      BY <2>4, <3>1 DEF Further
    <3>3. d.pending = << >> /\ Faithful(Contents(d.messages), M, im)
      BY <2>2, <3>2 DEF Keeps
    <3>4. e = Content!TranslateContent(rid, d, c) /\ t = Content!TranslateContent(rid, e, o)
      BY <2>4, <2>6 DEF Further
    <3>5. PICK E : Echoed(e, d, parts, style, E)
      BY <2>3, <3>3, <3>4, EchoStep
    <3>6. PICK C : C = OfType(E, "tool_call")
      OBVIOUS
    <3>7. IsSeq(E) /\ Contents(e.messages) = Contents(d.messages) \o E /\ Quiet(E)
          /\ EchoedCalls(C, calls, style) /\ Pended(e.pending, E)
      BY <3>1, <3>5, <3>6 DEF Echoed
    <3>8. PICK R : Resulted(t, e, N, C, order, R)
      BY <2>5, <2>7, <3>4, <3>6, <3>7, ResultsStep, Zenon
    <3>9. /\ t.pending = << >> /\ IsSeq(R) /\ Contents(t.messages) = Contents(e.messages) \o R
          /\ AnswersInOrder(R, C, N, order)
      BY <3>8 DEF Resulted
    <3>10. SameCalls(C, N) /\ Len(N) = Len(calls)
      BY <3>7 DEF SameCalls, EchoedCalls, MakesSigned, SameCall
    <3>11. Faithful(E \o R, N, << >>)
      <4>1. Onto(order, Len(N))
        BY <3>10
      <4>2. \A i \in DOMAIN E : E[i].type \notin {"tool_result", "image"}
        BY <3>7 DEF Quiet
      <4> QED
        BY <3>6, <3>7, <3>9, <3>10, <4>1, <4>2, RoundFaithful
    <3>12. PICK D : D = Contents(d.messages)
      OBVIOUS
    <3>13. IsSeq(D) /\ Faithful(D, M, im)
      BY <3>3, <3>12 DEF Faithful
    <3>14. Contents(t.messages) = (D \o E) \o R
      BY <3>7, <3>9, <3>12
    <3>15. (D \o E) \o R = D \o (E \o R)
      BY <3>7, <3>9, <3>13, JoinThrice
    <3>16. Faithful(D \o (E \o R), M \o N, im \o << >>)
      BY <3>11, <3>13, FaithfulJoin, Zenon
    <3>17. im \o << >> = im
      <4>1. IsSeq(im)
        BY <3>13, OfTypeMembers DEF Faithful
      <4> QED
        BY <4>1 DEF IsSeq
    <3>18. Faithful(Contents(t.messages), M \o N, im)
      BY <3>14, <3>15, <3>16, <3>17
    <3> QED
      BY <3>9, <3>18
  <2> QED
    BY <2>6, <2>7, Zenon DEF Further, Keeps
<1> QED
  BY <1>5, <1>6 DEF GemKept

\* The images of the client's prompt.
PromptImages(want) == IF want.image = "-" THEN << >> ELSE <<Image(want.image)>>

\* The part of an opening in Gemini's protocol.
OpenPart(part) ==
    IF part.type = "text" THEN part
    ELSE [type |-> IF part.source = "url" THEN "fileData" ELSE "inlineData"]

\* How a Gemini client opens a conversation.
LEMMA GemOpening ==
    ASSUME NEW parts, parts = <<Text>> \/ \E source : parts = <<Text, Image(source)>>,
           NEW c, c = Content!Content("user", [k \in DOMAIN parts |-> OpenPart(parts[k])])
    PROVE  /\ Content!Opening(parts) = <<c>> /\ Opens(c)
           /\ Len(c.parts) = Len(parts) /\ c.parts[1].type = "text"
           /\ Len(parts) \in {1, 2}
           /\ \A source : parts = <<Text, Image(source)>> =>
                 c.parts[2].type = IF source = "url" THEN "fileData" ELSE "inlineData"
<1>1. Content!Opening(parts) = <<c>>
  BY DEF Content!Opening, OpenPart
<1>2. PICK n \in Nat : n = Len(parts) /\ DOMAIN parts = 1..n /\ n \in {1, 2}
  <2>1. CASE parts = <<Text>>
    BY <2>1
  <2>2. CASE \E source : parts = <<Text, Image(source)>>
    BY <2>2
  <2> QED
    BY <2>1, <2>2
<1>3. c.parts = [k \in 1..n |-> OpenPart(parts[k])]
  BY <1>2 DEF Content!Content
<1>4. parts[1] = Text
  <2>1. CASE parts = <<Text>>
    BY <2>1
  <2>2. CASE \E source : parts = <<Text, Image(source)>>
    BY <2>2
  <2> QED
    BY <2>1, <2>2
<1>5. c.parts = [k \in 1..n |-> c.parts[k]]
  BY <1>3
<1>6. IsSeq(c.parts) /\ Len(c.parts) = n /\ DOMAIN c.parts = 1..n
  BY <1>5, IsSeqMap
<1>7. c.parts[1].type = "text"
  BY <1>2, <1>3, <1>4 DEF OpenPart, Text
<1>8. ASSUME NEW source, parts = <<Text, Image(source)>>
      PROVE  c.parts[2].type = IF source = "url" THEN "fileData" ELSE "inlineData"
  <2>1. n = 2 /\ parts[2] = Image(source)
    BY <1>2, <1>8
  <2>2. parts[2].type = "image" /\ parts[2].source = source
    BY <2>1 DEF Image
  <2> QED
    BY <1>3, <2>1, <2>2 DEF OpenPart
<1>9. \A k \in 1..n : c.parts[k].type \in {"text", "inlineData", "fileData"}
  <2>1. CASE parts = <<Text>>
    <3>1. n = 1
      BY <1>2, <2>1
    <3> QED
      BY <1>7, <3>1
  <2>2. CASE \E source : parts = <<Text, Image(source)>>
    BY <1>2, <1>7, <1>8, <2>2
  <2> QED
    BY <2>1, <2>2
<1> QED
  BY <1>1, <1>2, <1>6, <1>7, <1>8, <1>9, Zenon DEF Opens

\* The translation of a history starts.
LEMMA StartState ==
    State(Start) /\ Formed(Start.messages) /\ Start.pending = << >> /\ Contents(Start.messages) = << >>
<1>1. PICK yes, no : yes = TRUE /\ no = << >>
  BY Zenon
<1>2. Start = [messages |-> no, content |-> no, pending |-> no, ok |-> yes]
  BY <1>1 DEF Start
<1>3. Full(Start) /\ Start.messages = no /\ Start.content = no /\ Start.pending = no
  BY <1>2 DEF Full
<1>4. IsSeq(no)
  BY <1>1, OfTypeZero
<1>5. Formed(no)
  BY <1>1, <1>4 DEF Formed
<1>6. Contents(no) = << >>
  <2>1. [i \in DOMAIN no |-> no[i].content] = << >>
    BY <1>1
  <2> QED
    BY <2>1, FlattenEmpty DEF Contents
<1> QED
  BY <1>1, <1>3, <1>4, <1>5, <1>6, StateOf

\* The gateway refuses files.
LEMMA NoFileAccepted ==
    ASSUME NEW c, IsSeq(c.parts), Content!ContentAccepted(c), NEW k \in DOMAIN c.parts
    PROVE  c.parts[k].type # "fileData"
<1>1. c.parts[k] \in Content!ToSet(c.parts)
  BY DEF Content!ToSet
<1>2. Content!PartAccepted(c.parts[k], c)
  BY <1>1 DEF Content!ContentAccepted
<1>3. SUFFICES ASSUME c.parts[k].type = "fileData" PROVE FALSE
  OBVIOUS
<1>4. ~Content!PartAccepted(c.parts[k], c)
  BY <1>3 DEF Content!PartAccepted
<1> QED
  BY <1>2, <1>4

\* The first history of a Gemini client.
LEMMA GemFirst ==
    ASSUME NEW want, want.image \in {"-", "url", "inline"}
    PROVE  GemKept(Content!Opening(FirstParts(want)), << >>, PromptImages(want))
<1>1. PICK parts, source : parts = FirstParts(want) /\ source = want.image
  OBVIOUS
<1>2. /\ source = "-" => parts = <<Text>>
      /\ source # "-" => parts = <<Text, Image(source)>>
  BY <1>1 DEF FirstParts
<1>3. PICK c : c = Content!Content("user", [k \in DOMAIN parts |-> OpenPart(parts[k])])
  OBVIOUS
<1>4. /\ Content!Opening(parts) = <<c>> /\ Opens(c)
      /\ Len(c.parts) = Len(parts) /\ c.parts[1].type = "text"
      /\ \A s : parts = <<Text, Image(s)>> =>
                 c.parts[2].type = IF s = "url" THEN "fileData" ELSE "inlineData"
  BY <1>2, <1>3, GemOpening
<1>5. PICK none, h : none = << >> /\ h = <<c>>
  BY Zenon
<1>6. IsSeq(none) /\ h = none \o <<c>> /\ IsSeq(h) /\ Len(h) = 1
  BY <1>5, OfTypeZero, IsSeqTuples
<1>7. IsSeq(c.parts)
  BY <1>4 DEF Opens
<1>8. ASSUME NEW rid, NEW t, t = Content!TranslateContents(rid, h)
      PROVE  Keeps(t, h, << >>, PromptImages(want))
  <2>1. PICK d : d = Start
    OBVIOUS
  <2>2. d = Content!TranslateContents(rid, none)
    BY <1>5, <2>1, TranslatedFirst
  <2>3. State(d) /\ Formed(d.messages) /\ d.pending = << >> /\ Contents(d.messages) = << >>
    BY <2>1, StartState
  <2>4. Further(t, d, rid, none, c, h)
    BY <1>6, <1>7, <1>8, <2>2, <2>3, OneFurther, Zenon
  <2>5. t = Content!TranslateContent(rid, d, c)
    BY <2>4 DEF Further
  <2>6. PICK E : Opened(t, d, c, E)
    BY <1>4, <2>3, <2>5, OpeningStep
  <2>7. /\ t.pending = << >> /\ IsSeq(E) /\ Contents(t.messages) = << >> \o E
        /\ Faithful(E, << >>, OfType(E, "image")) /\ Len(E) = Len(parts)
        /\ \A k \in 1..Len(E) : ReadsPart(E[k], c.parts[k])
    BY <1>4, <2>3, <2>6 DEF Opened
  <2>8. << >> \o E = E
    BY <2>7 DEF IsSeq
  <2>9. ASSUME Accepts(h) PROVE OfType(E, "image") = PromptImages(want)
    <3>1. Content!ContentAccepted(c)
      BY <2>4, <2>9 DEF Further
    <3>2. CASE source = "-"
      <4>1. Len(E) = 1
        BY <1>2, <2>7, <3>2
      <4>2. E[1] = Text /\ DOMAIN E = 1..1
        BY <1>4, <2>7, <4>1, IsSeqFields DEF ReadsPart
      <4>3. \A i \in DOMAIN E : E[i].type # "image"
        BY <4>2 DEF Text
      <4>4. OfType(E, "image") = << >>
        BY <2>7, <4>3, OfTypeMembers
      <4> QED
        BY <1>1, <3>2, <4>4 DEF PromptImages
    <3>3. CASE source # "-"
      <4>1. Len(parts) = 2 /\ Len(E) = 2
        BY <1>2, <2>7, <3>3
      <4>2. DOMAIN c.parts = 1..2
        BY <1>4, <1>7, <4>1, IsSeqFields
      <4>3. c.parts[2].type = IF source = "url" THEN "fileData" ELSE "inlineData"
        BY <1>2, <1>4, <3>3
      <4>4. c.parts[2].type # "fileData"
        BY <1>7, <3>1, <4>2, NoFileAccepted
      <4>5. source = "inline" /\ c.parts[2].type = "inlineData"
        BY <1>1, <3>3, <4>3, <4>4
      <4>6. E[1] = Text
        BY <1>4, <2>7, <4>1 DEF ReadsPart
      <4>7. E[2] = Image("inline")
        BY <2>7, <4>1, <4>5 DEF ReadsPart
      <4>8. PICK a, b : a = <<Text>> /\ b = <<Image("inline")>>
        BY Zenon
      <4>9. IsSeq(a) /\ IsSeq(b)
        BY <4>8, IsSeqTuples
      <4>10. E = a \o b
        <5>1. E = <<Text, Image("inline")>>
          BY <2>7, <4>1, <4>6, <4>7 DEF IsSeq
        <5> QED
          BY <4>8, <5>1
      <4>11. OfType(E, "image") = OfType(a, "image") \o OfType(b, "image")
        BY <4>9, <4>10, OfTypeJoin
      <4>12. OfType(a, "image") = << >> /\ OfType(b, "image") = b
        <5>1. Text.type # "image" /\ Image("inline").type = "image"
          BY DEF Text, Image
        <5> QED
          BY <4>8, <5>1, OfTypeOne
      <4>13. << >> \o b = b
        BY <4>9 DEF IsSeq
      <4> QED
        BY <1>1, <3>3, <4>5, <4>8, <4>11, <4>12, <4>13 DEF PromptImages
    <3> QED
      BY <3>2, <3>3
  <2>10. Accepts(h) => Faithful(Contents(t.messages), << >>, PromptImages(want))
    BY <2>7, <2>8, <2>9
  <2> QED
    BY <2>4, <2>7, <2>10 DEF Further, Keeps
<1> QED
  BY <1>1, <1>4, <1>5, <1>6, <1>8 DEF GemKept

\* The IR request of a faithful history.
SaysAll(v, model, M, im) ==
    /\ Formed(v.messages) /\ RequestValid(v) /\ v.model = model
    /\ v.messages[1].role = "system"
    /\ Faithful(Contents(v.messages), M, im)

\* The Gemini gateway says what the history says.
LEMMA GeminiSaid ==
    ASSUME NEW want, NEW h, NEW M, NEW im, GemKept(h, M, im), NEW n, NEW model,
           NEW out, out = Content!ToIRRequest(Content!Ask(want, h), n, model), out.ok
    PROVE  SaysAll(out.value, model, M, im)
<1>1. PICK v, t : v = out.value /\ t = Content!TranslateContents(n, h)
  OBVIOUS
<1>2. /\ v.messages = <<Message("system", <<Text>>)>> \o t.messages
      /\ RequestValid(v)
      /\ v.model = model
      /\ t.ok /\ Accepts(h)
  <2>1. PICK ask : ask = Content!Ask(want, h)
    OBVIOUS
  <2>2. ask.system = TRUE /\ ask.contents = h
    BY <2>1 DEF Content!Ask
  <2>3. PICK u : u = Content!TranslateContents(n, ask.contents)
    OBVIOUS
  <2>4. /\ v.messages = (IF ask.system THEN <<Message("system", <<Text>>)>> ELSE << >>)
                         \o u.messages
        /\ v.model = model
        /\ Content!RequestValid(v)
        /\ u.ok
        /\ \A content \in Content!ToSet(ask.contents) : Content!ContentAccepted(content)
    BY <1>1, <2>1, <2>3, Zenon DEF Content!ToIRRequest, Content!AcceptIf, Content!Accepted,
                Content!Refused, Content!Message, Message, Content!Text, Text
  <2>5. Accepts(h)
    <3>1. \A i \in DOMAIN h : h[i] \in Content!ToSet(h)
      BY DEF Content!ToSet
    <3> QED
      BY <2>2, <2>4, <3>1 DEF Accepts
  <2> QED
    BY <1>1, <2>2, <2>3, <2>4, <2>5, SameValidation, Zenon
<1>3. Keeps(t, h, M, im)
  BY <1>1 DEF GemKept
<1>4. PICK ms, rs : ms = t.messages /\ rs = v.messages
  OBVIOUS
<1>5. Formed(ms)
  BY <1>3, <1>4 DEF Keeps
<1>6. Formed(rs) /\ rs[1].role = "system" /\ Contents(rs) = <<Text>> \o Contents(ms)
  BY <1>2, <1>4, <1>5, WithSystem, Zenon
<1>7. Valids(ms)
  <2>1. PICK e, s : s = Message("system", <<Text>>) /\ e = <<s>>
    BY Zenon
  <2>2. IsSeq(e) /\ Len(e) = 1
    BY <2>1, IsSeqTuples
  <2>3. Joins(rs, e, ms)
    BY <1>2, <1>4, <1>5, <2>1, <2>2, JoinsConcat DEF Formed
  <2>4. PICK m \in Nat : m = Len(ms) /\ DOMAIN ms = 1..m
    BY <1>5, IsSeqFields DEF Formed
  <2>5. DOMAIN rs = 1..(1 + m) /\ \A k \in 1..m : rs[1 + k] = ms[k]
    BY <1>6, <2>2, <2>3, <2>4, IsSeqFields DEF Joins, Formed
  <2>6. \A i \in DOMAIN rs : MessageValid(rs[i])
    BY <1>2, <1>4 DEF RequestValid
  <2>7. \A k \in 1..m : MessageValid(rs[1 + k])
    <3> SUFFICES ASSUME NEW k \in 1..m PROVE MessageValid(rs[1 + k])
      OBVIOUS
    <3>1. 1 + k \in DOMAIN rs
      BY <2>5
    <3> QED
      BY <2>6, <3>1
  <2> QED
    BY <2>4, <2>5, <2>7 DEF Valids
<1>8. Faithful(Contents(ms), M, im)
  BY <1>2, <1>3, <1>4, <1>7 DEF Keeps
<1>9. PICK D : D = Contents(ms)
  OBVIOUS
<1>10. Faithful(<<Text>> \o D, M, im)
  BY <1>8, <1>9, FaithfulAfter
<1> QED
  BY <1>1, <1>2, <1>4, <1>6, <1>9, <1>10, Zenon DEF SaysAll

-----------------------------------------------------------------------------
(***************************************************************************)
(* The answers that the gateways send have the shape that the clients rely *)
(* on.                                                                     *)
(***************************************************************************)
\* The answers that the gateway sends have the shape that the clients rely on.
LEMMA ChatShaped ==
    ASSUME NEW r, IsSeq(r.content), Chat!FromIR(r).ok
    PROVE  IsSeq(Chat!FromIR(r).value.calls)
<1>1. PICK v, calls : v = Chat!FromIR(r).value /\ calls = OfType(r.content, "tool_call")
  OBVIOUS
<1>2. IsSeq(calls)
  BY <1>1, OfTypeMembers
<1>3. v.calls = [k \in DOMAIN calls |->
                        Chat!Call(calls[k].id, calls[k].name, calls[k].arguments)]
  BY <1>1, ChatSequences DEF Chat!FromIR, Chat!AcceptIf, Chat!Accepted, Chat!Refused
<1>4. v.calls = [k \in DOMAIN calls |-> v.calls[k]]
  BY <1>3
<1> QED
  BY <1>1, <1>2, <1>4, IsSeqOver

\* The Responses gateway answers in that shape.
LEMMA ResponsesShaped ==
    ASSUME NEW r, IsSeq(r.content), Responses!FromIR(r).ok
    PROVE  RespShape(Responses!FromIR(r).value.output)
<1> DEFINE v == Responses!FromIR(r).value
           calls == OfType(r.content, "tool_call")
           texts == OfType(r.content, "text")
           words == [k \in DOMAIN texts |-> [type |-> "output_text"]]
           m == Responses!MessageItem("assistant", words)
           said == IF texts = << >> THEN << >> ELSE <<m>>
           items == [k \in DOMAIN calls |->
                        Responses!CallItem(calls[k].id, calls[k].name, calls[k].arguments)]
<1>1. IsSeq(calls) /\ IsSeq(texts)
  BY OfTypeMembers
<1>2. v.output = said \o items
  BY ResponsesSequences, Zenon DEF Responses!FromIR, Responses!AcceptIf, Responses!Accepted,
                            Responses!Refused
<1>3. IsSeq(items) /\ \A k \in DOMAIN items : items[k].type = "function_call"
  <2>1. items = [k \in DOMAIN calls |-> items[k]]
    OBVIOUS
  <2>2. IsSeq(items)
    BY <1>1, <2>1, IsSeqOver
  <2> QED
    BY <2>2 DEF Responses!CallItem
<1>4. IsSeq(words) /\ \A k \in DOMAIN words : words[k].type = "output_text"
  <2>1. words = [k \in DOMAIN texts |-> words[k]]
    OBVIOUS
  <2>2. IsSeq(words)
    BY <1>1, <2>1, IsSeqOver
  <2> QED
    BY <2>2
<1> HIDE DEF v, items, calls, words
<1>5. m.type = "message" /\ m.content = words
  BY DEF Responses!MessageItem
<1> HIDE DEF m
<1>6. IsSeq(said) /\ \A k \in DOMAIN said : said[k] = m
  <2>1. CASE texts = << >>
    BY <2>1, OfTypeZero
  <2>2. CASE texts # << >>
    <3>1. said = <<m>>
      BY <2>2
    <3> QED
      BY <3>1, IsSeqTuples
  <2> QED
    BY <2>1, <2>2
<1> HIDE DEF said
<1>7. Joins(v.output, said, items)
  BY <1>2, <1>3, <1>6, JoinsConcat
<1>8. PICK a \in Nat, b \in Nat : a = Len(said) /\ b = Len(items) /\ DOMAIN said = 1..a
                                  /\ DOMAIN items = 1..b
  BY <1>3, <1>6, IsSeqFields
<1>9. IsSeq(v.output) /\ Len(v.output) = a + b /\ DOMAIN v.output = 1..(a + b)
  BY <1>7, <1>8, IsSeqFields DEF Joins
<1>10. ASSUME NEW i \in 1..(a + b)
       PROVE  \/ v.output[i].type = "function_call"
              \/ /\ v.output[i].type = "message" /\ IsSeq(v.output[i].content)
                 /\ \A k \in DOMAIN v.output[i].content :
                       v.output[i].content[k].type = "output_text"
  <2>1. CASE i \in 1..a
    <3>1. v.output[i] = m
      BY <1>6, <1>7, <1>8, <2>1, Zenon DEF Joins
    <3> QED
      BY <1>4, <1>5, <3>1
  <2>2. CASE i \notin 1..a
    <3>1. PICK k \in 1..b : i = a + k
      <4>1. i - a \in 1..b /\ i = a + (i - a)
        BY <2>2
      <4> QED
        BY <4>1
    <3>2. v.output[i] = items[k]
      BY <1>7, <1>8, <3>1 DEF Joins
    <3> QED
      BY <1>3, <1>8, <3>2
  <2> QED
    BY <2>1, <2>2
<1>11. RespShape(v.output)
  BY <1>9, <1>10 DEF RespShape
<1> QED
  BY <1>11 DEF v

\* The Anthropic gateway answers in that shape.
LEMMA AnthropicShaped ==
    ASSUME NEW r, IsSeq(r.content), Messages!FromIRResponse(r).ok
    PROVE  AnthShape(Messages!FromIRResponse(r).value.content)
<1> DEFINE BlockOf(part) == IF part.type = "text" THEN Messages!Text
                            ELSE Messages!ToolUse(part.id, part.name, part.arguments)
<1>1. PICK v : v = Messages!FromIRResponse(r).value
  OBVIOUS
<1>2. v.content = [k \in DOMAIN r.content |-> BlockOf(r.content[k])]
  BY <1>1, MessagesSequences, SameValidation
     DEF Messages!FromIRResponse, Messages!AcceptIf, Messages!Accepted, Messages!Refused
<1>3. \A k \in DOMAIN r.content : v.content[k].type \in {"text", "tool_use"}
  BY <1>2 DEF Messages!Text, Messages!ToolUse
<1>4. v.content = [k \in DOMAIN r.content |-> v.content[k]]
  BY <1>2
<1>5. IsSeq(v.content) /\ DOMAIN v.content = DOMAIN r.content
  BY <1>4, IsSeqOver
<1> QED
  BY <1>1, <1>3, <1>5 DEF AnthShape

\* The Gemini gateway answers in that shape.
LEMMA GeminiShaped ==
    ASSUME NEW r, IsSeq(r.content), Content!FromIRResponse(r).ok
    PROVE  GemShape(Content!FromIRResponse(r).value.parts)
<1>1. PICK v : v = Content!FromIRResponse(r).value
  OBVIOUS
<1>2. /\ v.parts = [k \in DOMAIN r.content |-> Content!contentToProvider(r.content[k], r.model)]
      /\ ResponseValid(r)
  BY <1>1, SameValidation
     DEF Content!FromIRResponse, Content!AcceptIf, Content!Accepted, Content!Refused
<1>3. v.parts = [k \in DOMAIN r.content |-> v.parts[k]]
  BY <1>2
<1>4. IsSeq(v.parts) /\ DOMAIN v.parts = DOMAIN r.content
  BY <1>3, IsSeqOver
<1>5. ASSUME NEW k \in DOMAIN r.content PROVE GemShaped(v.parts[k])
  <2>1. PICK x, y : x = r.content[k] /\ y = v.parts[k]
    OBVIOUS
  <2>2. y = Content!contentToProvider(x, r.model)
    BY <1>2, <2>1
  <2>3. x.type \in {"text", "image", "tool_call"} /\ ContentValid(x)
    BY <1>2, <2>1 DEF ResponseValid
  <2>4. CASE x.type = "text"
    BY <2>1, <2>2, <2>4 DEF Content!contentToProvider, GemShaped
  <2>5. CASE x.type = "image"
    BY <2>1, <2>2, <2>5 DEF Content!contentToProvider, GemShaped
  <2>6. CASE x.type = "tool_call"
    <3>1. x.id # NoID
      BY <2>3, <2>6 DEF ContentValid
    <3>2. \E s : y = Content!FunctionCall(x.id, x.name, x.arguments, s)
      BY <2>2, <2>6 DEF Content!contentToProvider
    <3> QED
      BY <2>1, <3>1, <3>2 DEF GemShaped
  <2> QED
    BY <2>3, <2>4, <2>5, <2>6
<1> QED
  BY <1>1, <1>4, <1>5 DEF GemShape

\* Calls of that shape have IDs.
LEMMA GemCallsHaveIDs ==
    ASSUME NEW parts, GemShape(parts)
    PROVE  HasIDs(OfType(parts, "functionCall")) /\ IsSeq(OfType(parts, "functionCall"))
<1>1. IsSeq(parts) /\ \A k \in DOMAIN parts : GemShaped(parts[k])
  BY DEF GemShape
<1>2. PICK calls : calls = OfType(parts, "functionCall")
  OBVIOUS
<1>3. IsSeq(calls) /\ \A j \in DOMAIN calls : \E i \in DOMAIN parts :
          calls[j] = parts[i] /\ parts[i].type = "functionCall"
  BY <1>1, <1>2, OfTypeMembers
<1>4. ASSUME NEW part, GemShaped(part), part.type = "functionCall" PROVE part.id # NoID
  <2>1. PICK id, name, args, signature :
            id # NoID /\ part = Content!FunctionCall(id, name, args, signature)
    BY <1>4 DEF GemShaped
  <2> QED
    BY <2>1 DEF Content!FunctionCall
<1>5. DOMAIN calls = 1..Len(calls)
  BY <1>3, IsSeqFields
<1>6. \A j \in DOMAIN calls : calls[j].id # NoID
  BY <1>1, <1>3, <1>4
<1> QED
  BY <1>2, <1>3, <1>5, <1>6 DEF HasIDs

-----------------------------------------------------------------------------
(***************************************************************************)
(* Histories that are kept: what they say, the gateway says.               *)
(***************************************************************************)
\* The parts with which a client opens a conversation, or goes on.
OpeningParts(parts) == parts = <<Text>> \/ \E source : parts = <<Text, Image(source)>>

\* An opening has no calls; its images are those of the prompt.
LEMMA OpeningFaithful ==
    ASSUME NEW parts, OpeningParts(parts)
    PROVE  /\ IsSeq(parts)
           /\ Faithful(parts, << >>, OfType(parts, "image"))
           /\ \A i \in DOMAIN parts : parts[i].type \in {"text", "image"}
           /\ parts = <<Text>> => OfType(parts, "image") = << >>
           /\ \A source : parts = <<Text, Image(source)>> =>
                 OfType(parts, "image") = <<Image(source)>>
<1>1. Text.type = "text" /\ \A source : Image(source).type = "image"
  BY DEF Text, Image
<1>2. IsSeq(parts)
  BY IsSeqTuples DEF OpeningParts
<1>3. \A i \in DOMAIN parts : parts[i].type \in {"text", "image"}
  <2>1. CASE parts = <<Text>>
    BY <1>1, <2>1
  <2>2. CASE \E source : parts = <<Text, Image(source)>>
    <3>1. PICK source : parts = <<Text, Image(source)>>
      BY <2>2
    <3> QED
      BY <1>1, <3>1
  <2> QED
    BY <2>1, <2>2 DEF OpeningParts
<1>4. Faithful(parts, << >>, OfType(parts, "image"))
  BY <1>2, <1>3, FaithfulSilent
<1>5. parts = <<Text>> => OfType(parts, "image") = << >>
  BY <1>1, OfTypeOne
<1>6. ASSUME NEW source, parts = <<Text, Image(source)>>
      PROVE  OfType(parts, "image") = <<Image(source)>>
  <2>1. PICK x, y : x = Text /\ y = Image(source)
    OBVIOUS
  <2>2. OfType(<<x>>, "image") = << >> /\ OfType(<<y>>, "image") = <<y>>
        /\ IsSeq(<<x>>) /\ IsSeq(<<y>>)
    BY <1>1, <2>1, OfTypeOne
  <2>3. PICK u, v : u = <<x>> /\ v = <<y>>
    BY Zenon
  <2>4. OfType(u \o v, "image") = OfType(u, "image") \o OfType(v, "image")
    BY <2>2, <2>3, OfTypeJoin
  <2>5. u \o v = <<x, y>>
    <3>1. PICK w : w = u \o v
      BY Zenon
    <3>2. Joins(w, u, v)
      BY <2>2, <2>3, <3>1, JoinsConcat
    <3>3. Len(u) = 1 /\ Len(v) = 1 /\ u[1] = x /\ v[1] = y
      BY <2>3
    <3>4. IsSeq(w) /\ Len(w) = 2 /\ w[1] = x /\ w[2] = y
      BY <3>2, <3>3 DEF Joins
    <3>5. w = <<x, y>>
      BY <3>4 DEF IsSeq
    <3> QED
      BY <3>1, <3>5
  <2>6. << >> \o <<y>> = <<y>>
    OBVIOUS
  <2> QED
    BY <1>6, <2>1, <2>2, <2>3, <2>4, <2>5, <2>6, Zenon
<1> QED
  BY <1>2, <1>3, <1>4, <1>5, <1>6

\* An opening says its parts.
LEMMA OpeningLifts ==
    ASSUME NEW parts, OpeningParts(parts), NEW p \in {"chat", "responses", "anthropic"}
    PROVE  /\ Lifts(p, Opening(p, parts))
           /\ Lifted(p, Opening(p, parts)) = parts
<1>0. IsSeq(parts) /\ \A i \in DOMAIN parts : parts[i].type \in {"text", "image"}
  BY OpeningFaithful
<1>00. parts = [k \in DOMAIN parts |-> parts[k]]
  BY DEF OpeningParts
<1>1. CASE p = "chat"
  <2>1. PICK x : x = Chat!ChatMessage("user", parts, << >>)
    OBVIOUS
  <2>2. Opening(p, parts) = <<x>>
    BY <1>1, <2>1 DEF Opening, By, Chat!Opening
  <2>3. x.role = "user" /\ x.content = parts /\ x.calls = << >>
    BY <2>1 DEF Chat!ChatMessage
  <2>4. Lift(p, x) = parts \o << >>
    BY <1>1, <2>3 DEF Lift, ChatLift
  <2>5. parts \o << >> = parts
    BY <1>0 DEF IsSeq
  <2> QED
    BY <1>0, <2>2, <2>4, <2>5, LiftedOne
<1>2. CASE p = "responses"
  <2>1. PICK x : x = Responses!MessageItem("user", parts)
    OBVIOUS
  <2>2. Opening(p, parts) = <<x>>
    BY <1>2, <2>1 DEF Opening, By, Responses!Opening
  <2>3. x.type = "message" /\ x.content = parts
    BY <2>1 DEF Responses!MessageItem
  <2>4. Lift(p, x) = parts
    BY <1>0, <1>00, <1>2, <2>3 DEF Lift, RespLift
  <2> QED
    BY <1>0, <2>2, <2>4, LiftedOne
<1>3. CASE p = "anthropic"
  <2>1. PICK x : x = Messages!Message("user", parts)
    OBVIOUS
  <2>2. Opening(p, parts) = <<x>>
    BY <1>3, <2>1 DEF Opening, By, Messages!Opening
  <2>3. x.content = parts
    BY <2>1 DEF Messages!Message
  <2>4. Lift(p, x) = parts
    BY <1>0, <1>00, <1>3, <2>3 DEF Lift, AnthLift, AnthBlock
  <2> QED
    BY <1>0, <2>2, <2>4, LiftedOne
<1> QED
  BY <1>1, <1>2, <1>3

\* What the history says to the provider: the calls made and the images.
HistoryKept(p, h, M, im) ==
    /\ p = "gemini" => GemKept(h, M, im)
    /\ p # "gemini" => Lifts(p, h) /\ Faithful(Lifted(p, h), M, im)

\* The protocols.
Known4 == {"chat", "responses", "anthropic", "gemini"}

\* The first history says what the client wants to say.
LEMMA FirstKept ==
    ASSUME NEW p \in Known4, NEW want, want.image \in {"-", "url", "inline"}
    PROVE  HistoryKept(p, Opening(p, FirstParts(want)), << >>, PromptImages(want))
<1>1. CASE p = "gemini"
  <2>1. Opening(p, FirstParts(want)) = Content!Opening(FirstParts(want))
    BY <1>1 DEF Opening, By
  <2> QED
    BY <1>1, <2>1, GemFirst DEF HistoryKept
<1>2. CASE p # "gemini"
  <2>1. PICK parts : parts = FirstParts(want)
    OBVIOUS
  <2>2. /\ want.image = "-" => parts = <<Text>> /\ PromptImages(want) = << >>
        /\ want.image # "-" => /\ parts = <<Text, Image(want.image)>>
                               /\ PromptImages(want) = <<Image(want.image)>>
    BY <2>1 DEF FirstParts, PromptImages
  <2>3. OpeningParts(parts)
    BY <2>2 DEF OpeningParts
  <2>4. OfType(parts, "image") = PromptImages(want)
    BY <2>2, <2>3, OpeningFaithful
  <2>5. p \in {"chat", "responses", "anthropic"}
    BY <1>2 DEF Known4
  <2> QED
    BY <1>2, <2>1, <2>3, <2>4, <2>5, OpeningFaithful, OpeningLifts DEF HistoryKept
<1> QED
  BY <1>1, <1>2

\* An answer that has the shape that its client relies on.
Shaped(p, body) ==
    /\ p = "chat" => IsSeq(body.calls)
    /\ p = "responses" => RespShape(body.output)
    /\ p = "anthropic" => AnthShape(body.content)
    /\ p = "gemini" => GemShape(body.parts)

\* The echo of an answer has its calls.
LEMMA EchoKept ==
    ASSUME NEW body, client.protocol \in {"chat", "responses", "anthropic"},
           Shaped(client.protocol, body)
    PROVE  /\ Lifts(client.protocol, Echo(body))
           /\ Echoes(Lifted(client.protocol, Echo(body)), ReadAnswer(client.protocol, body).calls)
<1>1. CASE client.protocol = "chat"
  <2>1. Echo(body) = Chat!Echo(body) /\ ReadAnswer(client.protocol, body) = Chat!Read(body)
    BY <1>1 DEF Echo, ReadAnswer, By
  <2> QED
    BY <1>1, <2>1, ChatEcho DEF Shaped
<1>2. CASE client.protocol = "responses"
  <2>1. Echo(body) = Responses!Echo(body) /\ ReadAnswer(client.protocol, body) = Responses!Read(body)
    BY <1>2 DEF Echo, ReadAnswer, By
  <2> QED
    BY <1>2, <2>1, ResponsesEcho DEF Shaped
<1>3. CASE client.protocol = "anthropic"
  <2>1. Echo(body) = Messages!Echo(body) /\ ReadAnswer(client.protocol, body) = Messages!Read(body)
    BY <1>3 DEF Echo, ReadAnswer, By
  <2> QED
    BY <1>3, <2>1, AnthropicEcho DEF Shaped
<1> QED
  BY <1>1, <1>2, <1>3

\* The calls that a Gemini client reads.
LEMMA GeminiCalls ==
    ASSUME NEW body, NEW calls, calls = OfType(body.parts, "functionCall")
    PROVE  Content!Read(body).calls =
             [k \in DOMAIN calls |-> [id |-> calls[k].id, name |-> calls[k].name,
                                      arguments |-> calls[k].args]]
BY ContentSequences DEF Content!Read

\* How a Gemini client goes on.
LEMMA TextOpening ==
    \E o : /\ Content!Opening(<<Text>>) = <<o>> /\ Opens(o)
           /\ Len(o.parts) = 1 /\ o.parts[1].type = "text"
<1>1. PICK parts : parts = <<Text>>
  BY Zenon
<1>2. parts = <<Text>> \/ \E source : parts = <<Text, Image(source)>>
  BY <1>1
<1>3. PICK c : c = Content!Content("user", [k \in DOMAIN parts |-> OpenPart(parts[k])])
  OBVIOUS
<1>4. /\ Content!Opening(parts) = <<c>> /\ Opens(c)
      /\ Len(c.parts) = Len(parts) /\ c.parts[1].type = "text"
  BY <1>2, <1>3, GemOpening
<1>5. Len(c.parts) = 1
  BY <1>1, <1>4
<1>6. Content!Opening(<<Text>>) = <<c>> /\ Opens(c) /\ Len(c.parts) = 1 /\ c.parts[1].type = "text"
  BY <1>1, <1>4, <1>5
<1> QED
  BY <1>6

\* A history that goes on after an answer without calls is kept.
LEMMA MoreKept ==
    ASSUME NEW M, NEW im, HistoryKept(client.protocol, history, M, im),
           client.protocol \in Known4, Shaped(client.protocol, flight),
           ReadAnswer(client.protocol, flight).calls = << >>,
           NEW h, h = history \o Echo(flight) \o Opening(client.protocol, <<Text>>)
    PROVE  HistoryKept(client.protocol, h, M, im)
<1>1. CASE client.protocol = "gemini"
  <2>1. PICK parts, style : parts = flight.parts /\ style = client.style
    OBVIOUS
  <2>2. PICK c : c = Content!Content("model", [k \in DOMAIN parts |-> EchoPart(parts[k], style)])
    BY Zenon
  <2>3. Echo(flight) = <<c>>
    BY <1>1, <2>1, <2>2 DEF Echo, By, Content!Echo, EchoPart, Content!NoID, NoID
  <2>4. IsEcho(c, parts, style)
    BY <2>2 DEF IsEcho, Content!Content
  <2>5. PICK o : /\ Content!Opening(<<Text>>) = <<o>> /\ Opens(o)
                 /\ Len(o.parts) = 1 /\ o.parts[1].type = "text"
    BY TextOpening
  <2>7. Opening(client.protocol, <<Text>>) = <<o>>
    BY <1>1, <2>5 DEF Opening, By
  <2>9. GemShape(parts) /\ GemKept(history, M, im)
    BY <1>1, <2>1 DEF Shaped, HistoryKept
  <2>10. OfType(parts, "functionCall") = << >>
    <3>1. PICK calls : calls = OfType(parts, "functionCall")
      OBVIOUS
    <3>2. ReadAnswer(client.protocol, flight).calls =
             [k \in DOMAIN calls |-> [id |-> calls[k].id, name |-> calls[k].name,
                                      arguments |-> calls[k].args]]
      <4>1. ReadAnswer(client.protocol, flight) = Content!Read(flight)
        BY <1>1 DEF ReadAnswer, By
      <4>2. calls = OfType(flight.parts, "functionCall")
        BY <2>1, <3>1
      <4>3. PICK read : read = Content!Read(flight).calls
        OBVIOUS
      <4>4. read = [k \in DOMAIN calls |-> [id |-> calls[k].id, name |-> calls[k].name,
                                      arguments |-> calls[k].args]]
        BY <4>2, <4>3, GeminiCalls
      <4> QED
        BY <4>1, <4>3, <4>4, Zenon
    <3>3. IsSeq(calls)
      BY <2>9, <3>1, GemCallsHaveIDs
    <3>4. DOMAIN calls = {}
      BY <3>2
    <3>5. calls = << >>
      BY <3>3, <3>4 DEF IsSeq
    <3> QED
      BY <3>1, <3>5
  <2>11. PICK g, k : g = history \o <<c>> /\ k = g \o <<o>>
    BY Zenon
  <2>12. GemKept(k, M, im)
    BY <2>4, <2>5, <2>9, <2>10, <2>11, GemMore, Zenon
  <2>13. k = h
    BY <2>3, <2>7, <2>11, Zenon
  <2> QED
    BY <1>1, <2>12, <2>13 DEF HistoryKept
<1>2. CASE client.protocol # "gemini"
  <2>1. PICK p : p = client.protocol
    OBVIOUS
  <2>2. p \in {"chat", "responses", "anthropic"}
    BY <1>2, <2>1 DEF Known4
  <2>3. PICK e, o, t : e = Echo(flight) /\ o = Opening(p, t) /\ t = <<Text>>
    OBVIOUS
  <2>4. Lifts(p, e) /\ Echoes(Lifted(p, e), << >>)
    BY <2>1, <2>2, <2>3, EchoKept
  <2>5. OpeningParts(t)
    BY <2>3 DEF OpeningParts
  <2>6. Lifts(p, o) /\ Lifted(p, o) = t
    BY <2>2, <2>3, <2>5, OpeningLifts
  <2>7. Faithful(t, << >>, << >>)
    BY <2>3, <2>5, OpeningFaithful
  <2>8. Lifts(p, history) /\ Faithful(Lifted(p, history), M, im)
    BY <1>2, <2>1 DEF HistoryKept
  <2>9. PICK g : g = history \o e
    BY Zenon
  <2>10. Lifts(p, g) /\ Lifted(p, g) = Lifted(p, history) \o Lifted(p, e)
    BY <2>4, <2>8, <2>9, LiftedJoin, Zenon
  <2>11. Faithful(Lifted(p, g), M, im)
    BY <2>4, <2>8, <2>10, EchoSilent, FaithfulSame
  <2>12. PICK k : k = g \o o
    BY Zenon
  <2>13. Lifts(p, k) /\ Lifted(p, k) = Lifted(p, g) \o Lifted(p, o)
    BY <2>6, <2>10, <2>12, LiftedJoin, Zenon
  <2>14. Faithful(Lifted(p, k), M, im)
    BY <2>6, <2>7, <2>11, <2>13, FaithfulSame
  <2>15. k = h
    BY <2>1, <2>3, <2>9, <2>12, Zenon
  <2> QED
    BY <1>2, <2>1, <2>13, <2>14, <2>15, Zenon DEF HistoryKept
<1> QED
  BY <1>1, <1>2

\* What is recorded of the calls of an answer when they are made.
MadeOf(calls, isError) ==
    [k \in DOMAIN calls |->
        [name |-> calls[k].name, arguments |-> calls[k].arguments,
         signature |-> Signature(k), isError |-> isError]]

\* The calls of an answer are a sequence.
LEMMA ReadCalls ==
    ASSUME client.protocol \in Known4, Shaped(client.protocol, flight)
    PROVE  IsSeq(ReadAnswer(client.protocol, flight).calls)
<1>1. CASE client.protocol = "chat"
  <2>1. ReadAnswer(client.protocol, flight).calls = flight.calls
    BY <1>1 DEF ReadAnswer, By, Chat!Read
  <2> QED
    BY <1>1, <2>1 DEF Shaped
<1>2. CASE client.protocol = "responses"
  <2>1. ReadAnswer(client.protocol, flight) = Responses!Read(flight)
    BY <1>2 DEF ReadAnswer, By
  <2>2. IsSeq(flight.output)
    BY <1>2 DEF Shaped, RespShape
  <2> QED
    BY <2>1, <2>2, ResponsesCalls
<1>3. CASE client.protocol = "anthropic"
  <2>1. ReadAnswer(client.protocol, flight) = Messages!Read(flight)
    BY <1>3 DEF ReadAnswer, By
  <2>2. IsSeq(flight.content)
    BY <1>3 DEF Shaped, AnthShape
  <2> QED
    BY <2>1, <2>2, AnthropicCalls
<1>4. CASE client.protocol = "gemini"
  <2>1. PICK calls : calls = OfType(flight.parts, "functionCall")
    OBVIOUS
  <2>2. PICK read : read = ReadAnswer(client.protocol, flight).calls
    OBVIOUS
  <2>3. read = [k \in DOMAIN calls |-> [id |-> calls[k].id, name |-> calls[k].name,
                                      arguments |-> calls[k].args]]
    <3>1. ReadAnswer(client.protocol, flight) = Content!Read(flight)
      BY <1>4 DEF ReadAnswer, By
    <3> QED
      BY <2>1, <2>2, <3>1, GeminiCalls
  <2>4. IsSeq(calls)
    BY <1>4, <2>1, GemCallsHaveIDs DEF Shaped
  <2>5. read = [k \in DOMAIN calls |-> read[k]]
    BY <2>3
  <2>6. IsSeq(read)
    BY <2>4, <2>5, IsSeqOver
  <2> QED
    BY <2>2, <2>6
<1> QED
  BY <1>1, <1>2, <1>3, <1>4 DEF Known4

\* The results are those of the calls of the answer.
LEMMA ResultsKept ==
    ASSUME NEW calls, calls = ReadAnswer(client.protocol, flight).calls,
           client.protocol \in {"chat", "responses", "anthropic"},
           Shaped(client.protocol, flight), NEW n, n = Len(calls),
           NEW order \in [1..n -> 1..n], NEW form \in Forms,
           NEW isError \in BOOLEAN, isError => client.protocol = "anthropic",
           NEW r, r = Results(flight, order, form, isError)
    PROVE  /\ Lifts(client.protocol, r)
           /\ ResultsOf(Lifted(client.protocol, r), calls, order, isError)
<1>1. CASE client.protocol = "chat"
  <2>1. r = Chat!Results(flight, order) /\ calls = Chat!Read(flight).calls
    BY <1>1 DEF Results, ReadAnswer, By
  <2>2. Chat!Read(flight).calls = flight.calls
    BY DEF Chat!Read
  <2>3. isError = FALSE
    BY <1>1
  <2>4. IsSeq(flight.calls) /\ order \in [1..Len(flight.calls) -> 1..Len(flight.calls)]
    BY <1>1, <2>1, <2>2 DEF Shaped
  <2> QED
    BY <1>1, <2>1, <2>3, <2>4, ChatResults, Zenon
<1>2. CASE client.protocol = "responses"
  <2>1. r = Responses!Results(flight, order, form) /\ calls = Responses!Read(flight).calls
    BY <1>2 DEF Results, ReadAnswer, By
  <2>2. IsSeq(flight.output)
    BY <1>2 DEF Shaped, RespShape
  <2>3. isError = FALSE
    BY <1>2
  <2> QED
    BY <1>2, <2>1, <2>2, <2>3, ResponsesResults, Zenon
<1>3. CASE client.protocol = "anthropic"
  <2>1. r = Messages!Results(flight, order, form, isError) /\ calls = Messages!Read(flight).calls
    BY <1>3 DEF Results, ReadAnswer, By
  <2>2. IsSeq(flight.content)
    BY <1>3 DEF Shaped, AnthShape
  <2>3. form \in {"text", "image"}
    BY <1>3 DEF Forms, By
  <2> QED
    BY <1>3, <2>1, <2>2, <2>3, AnthropicResults
<1> QED
  BY <1>1, <1>2, <1>3

\* A Gemini client gives its results in one content.
LEMMA GeminiResults ==
    ASSUME NEW body, NEW calls, calls = OfType(body.parts, "functionCall"), IsSeq(calls),
           NEW n, n = Len(calls), NEW order \in [1..n -> 1..n], NEW style
    PROVE  \E o : Content!Results(body, order, style) = <<o>> /\ IsResults(o, calls, order, style)
<1>1. DOMAIN order = 1..Len(calls)
  OBVIOUS
<1>2. PICK ps : ps = [k \in 1..Len(calls) |->
        Content!FunctionResponse(IF style = "ids" THEN calls[order[k]].id ELSE NoID,
                                 calls[order[k]].name, calls[order[k]].args, FALSE)]
  BY Zenon
<1>3. PICK o : o = Content!Content("user", ps)
  OBVIOUS
<1>4. Content!Results(body, order, style) = <<o>>
  BY <1>1, <1>2, <1>3, ContentSequences, Zenon DEF Content!Results, Content!NoID, NoID
<1>5. o.parts = ps
  BY <1>3 DEF Content!Content
<1>6. IsResults(o, calls, order, style)
  BY <1>2, <1>5 DEF IsResults
<1> QED
  BY <1>4, <1>6

\* A history that goes on with the results of the calls is kept.
LEMMA RoundKept ==
    ASSUME NEW M, NEW im, HistoryKept(client.protocol, history, M, im),
           client \in Clients, Shaped(client.protocol, flight),
           NEW calls, calls = ReadAnswer(client.protocol, flight).calls,
           NEW order \in Orders(Len(calls)), NEW form \in Forms,
           NEW isError \in BOOLEAN, isError => client.protocol = "anthropic",
           NEW N, N = MadeOf(calls, isError),
           NEW h, h = history \o Echo(flight) \o Results(flight, order, form, isError)
    PROVE  HistoryKept(client.protocol, h, M \o N, im)
<1>0. client.protocol \in Known4
  BY DEF Clients, Known4
<1>1. IsSeq(calls)
  BY <1>0, ReadCalls
<1>2. PICK n \in Nat : n = Len(calls) /\ DOMAIN calls = 1..n
  BY <1>1, IsSeqFields
<1>3. /\ Onto(order, n) /\ order \in [1..n -> 1..n]
      /\ client.style # "ids" => order = [k \in 1..n |-> k]
  BY <1>2, OrdersOnto
<1>4. /\ N = [k \in DOMAIN calls |-> N[k]]
      /\ \A k \in 1..n : /\ N[k].name = calls[k].name /\ N[k].arguments = calls[k].arguments
                         /\ N[k].signature = Signature(k) /\ N[k].isError = isError
  BY <1>2 DEF MadeOf
<1>5. IsSeq(N) /\ Len(N) = n
  BY <1>1, <1>2, <1>4, IsSeqOver
<1>6. CASE client.protocol = "gemini"
  <2>1. PICK parts, style : parts = flight.parts /\ style = client.style
    OBVIOUS
  <2>2. PICK c : c = Content!Content("model", [k \in DOMAIN parts |-> EchoPart(parts[k], style)])
    BY Zenon
  <2>3. Echo(flight) = <<c>>
    BY <1>6, <2>1, <2>2 DEF Echo, By, Content!Echo, EchoPart, Content!NoID, NoID
  <2>4. IsEcho(c, parts, style)
    BY <2>2 DEF IsEcho, Content!Content
  <2>5. PICK fcs : fcs = OfType(parts, "functionCall")
    OBVIOUS
  <2>6. GemShape(parts) /\ GemKept(history, M, im)
    BY <1>6, <2>1 DEF Shaped, HistoryKept
  <2>7. HasIDs(fcs) /\ IsSeq(fcs)
    BY <2>5, <2>6, GemCallsHaveIDs
  <2>8. calls = [k \in DOMAIN fcs |-> [id |-> fcs[k].id, name |-> fcs[k].name,
                                      arguments |-> fcs[k].args]]
    <3>1. ReadAnswer(client.protocol, flight) = Content!Read(flight)
      BY <1>6 DEF ReadAnswer, By
    <3>2. fcs = OfType(flight.parts, "functionCall")
      BY <2>1, <2>5
    <3>3. PICK read : read = Content!Read(flight).calls
      OBVIOUS
    <3>4. read = [k \in DOMAIN fcs |-> [id |-> fcs[k].id, name |-> fcs[k].name,
                                        arguments |-> fcs[k].args]]
      BY <3>2, <3>3, GeminiCalls
    <3> QED
      BY <3>1, <3>3, <3>4
  <2>9. Len(fcs) = n /\ DOMAIN fcs = 1..n
    <3>1. calls = [k \in DOMAIN fcs |-> calls[k]]
      BY <2>8
    <3> QED
      BY <1>2, <2>7, <3>1, IsSeqOver, IsSeqFields
  <2>10. isError = FALSE
    BY <1>6
  <2>11. \A k \in 1..n : Signature(k) = fcs[k].signature
    BY <1>6, <2>1, <2>5 DEF Signature
  <2>12. MakesSigned(N, fcs, FALSE)
    <3>1. \A k \in 1..n : /\ N[k].name = fcs[k].name /\ N[k].arguments = fcs[k].args
                          /\ N[k].signature = fcs[k].signature
      <4> SUFFICES ASSUME NEW k \in 1..n
                   PROVE  /\ N[k].name = fcs[k].name /\ N[k].arguments = fcs[k].args
                          /\ N[k].signature = fcs[k].signature
        BY Zenon
      <4>1. calls[k].name = fcs[k].name /\ calls[k].arguments = fcs[k].args
        BY <2>8, <2>9
      <4>2. /\ N[k].name = calls[k].name /\ N[k].arguments = calls[k].arguments
            /\ N[k].signature = Signature(k)
        BY <1>4, Zenon
      <4>3. Signature(k) = fcs[k].signature
        BY <2>11
      <4> QED
        BY <4>1, <4>2, <4>3
    <3>2. \A k \in 1..n : N[k].isError = FALSE
      BY <1>4, <2>10, Zenon
    <3>3. PICK no : no = FALSE
      BY Zenon
    <3>4. \A k \in 1..n : N[k].isError = no
      BY <3>2, <3>3, Zenon
    <3>5. MakesSigned(N, fcs, no)
      BY <1>5, <2>9, <3>1, <3>4 DEF MakesSigned
    <3> QED
      BY <3>3, <3>5, Zenon
  <2>13. Results(flight, order, form, isError) = Content!Results(flight, order, style)
    BY <1>6, <2>1 DEF Results, By
  <2>14. PICK o : Content!Results(flight, order, style) = <<o>> /\ IsResults(o, fcs, order, style)
    BY <1>3, <2>1, <2>5, <2>7, <2>9, GeminiResults, Zenon
  <2>15. InStyle(order, Len(fcs), style) /\ Onto(order, Len(fcs))
    BY <1>3, <2>1, <2>9 DEF InStyle
  <2>16. PICK g : g = history \o <<c>>
    BY Zenon
  <2>17. PICK k : k = g \o <<o>>
    BY Zenon
  <2>18. GemKept(k, M \o N, im)
    BY <2>4, <2>5, <2>6, <2>7, <2>12, <2>14, <2>15, <2>16, <2>17, GemRound, Zenon
  <2>19. k = h
    BY <2>3, <2>13, <2>14, <2>16, <2>17
  <2> QED
    BY <1>6, <2>18, <2>19 DEF HistoryKept
<1>7. CASE client.protocol # "gemini"
  <2>1. PICK p : p = client.protocol
    OBVIOUS
  <2>2. p \in {"chat", "responses", "anthropic"}
    BY <1>0, <1>7, <2>1 DEF Known4
  <2>3. PICK e, r : e = Echo(flight) /\ r = Results(flight, order, form, isError)
    OBVIOUS
  <2>4. Lifts(p, e) /\ Echoes(Lifted(p, e), calls)
    BY <2>1, <2>2, <2>3, EchoKept
  <2>5. Lifts(p, r) /\ ResultsOf(Lifted(p, r), calls, order, isError)
    BY <1>2, <1>3, <2>1, <2>2, <2>3, ResultsKept
  <2>6. Makes(N, calls, isError) /\ Unsigned(N)
    BY <1>1, <1>2, <1>4, <1>5, <1>7, Zenon DEF Makes, Unsigned, Signature
  <2>7. Onto(order, Len(calls))
    BY <1>2, <1>3
  <2>8. PICK E, R : E = Lifted(p, e) /\ R = Lifted(p, r)
    OBVIOUS
  <2>9. Faithful(E \o R, N, << >>)
    BY <2>4, <2>5, <2>6, <2>7, <2>8, RoundMade
  <2>10. Lifts(p, history) /\ Faithful(Lifted(p, history), M, im)
    BY <1>7, <2>1 DEF HistoryKept
  <2>11. PICK g : g = history \o e
    BY Zenon
  <2>12. Lifts(p, g) /\ Lifted(p, g) = Lifted(p, history) \o E
    BY <2>4, <2>8, <2>10, <2>11, LiftedJoin, Zenon
  <2>13. PICK k : k = g \o r
    BY Zenon
  <2>14. Lifts(p, k) /\ Lifted(p, k) = Lifted(p, g) \o R
    BY <2>5, <2>8, <2>12, <2>13, LiftedJoin, Zenon
  <2>15. PICK H : H = Lifted(p, history)
    OBVIOUS
  <2>16. IsSeq(H) /\ IsSeq(E) /\ IsSeq(R)
    BY <2>4, <2>5, <2>8, <2>10, <2>15, LiftedRows
  <2>17. Lifted(p, k) = H \o (E \o R)
    BY <2>12, <2>14, <2>15, <2>16, JoinThrice
  <2>18. PICK D : D = E \o R
    BY Zenon
  <2>19. Faithful(H \o D, M \o N, im \o << >>)
    BY <2>9, <2>10, <2>15, <2>18, FaithfulJoin, Zenon
  <2>20. im \o << >> = im
    <3>1. im = OfType(H, "image")
      BY <2>10, <2>15 DEF Faithful
    <3>2. IsSeq(im)
      BY <2>16, <3>1, OfTypeMembers
    <3> QED
      BY <3>2 DEF IsSeq
  <2>21. k = h
    BY <2>1, <2>3, <2>11, <2>13
  <2>22. Faithful(Lifted(p, h), M \o N, im)
    BY <2>17, <2>18, <2>19, <2>20, <2>21, Zenon
  <2> QED
    BY <1>7, <2>1, <2>14, <2>21, <2>22 DEF HistoryKept
<1> QED
  BY <1>6, <1>7

-----------------------------------------------------------------------------
(***************************************************************************)
(* The third inductive invariant: the history, the IR request and what the *)
(* provider sees tell of the calls that were made.                         *)
(***************************************************************************)
\* What a provider of a protocol sees of a request.
SeenBy(protocol, sent) ==
    By(protocol, Chat!Seen(sent), Responses!Seen(sent), Messages!Seen(sent), Content!Seen(sent))

\* The history says what was made, and so does the request, up to the provider.
Keeping ==
    /\ HistoryKept(client.protocol, history, made, PromptImages(wants))
    /\ (pc = "client" /\ status = 200) => Shaped(client.protocol, flight)
    /\ pc = "adapter" => SaysAll(flight, route.model, made, PromptImages(wants))
    /\ pc = "provider" => /\ SaysAll(asked, route.model, made, PromptImages(wants))
                          /\ Shows(route.protocol, asked, SeenBy(route.protocol, flight))

\* The images that a client may want to send.
LEMMA WantsImage ==
    ASSUME Wanted
    PROVE  wants.image \in {"-", "url", "inline"}
BY WantsAssumption DEF Wanted, Wants

\* The initial states.
LEMMA KeepingInit == Init => Keeping
<1> SUFFICES ASSUME Init PROVE Keeping
  OBVIOUS
<1>1. client.protocol \in Known4
  BY DEF Init, Clients, Known4
<1>2. wants.image \in {"-", "url", "inline"}
  BY WantsAssumption DEF Init, Wants
<1>3. PICK p, want : p = client.protocol /\ want = wants
  OBVIOUS
<1>4. HistoryKept(p, Opening(p, FirstParts(want)), << >>, PromptImages(want))
  BY <1>1, <1>2, <1>3, FirstKept
<1>5. history = Opening(client.protocol, FirstParts(wants)) /\ made = << >>
  BY DEF Init
<1>6. HistoryKept(client.protocol, history, made, PromptImages(wants))
  BY <1>3, <1>4, <1>5
<1>7. pc = "client" /\ status # 200
  BY DEF Init
<1> QED
  BY <1>6, <1>7 DEF Keeping

\* A step that leaves the history alone leaves it kept.
LEMMA HistoryStays ==
    ASSUME Keeping, UNCHANGED <<client, wants, history, made>>
    PROVE  HistoryKept(client.protocol, history, made, PromptImages(wants))'
BY Zenon DEF Keeping, HistoryKept, PromptImages

\* A failure keeps the history.
LEMMA FailKeeps ==
    ASSUME Keeping, NEW step, NEW code \in {400, 429, 502, 504}, Fail(step, code)
    PROVE  Keeping'
<1>1. pc' = "client" /\ status' # 200 /\ UNCHANGED <<client, wants, history, made>>
  BY DEF Fail
<1>2. HistoryKept(client.protocol, history, made, PromptImages(wants))'
  BY <1>1, HistoryStays
<1> QED
  BY <1>1, <1>2 DEF Keeping

\* The gateway's first step.
LEMMA DispatchKeeps ==
    ASSUME Keeping, NEW translated, Dispatch(translated),
           (pc = "gateway" /\ translated.ok) =>
               SaysAll(translated.value, route.model, made, PromptImages(wants))
    PROVE  Keeping'
<1>1. CASE /\ translated.ok /\ pc' = "adapter" /\ flight' = translated.value
           /\ UNCHANGED <<client, wants, history, route, made>>
  <2>1. HistoryKept(client.protocol, history, made, PromptImages(wants))'
    BY <1>1, HistoryStays
  <2>2. SaysAll(translated.value, route.model, made, PromptImages(wants))
    BY <1>1 DEF Dispatch
  <2>3. SaysAll(flight, route.model, made, PromptImages(wants))'
    BY <1>1, <2>2
  <2> QED
    BY <1>1, <2>1, <2>3 DEF Keeping
<1>2. CASE Fail("request", writeRuntimeError(client.protocol, "translation", 0))
  BY <1>2, Statuses, FailKeeps
<1> QED
  BY <1>1, <1>2 DEF Dispatch

\* The gateway's last step.
LEMMA AnswerKeeps ==
    ASSUME Keeping, NEW translated, Answer(translated),
           (pc = "answer" /\ translated.ok) => Shaped(client.protocol, translated.value)
    PROVE  Keeping'
<1>1. CASE /\ translated.ok /\ pc' = "client" /\ flight' = translated.value
           /\ UNCHANGED <<client, wants, history, made>>
  <2>1. HistoryKept(client.protocol, history, made, PromptImages(wants))'
    BY <1>1, HistoryStays
  <2>2. Shaped(client.protocol, translated.value)
    BY <1>1 DEF Answer
  <2>3. Shaped(client.protocol, flight)'
    BY <1>1, <2>2
  <2> QED
    BY <1>1, <2>1, <2>3 DEF Keeping
<1>2. CASE Fail("answer", writeRuntimeError(client.protocol, "other", 0))
  BY <1>2, Statuses, FailKeeps
<1> QED
  BY <1>1, <1>2 DEF Answer

\* The adapter's first step.
LEMMA SendKeeps ==
    ASSUME Keeping, NEW translated, Send(translated),
           (pc = "adapter" /\ translated.ok) =>
               Shows(route.protocol, flight, SeenBy(route.protocol, translated.value))
    PROVE  Keeping'
<1>1. CASE /\ translated.ok /\ pc' = "provider" /\ flight' = translated.value
           /\ asked' = flight /\ UNCHANGED <<client, wants, history, route, made>>
  <2>1. HistoryKept(client.protocol, history, made, PromptImages(wants))'
    BY <1>1, HistoryStays
  <2>2. /\ SaysAll(flight, route.model, made, PromptImages(wants))
        /\ Shows(route.protocol, flight, SeenBy(route.protocol, translated.value))
    BY <1>1 DEF Send, Keeping
  <2>3. SaysAll(asked, route.model, made, PromptImages(wants))'
    BY <1>1, <2>2
  <2>4. Shows(route.protocol, asked, SeenBy(route.protocol, flight))'
    BY <1>1, <2>2
  <2> QED
    BY <1>1, <2>1, <2>3, <2>4 DEF Keeping
<1>2. CASE \E step, code : Report(step, code)
  <2>1. PICK step, code : Report(step, code)
    BY <1>2
  <2> QED
    BY <2>1, Statuses, FailKeeps DEF Report
<1> QED
  BY <1>1, <1>2 DEF Send

\* On the way back only the history counts.
LEMMA HomewardKeeps ==
    ASSUME Keeping, pc' \in {"reply", "answer"}, UNCHANGED <<client, wants, history, made>>
    PROVE  Keeping'
<1>1. HistoryKept(client.protocol, history, made, PromptImages(wants))'
  BY HistoryStays
<1> QED
  BY <1>1 DEF Keeping

\* The adapter's last step.
LEMMA ReceiveKeeps ==
    ASSUME Keeping, NEW translated, Receive(translated)
    PROVE  Keeping'
<1>1. CASE pc' = "answer" /\ UNCHANGED <<client, wants, history, made>>
  BY <1>1, HomewardKeeps
<1>2. CASE \E step, code : Report(step, code)
  <2>1. PICK step, code : Report(step, code)
    BY <1>2
  <2> QED
    BY <2>1, Statuses, FailKeeps DEF Report
<1> QED
  BY <1>1, <1>2 DEF Receive

\* The provider replies.
LEMMA ProviderKeeps ==
    ASSUME Keeping, Provider
    PROVE  Keeping'
<1>1. pc' = "reply" /\ UNCHANGED <<client, wants, history, made>>
  BY DEF Provider, Replied
<1> QED
  BY <1>1, HomewardKeeps

\* The client asks.
LEMMA AskKeeps ==
    ASSUME NEW messages, Ask(messages),
           HistoryKept(client.protocol, messages, made', PromptImages(wants))
    PROVE  Keeping'
<1>1. pc' = "gateway" /\ history' = messages /\ UNCHANGED <<client, wants>>
  BY DEF Ask
<1>2. HistoryKept(client.protocol, history, made, PromptImages(wants))'
  BY <1>1
<1> QED
  BY <1>1, <1>2 DEF Keeping

\* An IR request that says what the history says tells of the calls that were made.
LEMMA SaidAll ==
    ASSUME NEW v, NEW p, NEW h, NEW model, Said(v, p, h, model),
           NEW M, NEW im, Faithful(Lifted(p, h), M, im)
    PROVE  SaysAll(v, model, M, im)
BY DEF Said, SaysAll

\* Every gateway's IR request tells of the calls that were made.
LEMMA GatewaySays ==
    ASSUME Carried, Keeping, pc = "gateway"
    PROVE  /\ (client.protocol = "chat" /\ Chat!ToIR(flight, request, route.model).ok) =>
                 SaysAll(Chat!ToIR(flight, request, route.model).value, route.model, made,
                         PromptImages(wants))
           /\ (client.protocol = "responses" /\ Responses!ToIR(flight, request, route.model).ok) =>
                 SaysAll(Responses!ToIR(flight, request, route.model).value, route.model, made,
                         PromptImages(wants))
           /\ (/\ client.protocol = "anthropic"
               /\ Messages!ToIRRequest(flight, request, route.model).ok) =>
                 SaysAll(Messages!ToIRRequest(flight, request, route.model).value, route.model,
                         made, PromptImages(wants))
           /\ (/\ client.protocol = "gemini"
               /\ Content!ToIRRequest(flight, request, route.model).ok) =>
                 SaysAll(Content!ToIRRequest(flight, request, route.model).value, route.model,
                         made, PromptImages(wants))
<1>1. flight = AskWith(client.protocol, history)
  BY DEF Carried, Outward
<1>2. PICK want, h, n, model : want = wants /\ h = history /\ n = request /\ model = route.model
  OBVIOUS
<1>3. PICK M, im : M = made /\ im = PromptImages(wants)
  OBVIOUS
<1>4. HistoryKept(client.protocol, h, M, im)
  BY <1>2, <1>3 DEF Keeping
<1>5. ASSUME client.protocol = "chat", Chat!ToIR(flight, request, route.model).ok
      PROVE  SaysAll(Chat!ToIR(flight, request, route.model).value, model, M, im)
  <2>1. PICK out : out = Chat!ToIR(flight, request, route.model)
    OBVIOUS
  <2>2. flight = Chat!Ask(want, h)
    BY <1>1, <1>2, <1>5 DEF AskWith, By
  <2>3. out = Chat!ToIR(Chat!Ask(want, h), n, model) /\ out.ok
    BY <1>2, <1>5, <2>1, <2>2
  <2>4. Lifts("chat", h) /\ Faithful(Lifted("chat", h), M, im)
    BY <1>4, <1>5 DEF HistoryKept
  <2>5. Said(out.value, "chat", h, model)
    BY <2>3, <2>4, ChatSaid
  <2> QED
    BY <2>1, <2>4, <2>5, SaidAll
<1>6. ASSUME client.protocol = "responses", Responses!ToIR(flight, request, route.model).ok
      PROVE  SaysAll(Responses!ToIR(flight, request, route.model).value, model, M, im)
  <2>1. PICK out : out = Responses!ToIR(flight, request, route.model)
    OBVIOUS
  <2>2. flight = Responses!Ask(want, h)
    BY <1>1, <1>2, <1>6 DEF AskWith, By
  <2>3. out = Responses!ToIR(Responses!Ask(want, h), n, model) /\ out.ok
    BY <1>2, <1>6, <2>1, <2>2
  <2>4. Lifts("responses", h) /\ Faithful(Lifted("responses", h), M, im)
    BY <1>4, <1>6 DEF HistoryKept
  <2>5. Said(out.value, "responses", h, model)
    BY <2>3, <2>4, ResponsesSaid
  <2> QED
    BY <2>1, <2>4, <2>5, SaidAll
<1>7. ASSUME client.protocol = "anthropic", Messages!ToIRRequest(flight, request, route.model).ok
      PROVE  SaysAll(Messages!ToIRRequest(flight, request, route.model).value, model, M, im)
  <2>1. PICK out : out = Messages!ToIRRequest(flight, request, route.model)
    OBVIOUS
  <2>2. flight = Messages!Ask(want, h)
    BY <1>1, <1>2, <1>7 DEF AskWith, By
  <2>3. out = Messages!ToIRRequest(Messages!Ask(want, h), n, model) /\ out.ok
    BY <1>2, <1>7, <2>1, <2>2
  <2>4. Lifts("anthropic", h) /\ Faithful(Lifted("anthropic", h), M, im)
    BY <1>4, <1>7 DEF HistoryKept
  <2>5. Said(out.value, "anthropic", h, model)
    BY <2>3, <2>4, AnthropicSaid
  <2> QED
    BY <2>1, <2>4, <2>5, SaidAll
<1>8. ASSUME client.protocol = "gemini", Content!ToIRRequest(flight, request, route.model).ok
      PROVE  SaysAll(Content!ToIRRequest(flight, request, route.model).value, model, M, im)
  <2>1. PICK out : out = Content!ToIRRequest(flight, request, route.model)
    OBVIOUS
  <2>2. flight = Content!Ask(want, h)
    BY <1>1, <1>2, <1>8 DEF AskWith, By
  <2>3. out = Content!ToIRRequest(Content!Ask(want, h), n, model) /\ out.ok
    BY <1>2, <1>8, <2>1, <2>2
  <2>4. GemKept(h, M, im)
    BY <1>4, <1>8 DEF HistoryKept
  <2>5. SaysAll(out.value, model, M, im)
    BY <2>3, <2>4, GeminiSaid
  <2> QED
    BY <2>1, <2>5
<1> QED
  BY <1>2, <1>3, <1>5, <1>6, <1>7, <1>8

\* The steps of the gateways.
LEMMA GatewayKeeps ==
    ASSUME Carried, Telling, Keeping,
           createChatCompletion \/ createResponse \/ createMessage \/ generateContent
    PROVE  Keeping'
<1>1. pc = "answer" => IsSeq(flight.content)
  BY DEF Telling, Tells
<1>2. CASE createChatCompletion
  <2>1. client.protocol = "chat"
    BY <1>2 DEF createChatCompletion
  <2>2. CASE Answer(Chat!FromIR(flight))
    <3>1. PICK out : out = Chat!FromIR(flight)
      OBVIOUS
    <3>2. (pc = "answer" /\ out.ok) => Shaped(client.protocol, out.value)
      BY <1>1, <2>1, <3>1, ChatShaped DEF Shaped
    <3> QED
      BY <2>2, <3>1, <3>2, AnswerKeeps
  <2>3. CASE Dispatch(Chat!ToIR(flight, request, route.model))
    <3>1. PICK out : out = Chat!ToIR(flight, request, route.model)
      OBVIOUS
    <3>2. (pc = "gateway" /\ out.ok) => SaysAll(out.value, route.model, made, PromptImages(wants))
      BY <2>1, <3>1, GatewaySays
    <3> QED
      BY <2>3, <3>1, <3>2, DispatchKeeps
  <2> QED
    BY <1>2, <2>2, <2>3 DEF createChatCompletion
<1>3. CASE createResponse
  <2>1. client.protocol = "responses"
    BY <1>3 DEF createResponse
  <2>2. CASE Answer(Responses!FromIR(flight))
    <3>1. PICK out : out = Responses!FromIR(flight)
      OBVIOUS
    <3>2. (pc = "answer" /\ out.ok) => Shaped(client.protocol, out.value)
      BY <1>1, <2>1, <3>1, ResponsesShaped DEF Shaped
    <3> QED
      BY <2>2, <3>1, <3>2, AnswerKeeps
  <2>3. CASE Dispatch(Responses!ToIR(flight, request, route.model))
    <3>1. PICK out : out = Responses!ToIR(flight, request, route.model)
      OBVIOUS
    <3>2. (pc = "gateway" /\ out.ok) => SaysAll(out.value, route.model, made, PromptImages(wants))
      BY <2>1, <3>1, GatewaySays
    <3> QED
      BY <2>3, <3>1, <3>2, DispatchKeeps
  <2> QED
    BY <1>3, <2>2, <2>3 DEF createResponse
<1>4. CASE createMessage
  <2>1. client.protocol = "anthropic"
    BY <1>4 DEF createMessage
  <2>2. CASE Answer(Messages!FromIRResponse(flight))
    <3>1. PICK out : out = Messages!FromIRResponse(flight)
      OBVIOUS
    <3>2. (pc = "answer" /\ out.ok) => Shaped(client.protocol, out.value)
      BY <1>1, <2>1, <3>1, AnthropicShaped DEF Shaped
    <3> QED
      BY <2>2, <3>1, <3>2, AnswerKeeps
  <2>3. CASE Dispatch(Messages!ToIRRequest(flight, request, route.model))
    <3>1. PICK out : out = Messages!ToIRRequest(flight, request, route.model)
      OBVIOUS
    <3>2. (pc = "gateway" /\ out.ok) => SaysAll(out.value, route.model, made, PromptImages(wants))
      BY <2>1, <3>1, GatewaySays
    <3> QED
      BY <2>3, <3>1, <3>2, DispatchKeeps
  <2> QED
    BY <1>4, <2>2, <2>3 DEF createMessage
<1>5. CASE generateContent
  <2>1. client.protocol = "gemini"
    BY <1>5 DEF generateContent
  <2>2. CASE Answer(Content!FromIRResponse(flight))
    <3>1. PICK out : out = Content!FromIRResponse(flight)
      OBVIOUS
    <3>2. (pc = "answer" /\ out.ok) => Shaped(client.protocol, out.value)
      BY <1>1, <2>1, <3>1, GeminiShaped DEF Shaped
    <3> QED
      BY <2>2, <3>1, <3>2, AnswerKeeps
  <2>3. CASE Dispatch(Content!ToIRRequest(flight, request, route.model))
    <3>1. PICK out : out = Content!ToIRRequest(flight, request, route.model)
      OBVIOUS
    <3>2. (pc = "gateway" /\ out.ok) => SaysAll(out.value, route.model, made, PromptImages(wants))
      BY <2>1, <3>1, GatewaySays
    <3> QED
      BY <2>3, <3>1, <3>2, DispatchKeeps
  <2> QED
    BY <1>5, <2>2, <2>3 DEF generateContent
<1> QED
  BY <1>2, <1>3, <1>4, <1>5

\* The steps of the adapters.
LEMMA AdapterKeeps ==
    ASSUME Carried, Keeping,
           generateChat \/ generateResponses \/ generateMessages \/ generateGemini
    PROVE  Keeping'
<1>1. pc = "adapter" => Formed(flight.messages)
  BY DEF Keeping, SaysAll
<1>2. CASE generateChat
  <2>1. route.protocol = "chat" /\ \A sent : SeenBy(route.protocol, sent) = Chat!Seen(sent)
    BY <1>2 DEF generateChat, SeenBy, By
  <2>2. CASE Send(Chat!ToChatRequest(flight))
    <3>1. PICK out : out = Chat!ToChatRequest(flight)
      OBVIOUS
    <3>2. (pc = "adapter" /\ out.ok) =>
              Shows(route.protocol, flight, SeenBy(route.protocol, out.value))
      BY <1>1, <2>1, <3>1, ChatShows
    <3> QED
      BY <2>2, <3>1, <3>2, SendKeeps
  <2> QED
    BY <1>2, <2>2, ReceiveKeeps DEF generateChat
<1>3. CASE generateResponses
  <2>1. route.protocol = "responses" /\ \A sent : SeenBy(route.protocol, sent) = Responses!Seen(sent)
    BY <1>3 DEF generateResponses, SeenBy, By
  <2>2. CASE Send(IF Responses!WithinLimit(flight) THEN Responses!ToProviderRequest(flight)
                  ELSE Refused)
    <3>1. PICK out : out = IF Responses!WithinLimit(flight) THEN Responses!ToProviderRequest(flight)
                           ELSE Refused
      OBVIOUS
    <3>2. out.ok => out = Responses!ToProviderRequest(flight)
      BY <3>1 DEF Refused
    <3>3. (pc = "adapter" /\ out.ok) =>
              Shows(route.protocol, flight, SeenBy(route.protocol, out.value))
      BY <1>1, <2>1, <3>2, ResponsesShows
    <3> QED
      BY <2>2, <3>1, <3>3, SendKeeps
  <2> QED
    BY <1>3, <2>2, ReceiveKeeps DEF generateResponses
<1>4. CASE generateMessages
  <2>1. route.protocol = "anthropic" /\ \A sent : SeenBy(route.protocol, sent) = Messages!Seen(sent)
    BY <1>4 DEF generateMessages, SeenBy, By
  <2>2. CASE Send(Messages!ToMessageRequest(flight))
    <3>1. PICK out : out = Messages!ToMessageRequest(flight)
      OBVIOUS
    <3>2. (pc = "adapter" /\ out.ok) =>
              Shows(route.protocol, flight, SeenBy(route.protocol, out.value))
      BY <1>1, <2>1, <3>1, AnthropicShows
    <3> QED
      BY <2>2, <3>1, <3>2, SendKeeps
  <2> QED
    BY <1>4, <2>2, ReceiveKeeps DEF generateMessages
<1>5. CASE generateGemini
  <2>1. route.protocol = "gemini" /\ \A sent : SeenBy(route.protocol, sent) = Content!Seen(sent)
    BY <1>5 DEF generateGemini, SeenBy, By
  <2>2. CASE Send(Content!ToProviderRequest(flight))
    <3>1. PICK out : out = Content!ToProviderRequest(flight)
      OBVIOUS
    <3>2. (pc = "adapter" /\ out.ok) =>
              Shows(route.protocol, flight, SeenBy(route.protocol, out.value))
      BY <1>1, <2>1, <3>1, GeminiShows
    <3> QED
      BY <2>2, <3>1, <3>2, SendKeeps
  <2> QED
    BY <1>5, <2>2, ReceiveKeeps DEF generateGemini
<1> QED
  BY <1>2, <1>3, <1>4, <1>5

\* The steps of the client.
LEMMA ClientKeeps ==
    ASSUME Carried, Keeping, AskAgain \/ AskWithResults \/ AskMore
    PROVE  Keeping'
<1>1. client \in Clients /\ client.protocol \in Known4
  BY DEF Carried, TypeOK, Clients, Known4
<1>2. PICK M, im : M = made /\ im = PromptImages(wants)
  OBVIOUS
<1>3. HistoryKept(client.protocol, history, M, im)
  BY <1>2 DEF Keeping
<1>4. CASE AskAgain
  <2>1. Ask(history) /\ made' = made
    BY <1>4 DEF AskAgain
  <2>2. HistoryKept(client.protocol, history, made', PromptImages(wants))
    BY <1>2, <1>3, <2>1
  <2> QED
    BY <2>1, <2>2, AskKeeps
<1>5. CASE AskMore
  <2>1. PICK h : h = history \o Echo(flight) \o Opening(client.protocol, <<Text>>)
    BY Zenon
  <2>2. Ask(h) /\ made' = made
    BY <1>5, <2>1, Zenon DEF AskMore
  <2>3. /\ ReadAnswer(client.protocol, flight).calls = << >>
        /\ Shaped(client.protocol, flight)
    BY <1>5 DEF AskMore, Keeping
  <2>4. HistoryKept(client.protocol, h, M, im)
    BY <1>1, <1>3, <2>1, <2>3, MoreKept, Zenon
  <2>5. HistoryKept(client.protocol, h, made', PromptImages(wants))
    BY <1>2, <2>2, <2>4
  <2> QED
    BY <2>2, <2>5, AskKeeps
<1>6. CASE AskWithResults
  <2>1. PICK calls : calls = ReadAnswer(client.protocol, flight).calls
    OBVIOUS
  <2>2. PICK order \in Orders(Len(calls)), form \in Forms, isError \in BOOLEAN :
           /\ isError => client.protocol = "anthropic"
           /\ Ask(history \o Echo(flight) \o Results(flight, order, form, isError))
           /\ made' = made \o MadeOf(calls, isError)
    BY <1>6, <2>1, Zenon DEF AskWithResults, MadeOf
  <2>3. PICK h : h = history \o Echo(flight) \o Results(flight, order, form, isError)
    BY Zenon
  <2>4. PICK N : N = MadeOf(calls, isError)
    OBVIOUS
  <2>5. Shaped(client.protocol, flight)
    BY <1>6, Zenon DEF AskWithResults, Keeping
  <2>6. HistoryKept(client.protocol, h, M \o N, im)
    BY <1>1, <1>3, <2>1, <2>2, <2>3, <2>4, <2>5, RoundKept, Zenon
  <2>7. HistoryKept(client.protocol, h, made', PromptImages(wants))
    BY <1>2, <2>2, <2>4, <2>6
  <2>8. Ask(h)
    BY <2>2, <2>3, Zenon
  <2> QED
    BY <2>7, <2>8, AskKeeps
<1> QED
  BY <1>4, <1>5, <1>6

\* Every step keeps it.
LEMMA KeepingNext == Carried /\ Telling /\ Keeping /\ [Next]_vars => Keeping'
<1> SUFFICES ASSUME Carried, Telling, Keeping, [Next]_vars PROVE Keeping'
  OBVIOUS
<1>1. CASE createChatCompletion \/ createResponse \/ createMessage \/ generateContent
  BY <1>1, GatewayKeeps
<1>2. CASE generateChat \/ generateResponses \/ generateMessages \/ generateGemini
  BY <1>2, AdapterKeeps
<1>3. CASE Abandon
  BY <1>3, Statuses, FailKeeps DEF Abandon
<1>4. CASE Provider
  BY <1>4, ProviderKeeps
<1>5. CASE AskAgain \/ AskWithResults \/ AskMore
  BY <1>5, ClientKeeps
<1>6. CASE UNCHANGED vars
  <2>1. /\ client' = client /\ wants' = wants /\ history' = history /\ made' = made
        /\ pc' = pc /\ status' = status /\ flight' = flight /\ asked' = asked /\ route' = route
    BY <1>6 DEF vars
  <2> QED
    BY <2>1, Zenon DEF Keeping
<1> QED
  BY <1>1, <1>2, <1>3, <1>4, <1>5, <1>6 DEF Next

\* The third inductive invariant of the conversation, over the other two.
THEOREM KeepingInvariant == Spec => []Keeping
BY CarriedInvariant, TellingInvariant, KeepingInit, KeepingNext, PTL DEF Spec

-----------------------------------------------------------------------------
(***************************************************************************)
(* Where the parts that a provider sees come from.                         *)
(***************************************************************************)
\* Of n rows, those of K hold one element each, and the others none.
KeptRows(n, K, v) == [i \in 1..n |-> IF i \in K THEN <<v[i]>> ELSE << >>]

\* u has the elements of v at the positions pos, in order, which are those of K.
Picked(u, pos, n, K, v) ==
    /\ IsSeq(u)
    /\ \A j \in 1..Len(u) : pos[j] \in 1..n /\ pos[j] \in K /\ u[j] = v[pos[j]]
    /\ \A i, j \in 1..Len(u) : i < j => pos[i] < pos[j]
    /\ \A k \in 1..n : k \in K => \E j \in 1..Len(u) : pos[j] = k

\* One row further, with an element.
LEMMA PickedMore ==
    ASSUME NEW n \in Nat, NEW K, NEW v, NEW u, NEW pos, Picked(u, pos, n, K, v),
           NEW w, Joins(w, u, <<v[n + 1]>>), n + 1 \in K
    PROVE  \E q : Picked(w, q, n + 1, K, v)
<1>1. PICK m \in Nat : m = Len(u)
  BY IsSeqFields DEF Picked
<1>2. PICK x : x = <<v[n + 1]>>
  OBVIOUS
<1>3. Len(x) = 1 /\ x[1] = v[n + 1]
  BY <1>2
<1>4. /\ IsSeq(w) /\ Len(w) = m + 1
      /\ \A k \in 1..m : w[k] = u[k]
      /\ w[m + 1] = v[n + 1]
  BY <1>1, <1>2, <1>3 DEF Joins
<1>5. PICK q : q = [j \in 1..(m + 1) |-> IF j \in 1..m THEN pos[j] ELSE n + 1]
  BY Zenon
<1>6. /\ \A j \in 1..m : q[j] = pos[j]
      /\ q[m + 1] = n + 1
  BY <1>5
<1>7. /\ \A j \in 1..m : pos[j] \in 1..n /\ pos[j] \in K /\ u[j] = v[pos[j]]
      /\ \A i, j \in 1..m : i < j => pos[i] < pos[j]
      /\ \A k \in 1..n : k \in K => \E j \in 1..m : pos[j] = k
  BY <1>1 DEF Picked
<1>8. \A j \in 1..(m + 1) : j \in 1..m \/ j = m + 1
  OBVIOUS
<1>9. \A j \in 1..(m + 1) : q[j] \in 1..(n + 1) /\ q[j] \in K /\ w[j] = v[q[j]]
  <2> SUFFICES ASSUME NEW j \in 1..(m + 1)
               PROVE  q[j] \in 1..(n + 1) /\ q[j] \in K /\ w[j] = v[q[j]]
    OBVIOUS
  <2>1. CASE j \in 1..m
    <3>1. q[j] = pos[j] /\ w[j] = u[j] /\ pos[j] \in 1..n /\ pos[j] \in K /\ u[j] = v[pos[j]]
      BY <1>4, <1>6, <1>7, <2>1
    <3> QED
      BY <3>1
  <2>2. CASE j = m + 1
    BY <1>4, <1>6, <2>2
  <2> QED
    BY <1>8, <2>1, <2>2
<1>10. \A i, j \in 1..(m + 1) : i < j => q[i] < q[j]
  <2> SUFFICES ASSUME NEW i \in 1..(m + 1), NEW j \in 1..(m + 1), i < j PROVE q[i] < q[j]
    OBVIOUS
  <2>1. i \in 1..m
    OBVIOUS
  <2>2. q[i] = pos[i] /\ pos[i] \in 1..n
    BY <1>6, <1>7, <2>1
  <2>3. CASE j \in 1..m
    BY <1>6, <1>7, <2>1, <2>3
  <2>4. CASE j = m + 1
    BY <1>6, <2>2, <2>4
  <2> QED
    BY <1>8, <2>3, <2>4
<1>11. \A k \in 1..(n + 1) : k \in K => \E j \in 1..(m + 1) : q[j] = k
  <2> SUFFICES ASSUME NEW k \in 1..(n + 1), k \in K PROVE \E j \in 1..(m + 1) : q[j] = k
    OBVIOUS
  <2>1. CASE k \in 1..n
    <3>1. PICK j \in 1..m : pos[j] = k
      BY <1>7, <2>1
    <3>2. j \in 1..(m + 1) /\ q[j] = k
      BY <1>6, <3>1
    <3> QED
      BY <3>2
  <2>2. CASE k = n + 1
    <3>1. m + 1 \in 1..(m + 1)
      OBVIOUS
    <3> QED
      BY <1>6, <2>2, <3>1
  <2> QED
    BY <2>1, <2>2
<1>12. Picked(w, q, n + 1, K, v)
  BY <1>4, <1>9, <1>10, <1>11, Zenon DEF Picked
<1> QED
  BY <1>12

\* One row further, without an element.
LEMMA PickedSame ==
    ASSUME NEW n \in Nat, NEW K, NEW v, NEW u, NEW pos, Picked(u, pos, n, K, v), n + 1 \notin K
    PROVE  Picked(u, pos, n + 1, K, v)
<1>1. \A k \in 1..(n + 1) : k \in K => k \in 1..n
  OBVIOUS
<1>2. \A k \in 1..n : k \in 1..(n + 1)
  OBVIOUS
<1> QED
  BY <1>1, <1>2 DEF Picked

\* These are rows.
LEMMA KeptRowsAre ==
    ASSUME NEW n \in Nat, NEW K, NEW v
    PROVE  AreRows(KeptRows(n, K, v), n)
<1>1. \A i \in 1..n : IsSeq(IF i \in K THEN <<v[i]>> ELSE << >>)
  BY IsSeqTuples
<1> QED
  BY <1>1 DEF AreRows, KeptRows

\* Flattened, they have one element for every number of K, in the order of K.
LEMMA FlattenPicked ==
    ASSUME NEW n \in Nat, NEW K, NEW v
    PROVE  \E pos : Picked(FlattenSeq(KeptRows(n, K, v)), pos, n, K, v)
<1> DEFINE P == {m \in Nat : \E pos : Picked(FlattenSeq(KeptRows(m, K, v)), pos, m, K, v)}
<1>1. 0 \in P
  <2>1. KeptRows(0, K, v) = << >>
    BY DEF KeptRows
  <2>2. FlattenSeq(KeptRows(0, K, v)) = << >>
    BY <2>1, FlattenEmpty
  <2>3. Picked(<< >>, << >>, 0, K, v)
    BY IsSeqTuples DEF Picked
  <2>4. Picked(FlattenSeq(KeptRows(0, K, v)), << >>, 0, K, v)
    BY <2>2, <2>3
  <2> QED
    BY <2>4
<1>2. ASSUME NEW m \in Nat, m \in P PROVE m + 1 \in P
  <2>1. PICK u, w, pos : /\ u = FlattenSeq(KeptRows(m, K, v)) /\ w = FlattenSeq(KeptRows(m + 1, K, v))
                         /\ Picked(u, pos, m, K, v)
    BY <1>2
  <2>2. PICK uu, ss, x, tt : /\ uu = KeptRows(m + 1, K, v) /\ ss = KeptRows(m, K, v)
                             /\ x = (IF m + 1 \in K THEN <<v[m + 1]>> ELSE << >>)
                             /\ tt = [i \in 1..1 |-> x]
    BY Zenon
  <2>3. AreRows(uu, m + 1)
    BY <2>2, KeptRowsAre
  <2>4. Splits(uu, ss, m, tt, 1)
    BY <2>2 DEF Splits, KeptRows
  <2>5. FlattenSeq(uu) = FlattenSeq(ss) \o FlattenSeq(tt)
    <3>1. PICK one \in Nat : one = 1
      OBVIOUS
    <3>2. AreRows(uu, m + one) /\ Splits(uu, ss, m, tt, one)
      BY <2>3, <2>4, <3>1
    <3> QED
      BY <3>2, FlattenJoin
  <2>6. IsSeq(x)
    BY <2>2, IsSeqTuples
  <2>7. FlattenSeq(tt) = x
    BY <2>2, <2>6, FlattenOne
  <2>8. w = u \o x
    BY <2>1, <2>2, <2>5, <2>7, Zenon
  <2>9. IsSeq(u)
    BY <2>1 DEF Picked
  <2>10. CASE m + 1 \in K
    <3>1. Joins(w, u, <<v[m + 1]>>)
      BY <2>2, <2>6, <2>8, <2>9, <2>10, JoinsConcat
    <3>2. \E q : Picked(w, q, m + 1, K, v)
      BY <2>1, <2>10, <3>1, PickedMore
    <3> QED
      BY <2>1, <3>2
  <2>11. CASE m + 1 \notin K
    <3>1. x = << >>
      BY <2>2, <2>11
    <3>2. w = u
      BY <2>8, <2>9, <3>1 DEF IsSeq
    <3>3. Picked(w, pos, m + 1, K, v)
      BY <2>1, <2>11, <3>2, PickedSame
    <3> QED
      BY <2>1, <3>3
  <2> QED
    BY <2>10, <2>11
<1> HIDE DEF P
<1>3. Nat \subseteq P
  BY <1>1, <1>2, SetInduction
<1> QED
  BY <1>3 DEF P

\* The positions of the parts of a type.
LEMMA OfTypePicked ==
    ASSUME NEW s, IsSeq(s), NEW t, NEW K, K = {i \in DOMAIN s : s[i].type = t}
    PROVE  \E pos : Picked(OfType(s, t), pos, Len(s), K, s)
<1>1. PICK n \in Nat : n = Len(s) /\ DOMAIN s = 1..n
  BY IsSeqFields
<1>2. OfType(s, t) = FlattenSeq(KeptRows(n, K, s))
  <2>1. KeptRows(n, K, s) = [i \in DOMAIN s |-> IF s[i].type = t THEN <<s[i]>> ELSE << >>]
    BY <1>1 DEF KeptRows
  <2> QED
    BY <2>1 DEF OfType
<1>3. \E pos : Picked(FlattenSeq(KeptRows(n, K, s)), pos, n, K, s)
  BY FlattenPicked
<1> QED
  BY <1>1, <1>2, <1>3, Zenon

-----------------------------------------------------------------------------
(***************************************************************************)
(* Calls and results that are paired.                                      *)
(***************************************************************************)
\* Position i of s has an element of type t.
At(s, i, t) == i \in DOMAIN s /\ s[i].type = t

\* Calls and results of a sequence of parts go in pairs.
Unique(s, t) == \A i, j : (At(s, i, t) /\ At(s, j, t) /\ i # j) => s[i].id # s[j].id
Answered(s, call, result) ==
    \A i : At(s, i, call) => \E j : At(s, j, result) /\ i < j /\ s[j].id = s[i].id
Outcomes(s, call, result) ==
    \A i, j : (At(s, i, call) /\ At(s, j, result) /\ s[j].id = s[i].id) =>
        /\ s[j].outcome = s[i].arguments
        /\ s[j].name \in {NoName, s[i].name}
Matched(s, call, result) ==
    \A j : At(s, j, result) => \E i : At(s, i, call) /\ s[j].id = s[i].id

\* The calls are those of C, each has its own place there, and none is left out.
CallsFrom(calls, C) == \A k \in DOMAIN calls : \E i : At(C, i, "tool_call") /\ calls[k] = C[i]
CallsListed(calls, C) == \A i : At(C, i, "tool_call") => \E k \in DOMAIN calls : calls[k] = C[i]
CallsApart(calls, C) ==
    \A i, j : (At(C, i, "tool_call") /\ At(C, j, "tool_call") /\ i # j) =>
       \E k \in DOMAIN calls : \E l \in DOMAIN calls :
          k # l /\ calls[k] = C[i] /\ calls[l] = C[j]

\* The calls and where they are.
LEMMA CallPlaces ==
    ASSUME NEW C, IsSeq(C), NEW calls, calls = OfType(C, "tool_call")
    PROVE  CallsFrom(calls, C) /\ CallsListed(calls, C) /\ CallsApart(calls, C)
<1>1. PICK K : K = {i \in DOMAIN C : C[i].type = "tool_call"}
  BY Zenon
<1>2. PICK pos : Picked(calls, pos, Len(C), K, C)
  BY <1>1, OfTypePicked, Zenon
<1>3. DOMAIN calls = 1..Len(calls)
  BY <1>2, IsSeqFields DEF Picked
<1>4. DOMAIN C = 1..Len(C)
  BY IsSeqFields
<1>5. \A i : At(C, i, "tool_call") <=> i \in K
  BY <1>1 DEF At
<1>6. \A k \in DOMAIN calls : pos[k] \in K /\ calls[k] = C[pos[k]]
  BY <1>2, <1>3 DEF Picked
<1>7. \A i \in K : \E k \in DOMAIN calls : pos[k] = i
  <2>1. \A i \in K : i \in 1..Len(C)
    BY <1>1, <1>4
  <2> QED
    BY <1>2, <1>3, <2>1 DEF Picked
<1>8. CallsFrom(calls, C)
  BY <1>5, <1>6 DEF CallsFrom
<1>9. CallsListed(calls, C)
  <2> SUFFICES ASSUME NEW i, i \in K PROVE \E k \in DOMAIN calls : calls[k] = C[i]
    BY <1>5 DEF CallsListed
  <2>1. PICK k \in DOMAIN calls : pos[k] = i
    BY <1>7
  <2> QED
    BY <1>6, <2>1
<1>10. CallsApart(calls, C)
  <2> SUFFICES ASSUME NEW i, NEW j, At(C, i, "tool_call"), At(C, j, "tool_call"), i # j
               PROVE  \E k \in DOMAIN calls : \E l \in DOMAIN calls :
                         k # l /\ calls[k] = C[i] /\ calls[l] = C[j]
    BY DEF CallsApart
  <2>1. i \in K /\ j \in K
    BY <1>5
  <2>2. PICK k \in DOMAIN calls : pos[k] = i
    BY <1>7, <2>1
  <2>3. PICK l \in DOMAIN calls : pos[l] = j
    BY <1>7, <2>1
  <2>4. k # l /\ calls[k] = C[i] /\ calls[l] = C[j]
    BY <1>6, <2>2, <2>3
  <2> QED
    BY <2>4
<1> QED
  BY <1>8, <1>9, <1>10

\* Valid content that tells of the calls pairs every call with its result.
LEMMA ContentPaired ==
    ASSUME NEW ms, Formed(ms), CallsUnique(ms), ResultsMatch(ms),
           NEW C, C = Contents(ms), NEW M, NEW im, Faithful(C, M, im)
    PROVE  /\ Unique(C, "tool_call") /\ Unique(C, "tool_result")
           /\ Answered(C, "tool_call", "tool_result")
           /\ Outcomes(C, "tool_call", "tool_result")
           /\ Matched(C, "tool_call", "tool_result")
<1>0. IsSeq(C)
  BY DEF Faithful
<1>00. PICK n \in Nat : n = Len(C) /\ DOMAIN C = 1..n
  BY <1>0, IsSeqFields
<1>1. PICK calls : calls = OfType(C, "tool_call")
  OBVIOUS
<1>1a. CallsFrom(calls, C) /\ CallsListed(calls, C) /\ CallsApart(calls, C)
  BY <1>0, <1>1, CallPlaces
<1>2. \A k, l \in DOMAIN calls : k # l => calls[k].id # calls[l].id
  BY <1>1 DEF CallsUnique
<1>3. Unique(C, "tool_call")
  <2> SUFFICES ASSUME NEW i, NEW j, At(C, i, "tool_call"), At(C, j, "tool_call"), i # j
               PROVE  C[i].id # C[j].id
    BY DEF Unique
  <2>1. PICK k \in DOMAIN calls, l \in DOMAIN calls :
           k # l /\ calls[k] = C[i] /\ calls[l] = C[j]
    BY <1>1a, Zenon DEF CallsApart
  <2> QED
    BY <1>2, <2>1
<1>4. ASSUME NEW j, At(C, j, "tool_result")
      PROVE  /\ \E i \in 1..(j - 1) : /\ C[i].type = "tool_call" /\ C[i].id = C[j].id
                                      /\ C[j].name \in {NoName, C[i].name}
             /\ \A k \in 1..(j - 1) : C[k].type = "tool_result" => C[k].id # C[j].id
  BY <1>4 DEF ResultsMatch, At
<1>5. ASSUME NEW j, At(C, j, "tool_result")
      PROVE  \E i : /\ At(C, i, "tool_call") /\ i < j /\ C[i].id = C[j].id
                    /\ C[j].name \in {NoName, C[i].name}
  <2>1. PICK i \in 1..(j - 1) : /\ C[i].type = "tool_call" /\ C[i].id = C[j].id
                                /\ C[j].name \in {NoName, C[i].name}
    BY <1>4, <1>5
  <2>2. j \in 1..n
    BY <1>00, <1>5 DEF At
  <2>3. i \in DOMAIN C /\ i < j
    BY <1>00, <2>1, <2>2
  <2>4. At(C, i, "tool_call")
    BY <2>1, <2>3 DEF At
  <2> QED
    BY <2>1, <2>3, <2>4
<1>6. Unique(C, "tool_result")
  <2>1. ASSUME NEW i, NEW j, At(C, i, "tool_result"), At(C, j, "tool_result"), i < j
        PROVE  C[i].id # C[j].id
    <3>1. i \in 1..n /\ j \in 1..n
      BY <1>00, <2>1 DEF At
    <3>2. i \in 1..(j - 1)
      BY <2>1, <3>1
    <3> QED
      BY <1>4, <2>1, <3>2 DEF At
  <2> SUFFICES ASSUME NEW i, NEW j, At(C, i, "tool_result"), At(C, j, "tool_result"), i # j
               PROVE  C[i].id # C[j].id
    BY DEF Unique
  <2>2. i \in 1..n /\ j \in 1..n
    BY <1>00 DEF At
  <2>3. i < j \/ j < i
    BY <2>2
  <2> QED
    BY <2>1, <2>3
<1>7. Matched(C, "tool_call", "tool_result")
  BY <1>5 DEF Matched
<1>8. /\ SameCalls(calls, M) /\ AllAnswered(ToSet(C), calls, M)
  BY <1>1 DEF Faithful
<1>9. PICK m \in Nat : m = Len(M) /\ DOMAIN calls = 1..m
  BY <1>8, IsSeqFields DEF SameCalls
<1>10. Answered(C, "tool_call", "tool_result")
  <2> SUFFICES ASSUME NEW i, At(C, i, "tool_call")
               PROVE  \E j : At(C, j, "tool_result") /\ i < j /\ C[j].id = C[i].id
    BY DEF Answered
  <2>1. PICK k \in DOMAIN calls : calls[k] = C[i]
    BY <1>1a, Zenon DEF CallsListed
  <2>2. PICK x \in ToSet(C) : x.type = "tool_result" /\ x.id = calls[k].id
    BY <1>8, <1>9 DEF AllAnswered
  <2>3. PICK j \in DOMAIN C : x = C[j]
    BY <2>2 DEF ToSet
  <2>4. At(C, j, "tool_result") /\ C[j].id = C[i].id
    BY <2>1, <2>2, <2>3 DEF At
  <2>5. PICK a : At(C, a, "tool_call") /\ a < j /\ C[a].id = C[j].id
    BY <1>5, <2>4
  <2>6. a = i
    BY <1>3, <2>4, <2>5 DEF Unique
  <2> QED
    BY <2>4, <2>5, <2>6
<1>11. Outcomes(C, "tool_call", "tool_result")
  <2> SUFFICES ASSUME NEW i, NEW j, At(C, i, "tool_call"), At(C, j, "tool_result"),
                      C[j].id = C[i].id
               PROVE  C[j].outcome = C[i].arguments /\ C[j].name \in {NoName, C[i].name}
    BY DEF Outcomes
  <2>1. PICK a : At(C, a, "tool_call") /\ C[a].id = C[j].id /\ C[j].name \in {NoName, C[a].name}
    BY <1>5
  <2>2. a = i
    BY <1>3, <2>1 DEF Unique
  <2>3. PICK x : x = C[j]
    OBVIOUS
  <2>4. x \in ToSet(C) /\ x.type = "tool_result"
    BY <2>3 DEF At, ToSet
  <2>5. IsAnswered(x, calls, M)
    BY <1>8, <2>4 DEF AllAnswered
  <2>6. PICK k \in 1..m : Answers(x, calls[k], M[k])
    BY <1>9, <2>5 DEF IsAnswered
  <2>7. x.id = calls[k].id /\ x.outcome = M[k].arguments /\ calls[k].arguments = M[k].arguments
    BY <1>8, <1>9, <2>6 DEF Answers, SameCalls
  <2>8. PICK b : At(C, b, "tool_call") /\ calls[k] = C[b]
    BY <1>1a, <1>9 DEF CallsFrom
  <2>9. b = i
    BY <1>3, <2>3, <2>7, <2>8, Zenon DEF Unique
  <2> QED
    BY <2>1, <2>2, <2>3, <2>7, <2>8, <2>9
<1> QED
  BY <1>3, <1>6, <1>7, <1>10, <1>11

\* What a provider sees of the parts C, and where each part it sees comes from.
SeesOne(x, C, i, p, model) ==
    \/ /\ At(C, i, "tool_call") /\ x.type = "call"
       /\ x.id = C[i].id /\ x.name = C[i].name /\ x.arguments = C[i].arguments
    \/ /\ At(C, i, "tool_result") /\ x.type = "result"
       /\ x.id = C[i].id /\ x.name \in {NoName, C[i].name} /\ x.outcome = C[i].outcome
       /\ x = ResultView(p, C[i])
Sees(P, C, pos, p, model) ==
    /\ IsSeq(P)
    /\ \A j \in DOMAIN P : SeesOne(P[j], C, pos[j], p, model)
    /\ \A i, j \in DOMAIN P : i < j => pos[i] < pos[j]
    /\ \A k : (At(C, k, "tool_call") \/ At(C, k, "tool_result")) => \E j \in DOMAIN P : pos[j] = k

\* What is seen keeps ID, arguments and outcome; the name may be missing.
LEMMA ViewFields ==
    ASSUME NEW p, NEW model, NEW x
    PROVE  /\ CallView(p, model, x).type = "call" /\ CallView(p, model, x).id = x.id
           /\ CallView(p, model, x).name = x.name
           /\ CallView(p, model, x).arguments = x.arguments
           /\ ResultView(p, x).type = "result" /\ ResultView(p, x).id = x.id
           /\ ResultView(p, x).name \in {NoName, x.name}
           /\ ResultView(p, x).outcome = x.outcome
<1>1. PICK signature : CallView(p, model, x) = SeenCall(x.id, x.name, x.arguments, signature)
  BY DEF CallView
<1>2. PICK name, isError : /\ ResultView(p, x) = SeenResult(x.id, name, x.outcome, isError)
                           /\ name \in {NoName, x.name}
  <2>1. PICK name : name = IF p = "gemini" THEN x.name ELSE NoName
    OBVIOUS
  <2>2. PICK isError : isError = CASE p = "anthropic" -> x.isError
                                   [] p = "gemini" -> x.form = "text" /\ x.isError
                                   [] OTHER -> FALSE
    BY Zenon
  <2>3. ResultView(p, x) = SeenResult(x.id, name, x.outcome, isError)
    BY <2>1, <2>2, Zenon DEF ResultView
  <2>4. name \in {NoName, x.name}
    BY <2>1
  <2> QED
    BY <2>3, <2>4
<1>3. /\ SeenCall(x.id, x.name, x.arguments, signature).type = "call"
      /\ SeenCall(x.id, x.name, x.arguments, signature).id = x.id
      /\ SeenCall(x.id, x.name, x.arguments, signature).name = x.name
      /\ SeenCall(x.id, x.name, x.arguments, signature).arguments = x.arguments
  BY DEF SeenCall
<1>4. /\ SeenResult(x.id, name, x.outcome, isError).type = "result"
      /\ SeenResult(x.id, name, x.outcome, isError).id = x.id
      /\ SeenResult(x.id, name, x.outcome, isError).name = name
      /\ SeenResult(x.id, name, x.outcome, isError).outcome = x.outcome
  BY DEF SeenResult
<1> QED
  BY <1>1, <1>2, <1>3, <1>4

\* A provider sees every call and every result, in their order.
LEMMA SeenPlaces ==
    ASSUME NEW C, IsSeq(C), NEW p, NEW model,
           NEW P, P = FlatMap(View(p, model, ToSet(C)), C)
    PROVE  \E pos : Sees(P, C, pos, p, model)
<1>1. PICK n \in Nat : n = Len(C) /\ DOMAIN C = 1..n
  BY IsSeqFields
<1>2. PICK K : K = {i \in DOMAIN C : C[i].type \in {"tool_call", "tool_result"}}
  BY Zenon
<1>3. PICK v : v = [i \in DOMAIN C |-> IF C[i].type = "tool_call" THEN CallView(p, model, C[i])
                                       ELSE ResultView(p, C[i])]
  BY Zenon
<1>4. P = FlattenSeq(KeptRows(n, K, v))
  <2>1. \A i \in DOMAIN C : View(p, model, ToSet(C))[C[i]] = PartView(p, model, C[i])
    BY ViewSpreads, Zenon
  <2>2. \A i \in DOMAIN C : PartView(p, model, C[i]) = IF i \in K THEN <<v[i]>> ELSE << >>
    BY <1>2, <1>3 DEF PartView
  <2>3. PICK g : g = View(p, model, ToSet(C))
    OBVIOUS
  <2>4. [i \in DOMAIN C |-> g[C[i]]] = KeptRows(n, K, v)
    BY <1>1, <2>1, <2>2, <2>3 DEF KeptRows
  <2> QED
    BY <2>3, <2>4 DEF FlatMap
<1>5. PICK pos : Picked(P, pos, n, K, v)
  BY <1>4, FlattenPicked
<1>6. IsSeq(P) /\ DOMAIN P = 1..Len(P)
  BY <1>5, IsSeqFields DEF Picked
<1>7. ASSUME NEW j \in DOMAIN P PROVE SeesOne(P[j], C, pos[j], p, model)
  <2>1. PICK i : i = pos[j]
    OBVIOUS
  <2>2. i \in K /\ P[j] = v[i]
    BY <1>5, <1>6, <2>1 DEF Picked
  <2>3. i \in DOMAIN C /\ C[i].type \in {"tool_call", "tool_result"}
    BY <1>2, <2>2
  <2>4. PICK x, c : x = P[j] /\ c = C[i]
    OBVIOUS
  <2>5. CASE C[i].type = "tool_call"
    <3>1. x = CallView(p, model, c)
      BY <1>3, <2>2, <2>3, <2>4, <2>5
    <3>2. x.type = "call" /\ x.id = c.id /\ x.name = c.name /\ x.arguments = c.arguments
      BY <3>1, ViewFields
    <3> QED
      BY <2>1, <2>3, <2>4, <2>5, <3>2 DEF SeesOne, At
  <2>6. CASE C[i].type = "tool_result"
    <3>1. x = ResultView(p, c)
      BY <1>3, <2>2, <2>3, <2>4, <2>6
    <3>2. /\ x.type = "result" /\ x.id = c.id /\ x.name \in {NoName, c.name}
          /\ x.outcome = c.outcome
      BY <3>1, ViewFields
    <3> QED
      BY <2>1, <2>3, <2>4, <2>6, <3>1, <3>2 DEF SeesOne, At
  <2> QED
    BY <2>3, <2>5, <2>6
<1>8. \A i, j \in DOMAIN P : i < j => pos[i] < pos[j]
  BY <1>5, <1>6 DEF Picked
<1>9. ASSUME NEW k, At(C, k, "tool_call") \/ At(C, k, "tool_result")
      PROVE  \E j \in DOMAIN P : pos[j] = k
  <2>1. k \in 1..n /\ k \in K
    BY <1>1, <1>2, <1>9 DEF At
  <2> QED
    BY <1>5, <1>6, <2>1 DEF Picked
<1>10. Sees(P, C, pos, p, model)
  BY <1>6, <1>7, <1>8, <1>9 DEF Sees
<1> QED
  BY <1>10

\* So it sees them paired.
LEMMA SeenPaired ==
    ASSUME NEW C, IsSeq(C), NEW P, NEW pos, NEW p, NEW model, Sees(P, C, pos, p, model),
           Unique(C, "tool_call"), Unique(C, "tool_result"),
           Answered(C, "tool_call", "tool_result"), Outcomes(C, "tool_call", "tool_result"),
           Matched(C, "tool_call", "tool_result")
    PROVE  /\ Unique(P, "call") /\ Unique(P, "result")
           /\ Answered(P, "call", "result") /\ Outcomes(P, "call", "result")
           /\ Matched(P, "call", "result")
<1>1. PICK n \in Nat : n = Len(P) /\ DOMAIN P = 1..n
  BY IsSeqFields DEF Sees
<1>2. ASSUME NEW j, At(P, j, "call")
      PROVE  /\ j \in DOMAIN P /\ At(C, pos[j], "tool_call") /\ P[j].id = C[pos[j]].id
             /\ P[j].name = C[pos[j]].name /\ P[j].arguments = C[pos[j]].arguments
  <2>1. j \in DOMAIN P /\ P[j].type = "call"
    BY <1>2 DEF At
  <2>2. SeesOne(P[j], C, pos[j], p, model)
    BY <2>1 DEF Sees
  <2> QED
    BY <2>1, <2>2 DEF SeesOne
<1>3. ASSUME NEW j, At(P, j, "result")
      PROVE  /\ j \in DOMAIN P /\ At(C, pos[j], "tool_result") /\ P[j].id = C[pos[j]].id
             /\ P[j].name \in {NoName, C[pos[j]].name} /\ P[j].outcome = C[pos[j]].outcome
  <2>1. j \in DOMAIN P /\ P[j].type = "result"
    BY <1>3 DEF At
  <2>2. SeesOne(P[j], C, pos[j], p, model)
    BY <2>1 DEF Sees
  <2> QED
    BY <2>1, <2>2 DEF SeesOne
<1>4. ASSUME NEW i \in DOMAIN P, NEW j \in DOMAIN P, i # j PROVE pos[i] # pos[j]
  <2>1. i < j \/ j < i
    BY <1>1, <1>4
  <2>2. SeesOne(P[i], C, pos[i], p, model) /\ SeesOne(P[j], C, pos[j], p, model)
    BY DEF Sees
  <2>3. pos[i] \in DOMAIN C /\ pos[j] \in DOMAIN C
    BY <2>2 DEF SeesOne, At
  <2>4. pos[i] \in Int /\ pos[j] \in Int
    BY <2>3, IsSeqFields
  <2>5. pos[i] < pos[j] \/ pos[j] < pos[i]
    BY <2>1 DEF Sees
  <2> QED
    BY <2>4, <2>5
<1>5. Unique(P, "call")
  BY <1>2, <1>4 DEF Unique
<1>6. Unique(P, "result")
  BY <1>3, <1>4 DEF Unique
<1>7. ASSUME NEW k, At(C, k, "tool_call") PROVE \E j : At(P, j, "call") /\ pos[j] = k
  <2>1. PICK j \in DOMAIN P : pos[j] = k
    BY <1>7 DEF Sees
  <2>2. SeesOne(P[j], C, k, p, model)
    BY <2>1 DEF Sees
  <2>3. P[j].type = "call"
    BY <1>7, <2>2 DEF SeesOne, At
  <2> QED
    BY <2>1, <2>3 DEF At
<1>8. ASSUME NEW k, At(C, k, "tool_result") PROVE \E j : At(P, j, "result") /\ pos[j] = k
  <2>1. PICK j \in DOMAIN P : pos[j] = k
    BY <1>8 DEF Sees
  <2>2. SeesOne(P[j], C, k, p, model)
    BY <2>1 DEF Sees
  <2>3. P[j].type = "result"
    BY <1>8, <2>2 DEF SeesOne, At
  <2> QED
    BY <2>1, <2>3 DEF At
<1>9. Answered(P, "call", "result")
  <2> SUFFICES ASSUME NEW i, At(P, i, "call")
               PROVE  \E j : At(P, j, "result") /\ i < j /\ P[j].id = P[i].id
    BY DEF Answered
  <2>1. i \in DOMAIN P /\ At(C, pos[i], "tool_call") /\ P[i].id = C[pos[i]].id
    BY <1>2
  <2>2. PICK k : At(C, k, "tool_result") /\ pos[i] < k /\ C[k].id = C[pos[i]].id
    BY <2>1 DEF Answered
  <2>3. PICK j : At(P, j, "result") /\ pos[j] = k
    BY <1>8, <2>2
  <2>4. j \in DOMAIN P /\ P[j].id = C[k].id
    BY <1>3, <2>3
  <2>5. i < j
    <3>1. i \in 1..n /\ j \in 1..n
      BY <1>1, <2>1, <2>4
    <3>2. k \in Int /\ pos[i] \in Int
      BY <2>1, <2>2, IsSeqFields DEF At
    <3>3. i # j
      BY <2>2, <2>3, <3>2
    <3>4. ~(j < i)
      <4>1. j < i => k < pos[i]
        BY <2>1, <2>3, <2>4 DEF Sees
      <4> QED
        BY <2>2, <3>2, <4>1
    <3> QED
      BY <3>1, <3>3, <3>4
  <2> QED
    BY <2>1, <2>2, <2>3, <2>4, <2>5
<1>10. Outcomes(P, "call", "result")
  <2> SUFFICES ASSUME NEW i, NEW j, At(P, i, "call"), At(P, j, "result"), P[j].id = P[i].id
               PROVE  P[j].outcome = P[i].arguments /\ P[j].name \in {NoName, P[i].name}
    BY DEF Outcomes
  <2>1. /\ At(C, pos[i], "tool_call") /\ P[i].id = C[pos[i]].id
        /\ P[i].name = C[pos[i]].name /\ P[i].arguments = C[pos[i]].arguments
    BY <1>2
  <2>2. /\ At(C, pos[j], "tool_result") /\ P[j].id = C[pos[j]].id
        /\ P[j].name \in {NoName, C[pos[j]].name} /\ P[j].outcome = C[pos[j]].outcome
    BY <1>3
  <2>3. /\ C[pos[j]].outcome = C[pos[i]].arguments
        /\ C[pos[j]].name \in {NoName, C[pos[i]].name}
    BY <2>1, <2>2 DEF Outcomes
  <2> QED
    BY <2>1, <2>2, <2>3
<1>11. Matched(P, "call", "result")
  <2> SUFFICES ASSUME NEW j, At(P, j, "result") PROVE \E i : At(P, i, "call") /\ P[j].id = P[i].id
    BY DEF Matched
  <2>1. At(C, pos[j], "tool_result") /\ P[j].id = C[pos[j]].id
    BY <1>3
  <2>2. PICK k : At(C, k, "tool_call") /\ C[pos[j]].id = C[k].id
    BY <2>1 DEF Matched
  <2>3. PICK i : At(P, i, "call") /\ pos[i] = k
    BY <1>7, <2>2
  <2>4. P[i].id = C[k].id
    BY <1>2, <2>3
  <2> QED
    BY <2>1, <2>2, <2>3, <2>4
<1> QED
  BY <1>5, <1>6, <1>9, <1>10, <1>11

\* Calls and results that are paired are equally many.
LEMMA SameNumber ==
    ASSUME NEW P, IsSeq(P), Unique(P, "call"), Unique(P, "result"),
           Answered(P, "call", "result"), Matched(P, "call", "result"),
           NEW K, K = {i \in DOMAIN P : P[i].type = "call"},
           NEW R, R = {j \in DOMAIN P : P[j].type = "result"}
    PROVE  Cardinality(R) = Cardinality(K)
<1>1. \A i : (i \in K <=> At(P, i, "call")) /\ (i \in R <=> At(P, i, "result"))
  BY DEF At
<1>2. PICK f : f = [i \in K |-> CHOOSE j \in R : P[j].id = P[i].id]
  BY Zenon
<1>3. ASSUME NEW i \in K PROVE f[i] \in R /\ P[f[i]].id = P[i].id
  <2>1. \E j \in R : P[j].id = P[i].id
    BY <1>1 DEF Answered
  <2> QED
    BY <1>2, <2>1
<1>4. f \in [K -> R]
  BY <1>2, <1>3
<1>5. \A i, j \in K : f[i] = f[j] => i = j
  BY <1>1, <1>3 DEF Unique
<1>6. ASSUME NEW j \in R PROVE \E i \in K : f[i] = j
  <2>1. PICK i : i \in K /\ P[j].id = P[i].id
    BY <1>1 DEF Matched
  <2>2. f[i] \in R /\ P[f[i]].id = P[j].id
    BY <1>3, <2>1
  <2>3. f[i] = j
    BY <1>1, <2>2 DEF Unique
  <2> QED
    BY <2>1, <2>3
<1>7. f \in Bijection(K, R)
  BY <1>4, <1>5, <1>6 DEF Bijection, Injection, Surjection, IsInjective
<1>8. IsFiniteSet(K)
  <2>1. PICK n \in Nat : n = Len(P) /\ DOMAIN P = 1..n
    BY IsSeqFields
  <2>2. IsFiniteSet(1..n)
    BY FS_Interval
  <2> QED
    BY <2>1, <2>2, FS_Subset
<1>9. ExistsBijection(K, R)
  BY <1>7 DEF ExistsBijection
<1> QED
  BY <1>8, <1>9, FS_Bijection

-----------------------------------------------------------------------------
(***************************************************************************)
(* What the invariant says of a request before a provider.                 *)
(***************************************************************************)
\* The calls that a provider sees.
LEMMA ViewedCalls ==
    ASSUME NEW C, IsSeq(C), NEW p, NEW model,
           NEW P, P = FlatMap(View(p, model, ToSet(C)), C),
           NEW calls, calls = OfType(C, "tool_call")
    PROVE  OfType(P, "call") = [k \in DOMAIN calls |-> CallView(p, model, calls[k])]
<1>1. PICK n \in Nat : n = Len(C) /\ DOMAIN C = 1..n
  BY IsSeqFields
<1>2. PICK g : g = View(p, model, ToSet(C))
  OBVIOUS
<1>3. \A i \in DOMAIN C : g[C[i]] = PartView(p, model, C[i]) /\ IsSeq(g[C[i]])
  BY <1>2, ViewSpreads DEF Spreads
<1>4. PICK rows : rows = [i \in 1..n |-> g[C[i]]]
  BY Zenon
<1>5. AreRows(rows, n) /\ P = FlattenSeq(rows)
  BY <1>1, <1>2, <1>3, <1>4 DEF AreRows, FlatMap
<1>6. OfType(P, "call") = FlattenSeq([i \in 1..n |-> OfType(rows[i], "call")])
  BY <1>5, OfTypeFlatten
<1>7. PICK e, h : /\ e = [x \in ToSet(C) |-> CallView(p, model, x)]
                  /\ h = [x \in ToSet(C) |-> IF x.type = "tool_call"
                                             THEN <<CallView(p, model, x)>> ELSE << >>]
  BY Zenon
<1>8. \A i \in DOMAIN C : C[i] \in ToSet(C)
  BY DEF ToSet
<1>9. ASSUME NEW i \in 1..n PROVE OfType(rows[i], "call") = h[C[i]]
  <2>1. PICK x : x = C[i]
    OBVIOUS
  <2>2. x \in ToSet(C) /\ rows[i] = PartView(p, model, x)
    BY <1>1, <1>3, <1>4, <1>8, <2>1
  <2>3. PICK c, r : c = CallView(p, model, x) /\ r = ResultView(p, x)
    OBVIOUS
  <2>4. c.type = "call" /\ r.type = "result"
    BY <2>3, ViewFields
  <2>5. OfType(<<c>>, "call") = <<c>> /\ OfType(<<r>>, "call") = << >> /\ OfType(<< >>, "call") = << >>
    <3>1. OfType(<<c>>, "call") = <<c>>
      BY <2>4, OfTypeOne
    <3>2. r.type # "call"
      BY <2>4
    <3>3. OfType(<<r>>, "call") = << >>
      BY <3>2, OfTypeOne
    <3> QED
      BY <3>1, <3>3, OfTypeZero
  <2>6. h[x] = IF x.type = "tool_call" THEN <<c>> ELSE << >>
    BY <1>7, <2>2, <2>3
  <2>7. rows[i] = IF x.type = "tool_call" THEN <<c>>
                  ELSE IF x.type = "tool_result" THEN <<r>> ELSE << >>
    BY <2>2, <2>3 DEF PartView
  <2> QED
    BY <2>1, <2>5, <2>6, <2>7
<1>10. [i \in 1..n |-> OfType(rows[i], "call")] = [i \in DOMAIN C |-> h[C[i]]]
  BY <1>1, <1>9
<1>11. OfType(P, "call") = FlatMap(h, C)
  BY <1>6, <1>10 DEF FlatMap
<1>12. ForEach(h, e, C, "tool_call")
  BY <1>7, <1>8 DEF ForEach
<1>13. FlatMap(h, C) = [j \in DOMAIN calls |-> e[calls[j]]]
  BY <1>12, FlatMapOfType
<1>14. \A j \in DOMAIN calls : calls[j] \in ToSet(C)
  BY <1>8, OfTypeMembers
<1> QED
  BY <1>7, <1>11, <1>13, <1>14, Zenon

\* What the invariant says of a request before a provider.
LEMMA AtProvider ==
    ASSUME Keeping, pc = "provider"
    PROVE  LET C == Contents(asked.messages)
               P == FlatMap(View(route.protocol, route.model, ToSet(C)), C)
           IN  /\ Formed(asked.messages) /\ RequestValid(asked)
               /\ Faithful(C, made, PromptImages(wants)) /\ IsSeq(C)
               /\ Seen.parts = P
               /\ Seen.system
               /\ route.protocol # "gemini" => Seen.images = PromptImages(wants)
               /\ route.protocol = "gemini" =>
                     /\ Seen.images = [k \in DOMAIN PromptImages(wants) |-> Image("inline")]
                     /\ \A part \in ToSet(C) : Content!Representable(part)
               /\ route.protocol = "responses" =>
                     \A part \in ToSet(C) : part.type = "tool_result" => ~part.isError
<1>1. SaysAll(asked, route.model, made, PromptImages(wants))
  BY DEF Keeping
<1>2. Shows(route.protocol, asked, Seen)
  BY DEF Keeping, Seen, SeenBy
<1>3. /\ Formed(asked.messages) /\ RequestValid(asked) /\ asked.model = route.model
      /\ asked.messages[1].role = "system"
      /\ Faithful(Contents(asked.messages), made, PromptImages(wants))
  BY <1>1 DEF SaysAll
<1>4. /\ IsSeq(Contents(asked.messages))
      /\ OfType(Contents(asked.messages), "image") = PromptImages(wants)
  BY <1>3 DEF Faithful
<1> QED
  BY <1>2, <1>3, <1>4 DEF Shows

(***************************************************************************)
(* The system prompt and the images of the client reach the provider.      *)
(***************************************************************************)
LEMMA PromptThere == Carried /\ Keeping => PromptKept
<1> SUFFICES ASSUME Carried, Keeping, pc = "provider"
             PROVE  Seen.system /\ Seen.images = PromptImages(wants)
  BY Zenon DEF PromptKept, PromptImages
<1>1. Seen.system
  BY AtProvider
<1>2. CASE route.protocol # "gemini"
  BY <1>1, <1>2, AtProvider
<1>3. CASE route.protocol = "gemini"
  <2>1. PICK C : C = Contents(asked.messages)
    OBVIOUS
  <2>2. /\ Seen.images = [k \in DOMAIN PromptImages(wants) |-> Image("inline")]
        /\ \A part \in ToSet(C) : Content!Representable(part)
        /\ Faithful(C, made, PromptImages(wants))
    BY <1>3, <2>1, AtProvider
  <2>3. CASE wants.image = "-"
    <3>1. PromptImages(wants) = << >>
      BY <2>3 DEF PromptImages
    <3>2. [k \in DOMAIN << >> |-> Image("inline")] = << >>
      OBVIOUS
    <3> QED
      BY <1>1, <2>2, <3>1, <3>2
  <2>4. CASE wants.image # "-"
    <3>1. PICK x : x = Image(wants.image)
      OBVIOUS
    <3>2. PromptImages(wants) = <<x>>
      BY <2>4, <3>1 DEF PromptImages
    <3>3. IsSeq(C) /\ OfType(C, "image") = <<x>>
      BY <2>2, <3>2 DEF Faithful
    <3>4. PICK im : im = OfType(C, "image")
      OBVIOUS
    <3>5. 1 \in DOMAIN im /\ im[1] = x
      BY <3>3, <3>4
    <3>6. PICK i \in DOMAIN C : x = C[i] /\ C[i].type = "image"
      BY <3>3, <3>4, <3>5, OfTypeMembers
    <3>7. x \in ToSet(C)
      BY <3>6 DEF ToSet
    <3>8. x.source = "inline"
      BY <2>2, <3>6, <3>7 DEF Content!Representable
    <3>9. x.source = wants.image
      BY <3>1 DEF Image
    <3>10. x = Image("inline")
      BY <3>1, <3>8, <3>9
    <3>11. [k \in DOMAIN <<x>> |-> x] = <<x>>
      OBVIOUS
    <3> QED
      BY <1>1, <2>2, <3>2, <3>10, <3>11
  <2> QED
    BY <2>3, <2>4
<1> QED
  BY <1>2, <1>3

(***************************************************************************)
(* Gemini 3 never sees a call without a signature.                         *)
(***************************************************************************)
LEMMA SignedThere == Keeping => CallsSigned
<1> SUFFICES ASSUME Keeping, pc = "provider", route.protocol = "gemini"
             PROVE  CallsSigned
  BY DEF CallsSigned
<1>1. PICK C, P, model : /\ C = Contents(asked.messages) /\ model = route.model
                         /\ P = FlatMap(View("gemini", model, ToSet(C)), C)
  OBVIOUS
<1>2. Seen.parts = P /\ IsSeq(C) /\ Faithful(C, made, PromptImages(wants))
  BY <1>1, AtProvider
<1>3. PICK calls : calls = OfType(C, "tool_call")
  OBVIOUS
<1>4. PICK seen : seen = OfType(P, "call")
  OBVIOUS
<1>5. seen = [k \in DOMAIN calls |-> CallView("gemini", model, calls[k])]
  BY <1>1, <1>2, <1>3, <1>4, ViewedCalls
<1>6. SameCalls(calls, made)
  BY <1>2, <1>3 DEF Faithful
<1>7. \A k \in DOMAIN calls : calls[k].signature = made[k].signature
  BY <1>6, IsSeqFields DEF SameCalls
<1>8. \A x : CallView("gemini", model, x).signature =
                IF x.signature = NoSignature /\ model = Content!Gemini3
                THEN Content!SkipThoughtSignatureValidator ELSE x.signature
  BY DEF CallView, SeenCall
<1>9. Content!SkipThoughtSignatureValidator # NoSignature
  BY DEF Content!SkipThoughtSignatureValidator, NoSignature
<1>10. \A k \in DOMAIN seen :
          /\ model = Content!Gemini3 => seen[k].signature # NoSignature
          /\ made[k].signature # NoSignature => seen[k].signature = made[k].signature
  <2> SUFFICES ASSUME NEW k \in DOMAIN seen
               PROVE  /\ model = Content!Gemini3 => seen[k].signature # NoSignature
                      /\ made[k].signature # NoSignature => seen[k].signature = made[k].signature
    OBVIOUS
  <2>1. PICK x : x = calls[k]
    OBVIOUS
  <2>2. seen[k] = CallView("gemini", model, x) /\ x.signature = made[k].signature
    BY <1>5, <1>7, <2>1
  <2>3. seen[k].signature = IF x.signature = NoSignature /\ model = Content!Gemini3
                            THEN Content!SkipThoughtSignatureValidator ELSE x.signature
    BY <1>8, <2>2
  <2> QED
    BY <1>9, <2>2, <2>3
<1>11. OfType(Seen.parts, "call") = seen
  BY <1>2, <1>4
<1> QED
  BY <1>1, <1>10, <1>11 DEF CallsSigned

(***************************************************************************)
(* The provider sees every call once, in order, with its result.           *)
(***************************************************************************)
PairedIn(parts, K, R, calls, M) ==
    /\ [k \in DOMAIN calls |-> <<calls[k].name, calls[k].arguments>>]
           = [k \in DOMAIN M |-> <<M[k].name, M[k].arguments>>]
    /\ \A i, j \in K : i # j => parts[i].id # parts[j].id
    /\ \A i \in K :
          /\ \E j \in R : j > i /\ parts[j].id = parts[i].id
          /\ \A j \in R : parts[j].id = parts[i].id =>
                /\ parts[j].outcome = parts[i].arguments
                /\ parts[j].name \in {NoName, parts[i].name}
    /\ Cardinality(R) = Cardinality(K)

\* Before a provider, calls and results are paired.
LEMMA PairedThere == Keeping => ResultsPaired
<1> SUFFICES ASSUME Keeping, pc = "provider" PROVE ResultsPaired
  BY DEF ResultsPaired
<1>1. PICK ms, C, P, p, model : /\ ms = asked.messages /\ C = Contents(ms)
                                /\ p = route.protocol /\ model = route.model
                                /\ P = FlatMap(View(p, model, ToSet(C)), C)
  OBVIOUS
<1>2. /\ Seen.parts = P /\ IsSeq(C) /\ Faithful(C, made, PromptImages(wants))
      /\ Formed(ms) /\ RequestValid(asked)
  BY <1>1, AtProvider
<1>3. CallsUnique(ms) /\ ResultsMatch(ms)
  BY <1>1, <1>2 DEF RequestValid
<1>4. /\ Unique(C, "tool_call") /\ Unique(C, "tool_result")
      /\ Answered(C, "tool_call", "tool_result")
      /\ Outcomes(C, "tool_call", "tool_result")
      /\ Matched(C, "tool_call", "tool_result")
  BY <1>1, <1>2, <1>3, ContentPaired
<1>5. PICK pos : Sees(P, C, pos, p, model)
  BY <1>1, <1>2, SeenPlaces
<1>6. /\ Unique(P, "call") /\ Unique(P, "result")
      /\ Answered(P, "call", "result") /\ Outcomes(P, "call", "result")
      /\ Matched(P, "call", "result")
  BY <1>2, <1>4, <1>5, SeenPaired
<1>7. IsSeq(P) /\ \A j \in DOMAIN P : P[j].type \in {"call", "result"}
  BY <1>5 DEF Sees, SeesOne
<1>8. PICK K, R : K = {i \in DOMAIN P : P[i].type = "call"} /\ R = DOMAIN P \ K
  BY Zenon
<1>9. R = {j \in DOMAIN P : P[j].type = "result"}
  BY <1>7, <1>8
<1>10. Cardinality(R) = Cardinality(K)
  BY <1>6, <1>7, <1>8, <1>9, SameNumber
<1>11. PICK calls, seen : calls = OfType(C, "tool_call") /\ seen = OfType(P, "call")
  OBVIOUS
<1>12. seen = [k \in DOMAIN calls |-> CallView(p, model, calls[k])]
  BY <1>1, <1>2, <1>11, ViewedCalls
<1>13. SameCalls(calls, made)
  BY <1>2, <1>11 DEF Faithful
<1>14. /\ DOMAIN calls = DOMAIN made
       /\ \A k \in DOMAIN made : /\ calls[k].name = made[k].name
                                 /\ calls[k].arguments = made[k].arguments
  BY <1>13, IsSeqFields DEF SameCalls
<1>15. [k \in DOMAIN seen |-> <<seen[k].name, seen[k].arguments>>]
          = [k \in DOMAIN made |-> <<made[k].name, made[k].arguments>>]
  <2>1. DOMAIN seen = DOMAIN made
    BY <1>12, <1>14
  <2>2. \A k \in DOMAIN made : seen[k].name = made[k].name /\ seen[k].arguments = made[k].arguments
    BY <1>12, <1>14, ViewFields
  <2> QED
    BY <2>1, <2>2
<1>16. \A i : (i \in K <=> At(P, i, "call")) /\ (i \in R <=> At(P, i, "result"))
  BY <1>8, <1>9 DEF At
<1>17. \A i, j \in K : i # j => P[i].id # P[j].id
  BY <1>6, <1>16 DEF Unique
<1>18. \A i \in K : \E j \in R : j > i /\ P[j].id = P[i].id
  <2> SUFFICES ASSUME NEW i \in K PROVE \E j \in R : j > i /\ P[j].id = P[i].id
    OBVIOUS
  <2>1. PICK j : At(P, j, "result") /\ i < j /\ P[j].id = P[i].id
    BY <1>6, <1>16 DEF Answered
  <2>2. i \in Int /\ j \in Int
    BY <1>7, <1>8, <2>1, IsSeqFields DEF At
  <2>3. j \in R /\ j > i
    BY <1>16, <2>1, <2>2
  <2> QED
    BY <2>1, <2>3
<1>19. \A i \in K : \A j \in R : P[j].id = P[i].id =>
          P[j].outcome = P[i].arguments /\ P[j].name \in {NoName, P[i].name}
  BY <1>6, <1>16 DEF Outcomes
<1>20. PairedIn(P, K, R, seen, made)
  BY <1>10, <1>15, <1>17, <1>18, <1>19, Zenon DEF PairedIn
<1>21. PICK Q : Q = Seen.parts
  OBVIOUS
<1>22. K = {i \in DOMAIN Q : Q[i].type = "call"} /\ R = DOMAIN Q \ K /\ seen = OfType(Q, "call")
       /\ P = Q
  BY <1>2, <1>8, <1>11, <1>21
<1>23. PairedIn(Q, {i \in DOMAIN Q : Q[i].type = "call"},
                DOMAIN Q \ {i \in DOMAIN Q : Q[i].type = "call"}, OfType(Q, "call"), made)
  BY <1>20, <1>22
<1>24. PairedIn(Seen.parts, {i \in DOMAIN Seen.parts : Seen.parts[i].type = "call"},
                DOMAIN Seen.parts \ {i \in DOMAIN Seen.parts : Seen.parts[i].type = "call"},
                OfType(Seen.parts, "call"), made)
  BY <1>21, <1>23, Zenon
<1> QED
  BY <1>24, Zenon DEF ResultsPaired, PairedIn

(***************************************************************************)
(* Whatever protocols the client and the provider speak, the provider is   *)
(* never asked without the system prompt and the images of the client.     *)
(***************************************************************************)
THEOREM PromptsReachProvider == Spec => []PromptKept
BY CarriedInvariant, KeepingInvariant, PromptThere, PTL

(***************************************************************************)
(* The signature of a call comes back to Gemini with the call, and Gemini  *)
(* 3 never gets a call without one, after any number of rounds.            *)
(***************************************************************************)
THEOREM CallsReachGeminiSigned == Spec => []CallsSigned
BY KeepingInvariant, SignedThere, PTL

(***************************************************************************)
(* The provider sees every call that the client ever made, once and in     *)
(* order, with the result of that very call: for any number of rounds and  *)
(* of calls in an answer, in any order of the results, with or without IDs.*)
(***************************************************************************)
THEOREM ResultsReachProvider == Spec => []ResultsPaired
BY KeepingInvariant, PairedThere, PTL

-----------------------------------------------------------------------------
(***************************************************************************)
(* The arguments of the calls in a reply to a request are those of no      *)
(* other request, so that a result tells which call it is of.              *)
(***************************************************************************)
\* The arguments of the calls in a reply to request n are its own.
FreshArgs(a, n) == a = NoObject \/ a = <<n, 1>> \/ a = <<n, 2>>
FreshCalls(calls, n) == \A k \in DOMAIN calls : FreshArgs(calls[k].arguments, n)

\* The arguments in the replies of OpenAI Chat are their own.
LEMMA ChatFresh ==
    ASSUME NEW n, NEW body \in {Chat!Talk} \cup Chat!ToolReplies(n) \cup Chat!OddReplies(n)
    PROVE  FreshCalls(Chat!Read(body).calls, n)
<1> DEFINE T1 == [Chat!Talk EXCEPT !.choices = 0]
           T2 == [Chat!Talk EXCEPT !.refusal = TRUE]
           T3 == [Chat!Talk EXCEPT !.refusal = TRUE, !.content = FALSE]
           P(b) == \E content, calls, finish, cached :
                      FreshCalls(calls, n) /\ b = Chat!Reply(content, calls, finish, cached)
<1>1. Chat!Talk.calls = << >>
  BY DEF Chat!Talk, Chat!Reply
<1>2. T1.calls = << >> /\ T2.calls = << >> /\ T3.calls = << >>
  BY DEF Chat!Talk, Chat!Reply
<1> HIDE DEF T1, T2, T3
<1>3. \A content, calls, finish, cached :
          Chat!Reply(content, calls, finish, cached).calls = calls
  BY DEF Chat!Reply
<1>4. /\ \A name : Chat!UpCall(n, 1, name).arguments = <<n, 1>>
      /\ \A name : Chat!UpCall(n, 2, name).arguments = <<n, 2>>
      /\ \A id, name : Chat!Call(id, name, Chat!NoObject).arguments = NoObject
  BY DEF Chat!UpCall, Chat!Call, Chat!NoObject, NoObject
<1>5. /\ FreshCalls(<< >>, n)
      /\ FreshCalls(<<Chat!UpCall(n, 1, "f"), Chat!UpCall(n, 2, "f")>>, n)
      /\ FreshCalls(<<Chat!UpCall(n, 1, "g")>>, n)
      /\ FreshCalls(<<Chat!UpCall(n, 1, "f")>>, n)
      /\ FreshCalls(<<Chat!Call(<<"up", n, 1, 0>>, "f", Chat!NoObject)>>, n)
  <2>1. FreshCalls(<< >>, n)
    BY DEF FreshCalls
  <2>2. ASSUME NEW a, FreshArgs(a.arguments, n) PROVE FreshCalls(<<a>>, n)
    BY <2>2 DEF FreshCalls
  <2>3. ASSUME NEW a, NEW b, FreshArgs(a.arguments, n), FreshArgs(b.arguments, n)
        PROVE  FreshCalls(<<a, b>>, n)
    BY <2>3 DEF FreshCalls
  <2>4. /\ \A name : FreshArgs(Chat!UpCall(n, 1, name).arguments, n)
        /\ \A name : FreshArgs(Chat!UpCall(n, 2, name).arguments, n)
        /\ \A id, name : FreshArgs(Chat!Call(id, name, Chat!NoObject).arguments, n)
    BY <1>4 DEF FreshArgs
  <2> QED
    BY <2>1, <2>2, <2>3, <2>4
<1>6. \A content, calls, finish, cached :
          FreshCalls(calls, n) => P(Chat!Reply(content, calls, finish, cached))
  OBVIOUS
<1> HIDE DEF P
<1>7. P(body) \/ body = Chat!Talk \/ body = T1 \/ body = T2 \/ body = T3
  <2>1. CASE body \in Chat!ToolReplies(n)
    BY <1>5, <1>6, <2>1, Zenon DEF Chat!ToolReplies
  <2>2. CASE body \in Chat!OddReplies(n)
    <3>1. \A finish, cached : P(Chat!Reply(TRUE, << >>, finish, cached))
      BY <1>5, <1>6, Zenon
    <3>2. P(Chat!Reply(FALSE, <<Chat!UpCall(n, 1, "f")>>, "length", 0))
      BY <1>5, <1>6, Zenon
    <3>3. P(Chat!Reply(FALSE, <<Chat!Call(<<"up", n, 1, 0>>, "f", Chat!NoObject)>>,
                       "tool_calls", 0))
      BY <1>5, <1>6, Zenon
    <3>4. \/ \E finish, cached : body = Chat!Reply(TRUE, << >>, finish, cached)
          \/ body = Chat!Reply(FALSE, <<Chat!UpCall(n, 1, "f")>>, "length", 0)
          \/ body = Chat!Reply(FALSE, <<Chat!Call(<<"up", n, 1, 0>>, "f", Chat!NoObject)>>,
                               "tool_calls", 0)
          \/ body \in {T1, T2, T3}
      BY <2>2, Zenon DEF Chat!OddReplies, T1, T2, T3
    <3>5. body \in {T1, T2, T3} => body = T1 \/ body = T2 \/ body = T3
      OBVIOUS
    <3> QED
      BY <3>1, <3>2, <3>3, <3>4, <3>5, Zenon
  <2> QED
    BY <2>1, <2>2
<1>8. FreshCalls(body.calls, n)
  <2>1. CASE P(body)
    BY <1>3, <2>1 DEF P
  <2>2. CASE ~P(body)
    BY <1>1, <1>2, <1>5, <1>7, <2>2
  <2> QED
    BY <2>1, <2>2
<1>9. Chat!Read(body).calls = body.calls
  BY DEF Chat!Read
<1> QED
  BY <1>8, <1>9

\* The calls of an output have arguments of request n.
FreshOutput(output, n) ==
    \A k \in DOMAIN output : output[k].type = "function_call" => FreshArgs(output[k].arguments, n)

\* The arguments in the replies of OpenAI Responses are their own.
LEMMA ResponsesFresh ==
    ASSUME NEW n,
           NEW body \in {Responses!Talk} \cup Responses!ToolReplies(n) \cup Responses!OddReplies(n)
    PROVE  FreshCalls(Responses!Read(body).calls, n)
<1> DEFINE E == [Responses!Talk EXCEPT !.error = TRUE]
           Item(item) == item.type = "function_call" => FreshArgs(item.arguments, n)
           P(b) == \E output, status_, reason, cached :
                      FreshOutput(output, n) /\ b = Responses!Reply(output, status_, reason, cached)
<1>1. /\ \A t : Item(Responses!Say(t))
      /\ \A name : Item(Responses!UpCall(n, 1, name)) /\ Item(Responses!UpCall(n, 2, name))
      /\ \A id, name : Item(Responses!CallItem(id, name, Responses!NoObject))
      /\ Item(Responses!Reasoning)
      /\ \A t : t # "function_call" => Item([type |-> t])
  <2>1. \A t : Responses!Say(t).type = "message"
    BY DEF Responses!Say, Responses!MessageItem
  <2>2. \A name : /\ Responses!UpCall(n, 1, name).arguments = <<n, 1>>
                  /\ Responses!UpCall(n, 2, name).arguments = <<n, 2>>
    BY DEF Responses!UpCall, Responses!CallItem
  <2>3. \A id, name : Responses!CallItem(id, name, Responses!NoObject).arguments = NoObject
    BY DEF Responses!CallItem, Responses!NoObject, NoObject
  <2>4. Responses!Reasoning.type = "reasoning"
    BY DEF Responses!Reasoning
  <2> QED
    BY <2>1, <2>2, <2>3, <2>4 DEF FreshArgs
<1>2. /\ FreshOutput(<< >>, n)
      /\ \A a : Item(a) => FreshOutput(<<a>>, n)
      /\ \A a, b : Item(a) /\ Item(b) => FreshOutput(<<a, b>>, n)
      /\ \A a, b, c : Item(a) /\ Item(b) /\ Item(c) => FreshOutput(<<a, b, c>>, n)
  <2>1. FreshOutput(<< >>, n)
    BY DEF FreshOutput
  <2>2. ASSUME NEW a, Item(a) PROVE FreshOutput(<<a>>, n)
    BY <2>2 DEF FreshOutput
  <2>3. ASSUME NEW a, NEW b, Item(a), Item(b) PROVE FreshOutput(<<a, b>>, n)
    BY <2>3 DEF FreshOutput
  <2>4. ASSUME NEW a, NEW b, NEW c, Item(a), Item(b), Item(c) PROVE FreshOutput(<<a, b, c>>, n)
    BY <2>4 DEF FreshOutput
  <2> QED
    BY <2>1, <2>2, <2>3, <2>4
<1> HIDE DEF Item
<1>3. \A output, status_, reason, cached :
          Responses!Reply(output, status_, reason, cached).output = output
  BY DEF Responses!Reply
<1>4. E.output = Responses!Talk.output
  BY DEF Responses!Talk, Responses!Reply
<1> HIDE DEF E
<1>5. \A output, status_, reason, cached :
          FreshOutput(output, n) => P(Responses!Reply(output, status_, reason, cached))
  OBVIOUS
<1> HIDE DEF P
<1>6. FreshOutput(Responses!Talk.output, n)
  BY <1>1, <1>2, <1>3 DEF Responses!Talk
<1>7. P(body) \/ body = Responses!Talk \/ body = E
  <2>1. CASE body \in Responses!ToolReplies(n)
    <3>1. /\ FreshOutput(<<Responses!UpCall(n, 1, "f"), Responses!Say("output_text"),
                           Responses!UpCall(n, 2, "f")>>, n)
          /\ FreshOutput(<<Responses!Reasoning, Responses!UpCall(n, 1, "g")>>, n)
      BY <1>1, <1>2
    <3> QED
      BY <1>5, <2>1, <3>1, Zenon DEF Responses!ToolReplies
  <2>2. CASE body \in Responses!OddReplies(n)
    <3>1. /\ \A t : FreshOutput(<<Responses!Say(t)>>, n)
          /\ FreshOutput(<<Responses!UpCall(n, 1, "f")>>, n)
          /\ FreshOutput(<<Responses!CallItem(<<"up", n, 1, 0>>, "f", Responses!NoObject)>>, n)
          /\ FreshOutput(<<[type |-> "web_search_call"]>>, n)
      <4>1. "web_search_call" # "function_call"
        OBVIOUS
      <4> QED
        BY <1>1, <1>2, <4>1
    <3> QED
      BY <1>2, <1>5, <2>2, <3>1, Zenon DEF Responses!OddReplies, E
  <2> QED
    BY <2>1, <2>2
<1>8. FreshOutput(body.output, n)
  <2>1. CASE P(body)
    BY <1>3, <2>1 DEF P
  <2>2. CASE ~P(body)
    BY <1>4, <1>6, <1>7, <2>2
  <2> QED
    BY <2>1, <2>2
<1>9. IsSeq(body.output)
  BY ResponsesFormed DEF ResponsesReplyFormed
<1>10. PICK calls, read : calls = OfType(body.output, "function_call") /\ read = Responses!Read(body).calls
  OBVIOUS
<1>11. IsSeq(calls) /\ IsSeq(read) /\ Len(read) = Len(calls)
       /\ \A k \in 1..Len(calls) : read[k].arguments = calls[k].arguments
  BY <1>9, <1>10, ResponsesCalls
<1>12. \A j \in DOMAIN calls : FreshArgs(calls[j].arguments, n)
  BY <1>8, <1>9, <1>10, OfTypeMembers DEF FreshOutput
<1>13. DOMAIN calls = 1..Len(calls) /\ DOMAIN read = 1..Len(calls)
  BY <1>11, IsSeqFields
<1> QED
  BY <1>10, <1>11, <1>12, <1>13 DEF FreshCalls

\* The calls of a content have arguments of request n.
FreshUse(x, n) == x.type = "tool_use" => FreshArgs(x.input, n)
FreshUses(content, n) == \A k \in DOMAIN content : FreshUse(content[k], n)

\* The arguments in the replies of Anthropic are their own.
LEMMA AnthropicFresh ==
    ASSUME NEW n,
           NEW body \in {Messages!Talk} \cup Messages!ToolReplies(n) \cup Messages!OddReplies(n)
    PROVE  FreshCalls(Messages!Read(body).calls, n)
<1> DEFINE E1 == [Messages!Reply(<<Messages!Text>>, "stop_sequence", 0, 0)
                     EXCEPT !.stopSequence = TRUE]
           E2 == [Messages!Talk EXCEPT !.stopSequence = TRUE]
           E3 == [Messages!Talk EXCEPT !.kind = "error"]
           E(name) == [Messages!Talk EXCEPT !.model = name]
           P(b) == \E content, stopReason, created, read :
                      FreshUses(content, n) /\ b = Messages!Reply(content, stopReason, created, read)
<1>1. /\ FreshUse(Messages!Text, n)
      /\ \A name : FreshUse(Messages!UpUse(n, 1, name), n) /\ FreshUse(Messages!UpUse(n, 2, name), n)
      /\ \A id, name : FreshUse(Messages!ToolUse(id, name, Messages!NoObject), n)
      /\ FreshUse([type |-> "thinking"], n)
  <2>1. Messages!Text.type = "text"
    BY DEF Messages!Text
  <2>2. \A name : /\ Messages!UpUse(n, 1, name).input = <<n, 1>>
                  /\ Messages!UpUse(n, 2, name).input = <<n, 2>>
    BY DEF Messages!UpUse, Messages!ToolUse
  <2>3. \A id, name : Messages!ToolUse(id, name, Messages!NoObject).input = NoObject
    BY DEF Messages!ToolUse, Messages!NoObject, NoObject
  <2> QED
    BY <2>1, <2>2, <2>3 DEF FreshArgs, FreshUse
<1>2. /\ FreshUses(<< >>, n)
      /\ \A a : FreshUse(a, n) => FreshUses(<<a>>, n)
      /\ \A a, b : FreshUse(a, n) /\ FreshUse(b, n) => FreshUses(<<a, b>>, n)
      /\ \A a, b, c : FreshUse(a, n) /\ FreshUse(b, n) /\ FreshUse(c, n) => FreshUses(<<a, b, c>>, n)
  <2>1. FreshUses(<< >>, n)
    BY DEF FreshUses
  <2>2. ASSUME NEW a, FreshUse(a, n) PROVE FreshUses(<<a>>, n)
    BY <2>2 DEF FreshUses
  <2>3. ASSUME NEW a, NEW b, FreshUse(a, n), FreshUse(b, n) PROVE FreshUses(<<a, b>>, n)
    BY <2>3 DEF FreshUses
  <2>4. ASSUME NEW a, NEW b, NEW c, FreshUse(a, n), FreshUse(b, n), FreshUse(c, n)
        PROVE  FreshUses(<<a, b, c>>, n)
    BY <2>4 DEF FreshUses
  <2> QED
    BY <2>1, <2>2, <2>3, <2>4
<1>3. \A content, stopReason, created, read :
          Messages!Reply(content, stopReason, created, read).content = content
  BY DEF Messages!Reply
<1>4. /\ Messages!Talk.content = <<Messages!Text>>
      /\ E1.content = <<Messages!Text>> /\ E2.content = <<Messages!Text>>
      /\ E3.content = <<Messages!Text>> /\ \A name : E(name).content = <<Messages!Text>>
  BY DEF Messages!Reply, Messages!Talk
<1> HIDE DEF E1, E2, E3, E
<1>5. \A content, stopReason, created, read :
          FreshUses(content, n) => P(Messages!Reply(content, stopReason, created, read))
  OBVIOUS
<1> HIDE DEF P
<1>6. FreshUses(<<Messages!Text>>, n)
  BY <1>1, <1>2
<1>7. \/ P(body) \/ body = Messages!Talk \/ body = E1 \/ body = E2 \/ body = E3
      \/ \E name : body = E(name)
  <2>1. CASE body \in Messages!ToolReplies(n)
    <3>1. /\ FreshUses(<<Messages!Text, Messages!UpUse(n, 1, "f"), Messages!UpUse(n, 2, "f")>>, n)
          /\ FreshUses(<<Messages!UpUse(n, 1, "g")>>, n)
      BY <1>1, <1>2
    <3> QED
      BY <1>5, <2>1, <3>1, Zenon DEF Messages!ToolReplies
  <2>2. CASE body \in Messages!OddReplies(n)
    <3>1. /\ FreshUses(<<Messages!UpUse(n, 1, "f")>>, n)
          /\ FreshUses(<<Messages!ToolUse(<<"up", n, 1, 0>>, "f", Messages!NoObject)>>, n)
          /\ FreshUses(<<[type |-> "thinking"], Messages!Text>>, n)
      BY <1>1, <1>2
    <3>2. \/ \E stopReason, read : body = Messages!Reply(<<Messages!Text>>, stopReason, 0, read)
          \/ body = Messages!Reply(<<Messages!UpUse(n, 1, "f")>>, "max_tokens", 0, 0)
          \/ body = Messages!Reply(<< >>, "refusal", 0, 0)
          \/ body = Messages!Reply(<<[type |-> "thinking"], Messages!Text>>, "end_turn", 0, 0)
          \/ body = Messages!Reply(<<Messages!ToolUse(<<"up", n, 1, 0>>, "f", Messages!NoObject)>>,
                                   "tool_use", 0, 0)
          \/ body = E1 \/ body = E2 \/ body = E3 \/ \E name : body = E(name)
      BY <2>2, Zenon DEF Messages!OddReplies, E1, E2, E3, E
    <3> QED
      BY <1>2, <1>5, <1>6, <3>1, <3>2, Zenon
  <2> QED
    BY <2>1, <2>2
<1>8. FreshUses(body.content, n)
  <2>1. CASE P(body)
    BY <1>3, <2>1 DEF P
  <2>2. CASE ~P(body)
    BY <1>4, <1>6, <1>7, <2>2
  <2> QED
    BY <2>1, <2>2
<1>9. IsSeq(body.content)
  BY AnthropicFormed DEF AnthropicReplyFormed
<1>10. PICK uses, read : uses = OfType(body.content, "tool_use") /\ read = Messages!Read(body).calls
  OBVIOUS
<1>11. IsSeq(uses) /\ IsSeq(read) /\ Len(read) = Len(uses)
       /\ \A k \in 1..Len(uses) : read[k].arguments = uses[k].input
  BY <1>9, <1>10, AnthropicCalls
<1>12. \A j \in DOMAIN uses : FreshArgs(uses[j].input, n)
  BY <1>8, <1>9, <1>10, OfTypeMembers DEF FreshUses, FreshUse
<1>13. DOMAIN uses = 1..Len(uses) /\ DOMAIN read = 1..Len(uses)
  BY <1>11, IsSeqFields
<1> QED
  BY <1>10, <1>11, <1>12, <1>13 DEF FreshCalls

\* The calls of Gemini parts have arguments of request n.
FreshPart(x, n) == x.type = "functionCall" => FreshArgs(x.args, n)
FreshParts(parts, n) == \A k \in DOMAIN parts : FreshPart(parts[k], n)

\* The arguments in the replies of Gemini are their own.
LEMMA GeminiFresh ==
    ASSUME NEW n, NEW model,
           NEW body \in {Content!Talk} \cup Content!ToolReplies(n, model)
                            \cup Content!OddReplies(n, model)
    PROVE  FreshCalls(Content!Read(body).calls, n)
<1> DEFINE Empty == Content!Reply(<< >>, "-", 0)
           E1 == [Empty EXCEPT !.candidates = 0]
           E2 == [Empty EXCEPT !.candidates = 0, !.blocked = TRUE]
           E(role) == [Content!Talk EXCEPT !.role = role]
           P(b) == \E parts, finish, cached :
                      FreshParts(parts, n) /\ b = Content!Reply(parts, finish, cached)
<1>1. /\ FreshPart(Content!Text, n)
      /\ \A name, withID : /\ FreshPart(Content!UpCall(n, 1, name, withID, model), n)
                           /\ FreshPart(Content!UpCall(n, 2, name, withID, model), n)
      /\ \A id, name, signature :
            FreshPart(Content!FunctionCall(id, name, Content!NoObject, signature), n)
      /\ \A t : t # "functionCall" => FreshPart([type |-> t], n)
      /\ FreshPart([type |-> "text", signature |-> "signed"], n)
  <2>1. Content!Text.type = "text"
    BY DEF Content!Text
  <2>2. \A id, name, args, signature : Content!FunctionCall(id, name, args, signature).args = args
    BY DEF Content!FunctionCall
  <2>3. \A name, withID : /\ Content!UpCall(n, 1, name, withID, model).args = <<n, 1>>
                          /\ Content!UpCall(n, 2, name, withID, model).args = <<n, 2>>
    <3> SUFFICES ASSUME NEW name, NEW withID
                 PROVE  /\ Content!UpCall(n, 1, name, withID, model).args = <<n, 1>>
                        /\ Content!UpCall(n, 2, name, withID, model).args = <<n, 2>>
      OBVIOUS
    <3>1. PICK id, signature : Content!UpCall(n, 1, name, withID, model)
                                  = Content!FunctionCall(id, name, <<n, 1>>, signature)
      BY Zenon DEF Content!UpCall
    <3>2. PICK id2, signature2 : Content!UpCall(n, 2, name, withID, model)
                                  = Content!FunctionCall(id2, name, <<n, 2>>, signature2)
      BY Zenon DEF Content!UpCall
    <3> QED
      BY <2>2, <3>1, <3>2
  <2>4. Content!NoObject = NoObject
    BY DEF Content!NoObject, NoObject
  <2>5. (\A t : [type |-> t].type = t) /\ [type |-> "text", signature |-> "signed"].type = "text"
    OBVIOUS
  <2> QED
    BY <2>1, <2>2, <2>3, <2>4, <2>5 DEF FreshArgs, FreshPart
<1>2. /\ FreshParts(<< >>, n)
      /\ \A a : FreshPart(a, n) => FreshParts(<<a>>, n)
      /\ \A a, b : FreshPart(a, n) /\ FreshPart(b, n) => FreshParts(<<a, b>>, n)
      /\ \A a, b, c : FreshPart(a, n) /\ FreshPart(b, n) /\ FreshPart(c, n) =>
            FreshParts(<<a, b, c>>, n)
  <2>1. FreshParts(<< >>, n)
    BY DEF FreshParts
  <2>2. ASSUME NEW a, FreshPart(a, n) PROVE FreshParts(<<a>>, n)
    BY <2>2 DEF FreshParts
  <2>3. ASSUME NEW a, NEW b, FreshPart(a, n), FreshPart(b, n) PROVE FreshParts(<<a, b>>, n)
    BY <2>3 DEF FreshParts
  <2>4. ASSUME NEW a, NEW b, NEW c, FreshPart(a, n), FreshPart(b, n), FreshPart(c, n)
        PROVE  FreshParts(<<a, b, c>>, n)
    BY <2>4 DEF FreshParts
  <2> QED
    BY <2>1, <2>2, <2>3, <2>4
<1>3. \A parts, finish, cached : Content!Reply(parts, finish, cached).parts = parts
  BY DEF Content!Reply
<1>4. E1.parts = << >> /\ E2.parts = << >>
  BY DEF Content!Reply
<1>40. \A role : E(role).parts = <<[type |-> "thought"], Content!Text>>
  BY DEF Content!Reply, Content!Talk
<1> HIDE DEF Empty, E1, E2, E
<1>5. \A parts, finish, cached : FreshParts(parts, n) => P(Content!Reply(parts, finish, cached))
  OBVIOUS
<1> HIDE DEF P
<1>6. FreshParts(<<Content!Text>>, n)
  BY <1>1, <1>2
<1>60. /\ FreshPart([type |-> "thought"], n) /\ FreshPart([type |-> "inlineData"], n)
       /\ FreshPart([type |-> "executableCode"], n)
  BY <1>1
<1>61. FreshParts(<<[type |-> "thought"], Content!Text>>, n)
  BY <1>1, <1>2, <1>60
<1>7. P(body) \/ body = E1 \/ body = E2 \/ \E role : body = E(role)
  <2>1. CASE body = Content!Talk
    BY <1>5, <1>61, <2>1, Zenon DEF Content!Talk
  <2>2. CASE body \in Content!ToolReplies(n, model)
    <3>1. \A withID : /\ FreshParts(<<Content!Text, Content!UpCall(n, 1, "f", withID, model),
                                      Content!UpCall(n, 2, "f", withID, model)>>, n)
                      /\ FreshParts(<<Content!UpCall(n, 1, "g", withID, model)>>, n)
      BY <1>1, <1>2
    <3>2. \/ \E withID : body = Content!Reply(<<Content!Text, Content!UpCall(n, 1, "f", withID, model),
                                      Content!UpCall(n, 2, "f", withID, model)>>, "STOP", 0)
          \/ \E withID : body = Content!Reply(<<Content!UpCall(n, 1, "g", withID, model)>>, "STOP", 0)
      BY <2>2, Zenon DEF Content!ToolReplies
    <3> QED
      BY <1>5, <3>1, <3>2, Zenon
  <2>3. CASE body \in Content!OddReplies(n, model)
    <3>1. /\ FreshParts(<<Content!UpCall(n, 1, "f", FALSE, model)>>, n)
          /\ FreshParts(<<Content!FunctionCall(Content!NoID, "f", Content!NoObject,
                                               Content!NoSignature)>>, n)
          /\ FreshParts(<<[type |-> "inlineData"]>>, n)
          /\ FreshParts(<<[type |-> "executableCode"]>>, n)
          /\ FreshParts(<<[type |-> "text", signature |-> "signed"]>>, n)
      <4>1. FreshParts(<<Content!UpCall(n, 1, "f", FALSE, model)>>, n)
        BY <1>1, <1>2, Zenon
      <4> QED
        BY <1>1, <1>2, <1>60, <4>1
    <3>2. \/ \E finish, cached : body = Content!Reply(<<Content!Text>>, finish, cached)
          \/ body = Content!Reply(<<Content!UpCall(n, 1, "f", FALSE, model)>>, "MAX_TOKENS", 0)
          \/ body = Content!Reply(<<[type |-> "inlineData"]>>, "STOP", 0)
          \/ body = Content!Reply(<<[type |-> "executableCode"]>>, "STOP", 0)
          \/ body = Content!Reply(<<[type |-> "text", signature |-> "signed"]>>, "STOP", 0)
          \/ body = Content!Reply(<<Content!FunctionCall(Content!NoID, "f", Content!NoObject,
                                                         Content!NoSignature)>>, "STOP", 0)
          \/ body = E1 \/ body = E2 \/ \E role : body = E(role)
      BY <2>3, Zenon DEF Content!OddReplies, E1, E2, E, Empty
    <3> QED
      BY <1>5, <1>6, <3>1, <3>2, Zenon
  <2> QED
    BY <2>1, <2>2, <2>3
<1>8. FreshParts(body.parts, n)
  <2>1. CASE P(body)
    BY <1>3, <2>1 DEF P
  <2>2. CASE ~P(body)
    BY <1>2, <1>4, <1>40, <1>61, <1>7, <2>2
  <2> QED
    BY <2>1, <2>2
<1>9. IsSeq(body.parts)
  BY GeminiFormed, Zenon DEF GeminiReplyFormed
<1>10. PICK calls, read : calls = OfType(body.parts, "functionCall") /\ read = Content!Read(body).calls
  OBVIOUS
<1>11. read = [k \in DOMAIN calls |-> [id |-> calls[k].id, name |-> calls[k].name,
                                      arguments |-> calls[k].args]]
  BY <1>10, GeminiCalls
<1>12. \A j \in DOMAIN calls : FreshArgs(calls[j].args, n)
  BY <1>8, <1>9, <1>10, OfTypeMembers DEF FreshParts, FreshPart
<1>13. \A j \in DOMAIN read : FreshArgs(read[j].arguments, n)
  BY <1>11, <1>12
<1> QED
  BY <1>10, <1>13 DEF FreshCalls

-----------------------------------------------------------------------------
(***************************************************************************)
(* The fourth inductive invariant.                                         *)
(***************************************************************************)
\* Arguments of an earlier request.
Older(a, r) == a = NoObject \/ \E n \in Nat : n < r /\ FreshArgs(a, n)

\* Calls with the same arguments were made together.
Alike(M) ==
    \A k, l \in DOMAIN M :
        (M[k].arguments = M[l].arguments /\ M[k].arguments # NoObject) =>
            M[k].isError = M[l].isError

\* The reply that is on its way, or was answered last, is that to this request.
FreshReply == (reply # Nothing /\ reply.code = 200) =>
                  FreshCalls(ReadAnswer(route.protocol, reply.body).calls, request)

\* The fourth inductive invariant: arguments tell the request that they belong to.
Dating ==
    /\ IsSeq(made)
    /\ \A k \in DOMAIN made : Older(made[k].arguments, request)
    /\ Alike(made)
    /\ FreshReply

\* Arguments of this request are not those of an earlier one.
LEMMA FreshApart ==
    ASSUME NEW r \in Nat, NEW a, FreshArgs(a, r), Older(a, r)
    PROVE  a = NoObject
<1> SUFFICES ASSUME a # NoObject PROVE FALSE
  OBVIOUS
<1>1. PICK n \in Nat : n < r /\ FreshArgs(a, n)
  BY DEF Older
<1>2. \E i, j : a = <<r, i>> /\ a = <<n, j>>
  BY <1>1 DEF FreshArgs
<1>3. PICK i, j : a = <<r, i>> /\ a = <<n, j>>
  BY <1>2
<1>4. a[1] = r /\ a[1] = n
  BY <1>3
<1> QED
  BY <1>1, <1>4

\* Arguments of this request are old for the next one.
LEMMA OlderYet ==
    ASSUME NEW r \in Nat, NEW a, Older(a, r) \/ FreshArgs(a, r)
    PROVE  Older(a, r + 1)
<1>1. CASE Older(a, r)
  <2>1. CASE a = NoObject
    BY <2>1 DEF Older
  <2>2. CASE \E n \in Nat : n < r /\ FreshArgs(a, n)
    <3>1. PICK n \in Nat : n < r /\ FreshArgs(a, n)
      BY <2>2
    <3>2. n < r + 1
      BY <3>1
    <3> QED
      BY <3>1, <3>2 DEF Older
  <2> QED
    BY <1>1, <2>1, <2>2 DEF Older
<1>2. CASE FreshArgs(a, r)
  <2>1. r < r + 1
    OBVIOUS
  <2> QED
    BY <1>2, <2>1 DEF Older
<1> QED
  BY <1>1, <1>2

\* The calls made so far, and those of one answer more.
LEMMA DatedTogether ==
    ASSUME NEW r \in Nat, NEW M, IsSeq(M), \A k \in DOMAIN M : Older(M[k].arguments, r), Alike(M),
           NEW N, IsSeq(N), NEW isError,
           \A k \in DOMAIN N : FreshArgs(N[k].arguments, r) /\ N[k].isError = isError,
           NEW w, w = M \o N
    PROVE  /\ IsSeq(w) /\ Alike(w)
           /\ \A k \in DOMAIN w : Older(w[k].arguments, r + 1)
<1>1. Joins(w, M, N)
  BY JoinsConcat
<1>2. PICK m \in Nat, n \in Nat : m = Len(M) /\ n = Len(N) /\ DOMAIN M = 1..m /\ DOMAIN N = 1..n
  BY IsSeqFields
<1>3. IsSeq(w) /\ DOMAIN w = 1..(m + n)
  BY <1>1, <1>2, IsSeqFields DEF Joins
<1>4. ASSUME NEW k \in DOMAIN w
      PROVE  \/ \E j \in DOMAIN M : w[k] = M[j]
             \/ \E j \in DOMAIN N : w[k] = N[j]
  <2>1. CASE k \in 1..m
    BY <1>1, <1>2, <2>1 DEF Joins
  <2>2. CASE k \notin 1..m
    <3>1. PICK j : j = k - m
      OBVIOUS
    <3>2. j \in 1..n /\ k = m + j
      BY <1>3, <2>2, <3>1
    <3>3. w[m + j] = N[j]
      BY <1>1, <1>2, <3>2 DEF Joins
    <3> QED
      BY <1>2, <3>2, <3>3
  <2> QED
    BY <2>1, <2>2
<1>5. ASSUME NEW k \in DOMAIN w PROVE Older(w[k].arguments, r + 1)
  <2>1. Older(w[k].arguments, r) \/ FreshArgs(w[k].arguments, r)
    BY <1>4
  <2> QED
    BY <2>1, OlderYet, Zenon
<1>6. Alike(w)
  <2> SUFFICES ASSUME NEW k \in DOMAIN w, NEW l \in DOMAIN w,
                      w[k].arguments = w[l].arguments, w[k].arguments # NoObject
               PROVE  w[k].isError = w[l].isError
    BY Zenon DEF Alike
  <2>1. PICK a, b : a = w[k] /\ b = w[l]
    OBVIOUS
  <2>2. /\ (\E j \in DOMAIN M : a = M[j]) \/ \E j \in DOMAIN N : a = N[j]
        /\ (\E j \in DOMAIN M : b = M[j]) \/ \E j \in DOMAIN N : b = N[j]
    BY <1>4, <2>1
  <2>3. CASE (\E j \in DOMAIN M : a = M[j]) /\ \E j \in DOMAIN M : b = M[j]
    BY <2>1, <2>3 DEF Alike
  <2>4. CASE (\E j \in DOMAIN N : a = N[j]) /\ \E j \in DOMAIN N : b = N[j]
    BY <2>1, <2>4
  <2>5. CASE (\E j \in DOMAIN M : a = M[j]) /\ \E j \in DOMAIN N : b = N[j]
    <3>1. Older(a.arguments, r) /\ FreshArgs(b.arguments, r)
      BY <2>5
    <3> QED
      BY <2>1, <3>1, FreshApart
  <2>6. CASE (\E j \in DOMAIN N : a = N[j]) /\ \E j \in DOMAIN M : b = M[j]
    <3>1. FreshArgs(a.arguments, r) /\ Older(b.arguments, r)
      BY <2>6
    <3> QED
      BY <2>1, <3>1, FreshApart
  <2> QED
    BY <2>1, <2>2, <2>3, <2>4, <2>5, <2>6, Zenon
<1> QED
  BY <1>3, <1>5, <1>6

\* The initial states.
LEMMA DatingInit == Init => Dating
<1> SUFFICES ASSUME Init PROVE Dating
  OBVIOUS
<1>1. made = << >> /\ reply = Nothing
  BY DEF Init
<1>2. IsSeq(made) /\ DOMAIN made = {}
  BY <1>1, IsSeqTuples
<1> QED
  BY <1>1, <1>2 DEF Dating, Alike, FreshReply

\* The arguments in every reply are its own.
LEMMA RepliesFresh ==
    ASSUME Carried, pc = "provider", NEW body \in {Talk} \cup ToolReplies \cup OddReplies
    PROVE  FreshCalls(ReadAnswer(route.protocol, body).calls, request)
<1>1. route.protocol \in {"chat", "responses", "anthropic", "gemini"}
  BY Protocols DEF Carried, Outward
<1>2. CASE route.protocol = "chat"
  <2>1. ReadAnswer(route.protocol, body) = Chat!Read(body)
    BY <1>2 DEF ReadAnswer, By
  <2>2. body \in {Chat!Talk} \cup Chat!ToolReplies(request) \cup Chat!OddReplies(request)
    BY <1>2 DEF Talk, ToolReplies, OddReplies, By
  <2> QED
    BY <2>1, <2>2, ChatFresh
<1>3. CASE route.protocol = "responses"
  <2>1. ReadAnswer(route.protocol, body) = Responses!Read(body)
    BY <1>3 DEF ReadAnswer, By
  <2>2. body \in {Responses!Talk} \cup Responses!ToolReplies(request)
                     \cup Responses!OddReplies(request)
    BY <1>3 DEF Talk, ToolReplies, OddReplies, By
  <2> QED
    BY <2>1, <2>2, ResponsesFresh
<1>4. CASE route.protocol = "anthropic"
  <2>1. ReadAnswer(route.protocol, body) = Messages!Read(body)
    BY <1>4 DEF ReadAnswer, By
  <2>2. body \in {Messages!Talk} \cup Messages!ToolReplies(request)
                     \cup Messages!OddReplies(request)
    BY <1>4 DEF Talk, ToolReplies, OddReplies, By
  <2> QED
    BY <2>1, <2>2, AnthropicFresh
<1>5. CASE route.protocol = "gemini"
  <2>1. ReadAnswer(route.protocol, body) = Content!Read(body)
    BY <1>5 DEF ReadAnswer, By
  <2>2. body \in {Content!Talk} \cup Content!ToolReplies(request, route.model)
                     \cup Content!OddReplies(request, route.model)
    BY <1>5 DEF Talk, ToolReplies, OddReplies, By
  <2> QED
    BY <2>1, <2>2, GeminiFresh
<1> QED
  BY <1>1, <1>2, <1>3, <1>4, <1>5

\* Calls and request stay.
LEMMA DatingStays ==
    ASSUME Dating, UNCHANGED <<made, request>>, FreshReply'
    PROVE  Dating'
BY Zenon DEF Dating, Alike

\* The reply stays, too.
LEMMA ReplyStays ==
    ASSUME Dating, UNCHANGED <<made, request, reply, route>>
    PROVE  Dating'
<1>1. reply' = reply /\ route' = route /\ request' = request
  OBVIOUS
<1>2. FreshReply
  BY DEF Dating
<1>3. FreshReply'
  BY <1>1, <1>2, Zenon DEF FreshReply, ReadAnswer
<1> QED
  BY <1>3, DatingStays

\* The client asks.
LEMMA AskDates ==
    ASSUME Carried, NEW messages, Ask(messages), IsSeq(made'), Alike(made'),
           \A k \in DOMAIN made' : Older(made'[k].arguments, request + 1)
    PROVE  Dating'
<1>1. request' = request + 1 /\ reply' = Nothing
  BY DEF Ask
<1>2. FreshReply'
  BY <1>1 DEF FreshReply, Nothing
<1>3. \A k \in DOMAIN made' : Older(made'[k].arguments, request')
  BY <1>1
<1>4. Alike(made)'
  BY Zenon DEF Alike
<1> QED
  BY <1>2, <1>3, <1>4, Zenon DEF Dating

\* The steps of the client.
LEMMA ClientDates ==
    ASSUME Carried, Telling, Keeping, Dating, AskAgain \/ AskWithResults \/ AskMore
    PROVE  Dating'
<1>0. PICK r \in Nat : r = request
  BY DEF Carried, TypeOK
<1>1. IsSeq(made) /\ Alike(made) /\ \A k \in DOMAIN made : Older(made[k].arguments, r)
  BY <1>0 DEF Dating
<1>2. CASE AskAgain \/ AskMore
  <2>1. made' = made /\ \E messages : Ask(messages)
    BY <1>2, Zenon DEF AskAgain, AskMore
  <2>2. \A k \in DOMAIN made : Older(made[k].arguments, r + 1)
    BY <1>1, OlderYet
  <2>3. \A k \in DOMAIN made' : Older(made'[k].arguments, request + 1)
    BY <1>0, <2>1, <2>2
  <2>4. IsSeq(made') /\ Alike(made')
    BY <1>1, <2>1
  <2> QED
    BY <2>1, <2>3, <2>4, AskDates
<1>3. CASE AskWithResults
  <2>1. PICK calls : calls = ReadAnswer(client.protocol, flight).calls
    OBVIOUS
  <2>2. PICK order \in Orders(Len(calls)), form \in Forms, isError \in BOOLEAN :
           /\ Ask(history \o Echo(flight) \o Results(flight, order, form, isError))
           /\ made' = made \o MadeOf(calls, isError)
    BY <1>3, <2>1, Zenon DEF AskWithResults, MadeOf
  <2>3. pc = "client" /\ status = 200
    BY <1>3, Zenon DEF AskWithResults
  <2>4. PICK origin : origin = ReadAnswer(route.protocol, reply.body).calls
    OBVIOUS
  <2>5. FreshCalls(origin, r)
    <3>1. reply # Nothing /\ reply.code = 200
      BY <2>3 DEF Carried, StatusTells
    <3> QED
      BY <1>0, <2>4, <3>1 DEF Dating, FreshReply
  <2>6. Pairs(calls) = Pairs(origin)
    BY <2>1, <2>3, <2>4, Zenon DEF Telling, AnswerKept, Pairs
  <2>7. \A k \in DOMAIN calls : FreshArgs(calls[k].arguments, r)
    <3>1. DOMAIN calls = DOMAIN origin
      <4>1. DOMAIN Pairs(calls) = DOMAIN calls /\ DOMAIN Pairs(origin) = DOMAIN origin
        BY DEF Pairs
      <4> QED
        BY <2>6, <4>1
    <3>2. ASSUME NEW k \in DOMAIN calls PROVE calls[k].arguments = origin[k].arguments
      <4>1. Pairs(calls)[k] = <<calls[k].name, calls[k].arguments>>
        BY DEF Pairs
      <4>2. Pairs(origin)[k] = <<origin[k].name, origin[k].arguments>>
        BY <3>1 DEF Pairs
      <4> QED
        BY <2>6, <4>1, <4>2
    <3> QED
      BY <2>5, <3>1, <3>2 DEF FreshCalls
  <2>8. PICK N : N = MadeOf(calls, isError)
    OBVIOUS
  <2>9. Shaped(client.protocol, flight) /\ client.protocol \in Known4
    BY <2>3 DEF Keeping, Carried, TypeOK, Clients, Known4
  <2>10. IsSeq(calls)
    BY <2>1, <2>9, ReadCalls
  <2>11. /\ N = [k \in DOMAIN calls |-> N[k]]
         /\ \A k \in DOMAIN calls : N[k].arguments = calls[k].arguments /\ N[k].isError = isError
    BY <2>8 DEF MadeOf
  <2>12. IsSeq(N)
    BY <2>10, <2>11, IsSeqOver
  <2>13. PICK no : no = isError
    OBVIOUS
  <2>14. \A k \in DOMAIN N : FreshArgs(N[k].arguments, r) /\ N[k].isError = no
    BY <2>7, <2>11, <2>13
  <2>15. PICK w, M : w = M \o N /\ M = made
    BY Zenon
  <2>16. /\ IsSeq(w) /\ Alike(w)
         /\ \A k \in DOMAIN w : Older(w[k].arguments, r + 1)
    BY <1>1, <2>12, <2>14, <2>15, DatedTogether, Zenon
  <2>17. made' = w
    BY <2>2, <2>8, <2>15
  <2>18. \A k \in DOMAIN made' : Older(made'[k].arguments, request + 1)
    BY <1>0, <2>16, <2>17
  <2>19. IsSeq(made') /\ Alike(made')
    BY <2>16, <2>17
  <2> QED
    BY <2>2, <2>18, <2>19, AskDates
<1> QED
  BY <1>2, <1>3

\* The provider replies.
LEMMA ProviderDates ==
    ASSUME Carried, Dating, Provider
    PROVE  Dating'
<1>1. pc = "provider" /\ UNCHANGED <<made, request, route>>
  BY DEF Provider, Replied
<1>2. ASSUME NEW body \in {Talk} \cup ToolReplies \cup OddReplies,
             reply' = [code |-> 200, body |-> body]
      PROVE  FreshReply'
  <2>1. FreshCalls(ReadAnswer(route.protocol, body).calls, request)
    BY <1>1, RepliesFresh
  <2>2. reply'.body = body /\ route' = route /\ request' = request
    BY <1>1, <1>2
  <2>3. FreshCalls(ReadAnswer(route.protocol, reply.body).calls, request)'
    BY <2>1, <2>2, Zenon DEF ReadAnswer
  <2> QED
    BY <2>3 DEF FreshReply
<1>3. ASSUME NEW code \in {429, 500}, reply' = [code |-> code] PROVE FreshReply'
  <2>1. reply'.code # 200
    BY <1>3
  <2> QED
    BY <2>1 DEF FreshReply
<1>4. \/ \E body \in {Talk} \cup ToolReplies \cup OddReplies : reply' = [code |-> 200, body |-> body]
      \/ \E code \in {429, 500} : reply' = [code |-> code]
  BY DEF Provider, Replied
<1> QED
  BY <1>1, <1>2, <1>3, <1>4, DatingStays

\* Every step keeps it.
LEMMA DatingNext == Carried /\ Telling /\ Keeping /\ Dating /\ [Next]_vars => Dating'
<1> SUFFICES ASSUME Carried, Telling, Keeping, Dating, [Next]_vars PROVE Dating'
  OBVIOUS
<1>1. CASE Provider
  BY <1>1, ProviderDates
<1>2. CASE AskAgain \/ AskWithResults \/ AskMore
  BY <1>2, ClientDates
<1>3. CASE UNCHANGED <<made, request, reply, route>>
  BY <1>3, ReplyStays
<1>4. ASSUME createChatCompletion \/ createResponse \/ createMessage \/ generateContent
      PROVE  UNCHANGED <<made, request, reply, route>>
  BY <1>4 DEF createChatCompletion, createResponse, createMessage, generateContent, Dispatch,
     Answer, Fail
<1>5. ASSUME generateChat \/ generateResponses \/ generateMessages \/ generateGemini
      PROVE  UNCHANGED <<made, request, reply, route>>
  <2>1. \E translated : Send(translated) \/ Receive(translated)
    BY <1>5, Zenon DEF generateChat, generateResponses, generateMessages, generateGemini
  <2> QED
    BY <2>1 DEF Send, Receive, Report, Fail
<1>6. Abandon => UNCHANGED <<made, request, reply, route>>
  BY DEF Abandon, Fail
<1>7. UNCHANGED vars => UNCHANGED <<made, request, reply, route>>
  BY DEF vars
<1> QED
  BY <1>1, <1>2, <1>3, <1>4, <1>5, <1>6, <1>7 DEF Next

\* The fourth inductive invariant of the conversation, over the others.
THEOREM DatingInvariant == Spec => []Dating
BY CarriedInvariant, TellingInvariant, KeepingInvariant, DatingInit, DatingNext, PTL DEF Spec

-----------------------------------------------------------------------------
(***************************************************************************)
(* Failed calls.                                                           *)
(***************************************************************************)
\* A valid call has arguments.
LEMMA ValidArguments ==
    ASSUME NEW req, Formed(req.messages), RequestValid(req),
           NEW x \in ToSet(Contents(req.messages)), x.type = "tool_call"
    PROVE  x.arguments # NoObject
<1>1. PICK ms : ms = req.messages
  OBVIOUS
<1>2. PICK i \in DOMAIN ms : x \in ToSet(ms[i].content)
  BY <1>1, ContentsRows
<1>3. PICK c : c = ms[i].content
  OBVIOUS
<1>4. PICK j \in DOMAIN c : x = c[j]
  BY <1>2, <1>3 DEF ToSet
<1>5. MessageValid(ms[i])
  BY <1>1, <1>2 DEF RequestValid
<1>6. ContentValid(x)
  BY <1>3, <1>4, <1>5 DEF MessageValid
<1> QED
  BY <1>6 DEF ContentValid, isJSONObject

\* A failed result, viewed by a provider.
LEMMA FailureViewed ==
    ASSUME NEW p, p \in {"anthropic", "gemini"}, NEW x, x.isError, p = "gemini" => x.form = "text"
    PROVE  ResultView(p, x).isError
<1>1. PICK b : b = CASE p = "anthropic" -> x.isError
                     [] p = "gemini" -> x.form = "text" /\ x.isError
                     [] OTHER -> FALSE
  BY Zenon
<1>2. b
  <2>1. CASE p = "anthropic"
    BY <1>1, <2>1
  <2>2. CASE p = "gemini"
    BY <1>1, <2>2, Zenon
  <2> QED
    BY <2>1, <2>2
<1>3. PICK n : n = IF p = "gemini" THEN x.name ELSE NoName
  OBVIOUS
<1>4. ResultView(p, x) = SeenResult(x.id, n, x.outcome, b)
  BY <1>1, <1>3, Zenon DEF ResultView
<1>5. SeenResult(x.id, n, x.outcome, b).isError = b
  BY DEF SeenResult
<1>6. ResultView(p, x).isError = b
  BY <1>4, <1>5, Zenon
<1> QED
  BY <1>2, <1>6, Zenon

\* The calls with the arguments of a result fared as it says.
LEMMA ResultTold ==
    ASSUME NEW req, Formed(req.messages), RequestValid(req),
           NEW C, C = Contents(req.messages), NEW M, NEW im, Faithful(C, M, im), Alike(M),
           NEW x \in ToSet(C), x.type = "tool_result",
           NEW k \in DOMAIN M, M[k].arguments = x.outcome, M[k].isError
    PROVE  x.isError /\ x.form \in {"text", "image"}
<1>1. PICK calls : calls = OfType(C, "tool_call")
  OBVIOUS
<1>2. SameCalls(calls, M) /\ IsAnswered(x, calls, M) /\ IsSeq(C)
  BY <1>1 DEF Faithful, AllAnswered
<1>3. PICK l \in 1..Len(M) : Answers(x, calls[l], M[l])
  BY <1>2 DEF IsAnswered
<1>4. /\ l \in DOMAIN M /\ l \in DOMAIN calls
      /\ calls[l].arguments = M[l].arguments
  BY <1>2, IsSeqFields DEF SameCalls
<1>5. PICK i \in DOMAIN C : calls[l] = C[i] /\ C[i].type = "tool_call"
  BY <1>1, <1>2, <1>4, OfTypeMembers
<1>6. C[i] \in ToSet(C)
  BY <1>5 DEF ToSet
<1>7. M[l].arguments # NoObject
  BY <1>4, <1>5, <1>6, ValidArguments
<1>8. M[l].arguments = M[k].arguments
  BY <1>3 DEF Answers
<1>9. M[l].isError = M[k].isError
  BY <1>4, <1>7, <1>8, Zenon DEF Alike
<1>10. M[l].isError
  BY <1>9, Zenon
<1>11. x.isError = M[l].isError /\ x.form \in {"text", "image"}
  BY <1>3, <1>10, Zenon DEF Answers
<1> QED
  BY <1>10, <1>11, Zenon

\* Before a provider, failed results are marked.
LEMMA MarkedThere == Carried /\ Keeping /\ Dating => FailuresMarked
<1> SUFFICES ASSUME Carried, Keeping, Dating, pc = "provider", route.protocol # "chat",
                    NEW part \in ToSet(Seen.parts), part.type = "result",
                    NEW k \in DOMAIN made, made[k].arguments = part.outcome, made[k].isError
             PROVE  part.isError
  BY Zenon DEF FailuresMarked
<1>1. PICK C, P, p, model : /\ C = Contents(asked.messages)
                            /\ p = route.protocol /\ model = route.model
                            /\ P = FlatMap(View(p, model, ToSet(C)), C)
  OBVIOUS
<1>2. /\ Seen.parts = P /\ IsSeq(C) /\ Faithful(C, made, PromptImages(wants))
      /\ Formed(asked.messages) /\ RequestValid(asked)
      /\ p = "gemini" => \A x \in ToSet(C) : Content!Representable(x)
      /\ p = "responses" => \A x \in ToSet(C) : x.type = "tool_result" => ~x.isError
  BY <1>1, AtProvider
<1>3. PICK pos : Sees(P, C, pos, p, model)
  BY <1>1, <1>2, SeenPlaces
<1>4. PICK j \in DOMAIN P : part = P[j]
  BY <1>2 DEF ToSet
<1>5. SeesOne(part, C, pos[j], p, model)
  BY <1>3, <1>4 DEF Sees
<1>6. /\ At(C, pos[j], "tool_result") /\ part.outcome = C[pos[j]].outcome
      /\ part = ResultView(p, C[pos[j]])
  BY <1>5 DEF SeesOne
<1>7. PICK x : x = C[pos[j]]
  OBVIOUS
<1>8. /\ x \in ToSet(C) /\ x.type = "tool_result"
      /\ part = ResultView(p, x) /\ part.outcome = x.outcome
  BY <1>6, <1>7 DEF At, ToSet
<1>9. Alike(made)
  BY DEF Dating
<1>10. x.isError /\ x.form \in {"text", "image"}
  BY <1>1, <1>2, <1>8, <1>9, ResultTold
<1>11. p \in {"chat", "responses", "anthropic", "gemini"}
  BY <1>1, Protocols DEF Carried, Outward
<1>12. p \in {"anthropic", "gemini"}
  BY <1>1, <1>2, <1>8, <1>10, <1>11
<1>13. p = "gemini" => x.form = "text"
  BY <1>2, <1>8, <1>10 DEF Content!Representable
<1> QED
  BY <1>8, <1>10, <1>12, <1>13, FailureViewed, Zenon

(***************************************************************************)
(* The result of a failed tool call reaches every provider but OpenAI Chat *)
(* as that of a failed call, whichever request made the call.              *)
(***************************************************************************)
THEOREM FailuresReachProviderMarked == Spec => []FailuresMarked
BY CarriedInvariant, KeepingInvariant, DatingInvariant, MarkedThere, PTL
=============================================================================
