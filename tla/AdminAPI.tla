------------------------------ MODULE AdminAPI ------------------------------
(***************************************************************************)
(* The administrative API as its clients see it: entity tags, If-Match,    *)
(* the status a failed call is answered with, and what the UI's client     *)
(* (DaprAPI) makes of an answer or of its absence.                         *)
(*                                                                         *)
(* A representation is whatever the resource's JSON says; its entity tag   *)
(* is a digest of that, so two tags are equal exactly if the two           *)
(* representations are.                                                    *)
(***************************************************************************)
EXTENDS Naturals

entityETag(representation) == <<"digest", representation>>

\* The If-Match header of a request: absent, a wildcard or a list of tags.
Unconditional == [present |-> FALSE, wildcard |-> FALSE, tags |-> {}]
Wildcard == [present |-> TRUE, wildcard |-> TRUE, tags |-> {}]
IfMatch(tag, weak) ==
    [present |-> TRUE, wildcard |-> FALSE, tags |-> {[value |-> tag, weak |-> weak]}]

\* Mutant of enforceIfMatch: the header is read and not compared.
enforcePresence(precondition, current) == TRUE

\* Weak tags never satisfy a precondition.
enforceIfMatch(precondition, current) ==
    \/ ~precondition.present
    \/ precondition.wildcard
    \/ \E tag \in precondition.tags :
          ~tag.weak /\ tag.value = entityETag(current)

\* writeError: the status of each error of a service.
writeError(error) ==
    CASE error = "validation" -> 400
      [] error = "notFound" -> 404
      [] error = "conflict" -> 409
      [] error = "unauthorized" -> 401
      [] error = "forbidden" -> 403
      [] error = "unavailable" -> 503
      [] OTHER -> 500

\* What InvokeMethod returns: a status, or nothing that can be read.
NoResponse == 0
Success(status) == status \in 200..299

\* Mutant of Ambiguous: only a missing answer leaves the outcome open.
AmbiguousIfSilent(mutation, status) == mutation /\ status = NoResponse

\* invokeRequest: an answer that does not settle whether a mutation was made.
Ambiguous(mutation, status) ==
    mutation /\ (status = NoResponse \/ status >= 500)

\* The body of a mutation has no known length, so Dapr sends it only once
\* (invokeWithoutRetries).
Deliveries == 1
=============================================================================
