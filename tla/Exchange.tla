------------------------------ MODULE Exchange ------------------------------
(***************************************************************************)
(* One attempt to deliver a batch, end to end: the HTTP transport of the   *)
(* SDK (transport.ts), what stands between it and the service in the API   *)
(* (the body parser's errors, the validation pipe, the exception filter),  *)
(* the status each failure of the service becomes, and what the transport  *)
(* makes of it.                                                            *)
(*                                                                         *)
(* An attempt is                                                           *)
(*   batch    [events, dropped, deliveryId, serializable, size]: what the  *)
(*            client gives the transport; size is "fits" or "large", of    *)
(*            the body against the parser's limit;                         *)
(*   link     "up", "refused" (nothing reached the server), "lost" (the    *)
(*            answer did not come back) or "busy": something in front of   *)
(*            the server answered that it should be tried later;           *)
(*   busy     the status of that answer;                                   *)
(*   failure  what the persistence of the batch ran into, or absent;       *)
(*   readable whether the answer's body can be understood.                 *)
(***************************************************************************)
EXTENDS WireContract

MAX_DROPPED_SINCE_LAST_BATCH == 2147483647

-----------------------------------------------------------------------------
(* The client. *)

\* The body JSON.stringify makes: a field without an opinion is left out, a zero is not.
bodyOf(batch) ==
    [f \in {g \in {"events", "dropped", "deliveryId"} : batch[g] # absent} |-> batch[f]]

isRetryableStatus(status) == status \in {408, 425, 429} \/ status >= 500

-----------------------------------------------------------------------------
(* The server. *)

\* 400 and not the parser's own 413. A body that is not JSON, the other case, does not come
\* from this client.
bodyParserErrorHandler(size) == IF size = "large" THEN 400 ELSE 200

\* zodBody(IngestRequestSchema)
validRequest(body) ==
    /\ IngestRequestSchema(body.events)
    /\ "dropped" \in DOMAIN body => body.dropped \in 0..MAX_DROPPED_SINCE_LAST_BATCH
    /\ "deliveryId" \in DOMAIN body => body.deliveryId \in Accepts("id")

KNOWN_DEPENDENCY_UNAVAILABLE_CODES == {"ECONNREFUSED", "P2021", "P2022", "P2024", "P2028"}

RETRYABLE_RAW_QUERY_SQLSTATES == {"57014"}

\* An error has the name of its class, and a code and SQLSTATE or absent; "P10xx" stands
\* for the codes of that form, the initialization error for all without a code.
isKnownDependencyUnavailable(error) ==
    CASE error.name = "Error" -> FALSE    \* none of Prisma's
      [] error.name = "PrismaClientInitializationError" -> TRUE
      [] error.name = "PrismaClientKnownRequestError" ->
           IF error.code = "P2010" THEN error.sqlState \in RETRYABLE_RAW_QUERY_SQLSTATES
           ELSE error.code \in KNOWN_DEPENDENCY_UNAVAILABLE_CODES \cup {"P10xx"}

classifyPersistenceFailure(error) == IF isKnownDependencyUnavailable(error) THEN 503 ELSE 500

\* The status of one request, by way of AllExceptionsFilter.
ingestStatus(body, size, failure) ==
    CASE bodyParserErrorHandler(size) # 200 -> 400
      [] bodyParserErrorHandler(size) = 200 /\ ~validRequest(body) -> 400
      [] OTHER -> IF failure = absent THEN 200 ELSE classifyPersistenceFailure(failure)

-----------------------------------------------------------------------------

\* createHttpTransport's send.
send(attempt) ==
    LET body == bodyOf(attempt.batch)
        status == IF attempt.link = "up"
                  THEN ingestStatus(body, attempt.batch.size, attempt.failure) ELSE attempt.busy
    IN CASE ~attempt.batch.serializable -> [outcome |-> "permanent"]
         [] attempt.batch.serializable /\ attempt.link \in {"refused", "lost"} -> [outcome |-> "retryable"]
         [] OTHER ->
              IF status = 200 THEN [outcome |-> "delivered", response |-> attempt.readable]
              ELSE IF isRetryableStatus(status) THEN [outcome |-> "retryable"]
              ELSE [outcome |-> "permanent"]

\* What the service commits in the attempt: everything, nothing, or some of the groups.
Committed(attempt) ==
    CASE ~attempt.batch.serializable \/ attempt.link \notin {"up", "lost"} -> "nothing"
      [] OTHER -> IF ingestStatus(bodyOf(attempt.batch), attempt.batch.size, absent) # 200 THEN "nothing"
                  ELSE IF attempt.failure = absent THEN "everything" ELSE "some"

Healthy(attempt) == [attempt EXCEPT !.link = "up", !.failure = absent]

(***************************************************************************)
(* The client gives a batch up only if no attempt could ever deliver it:   *)
(* "permanent" never meets a batch the server would take or has taken in   *)
(* part, whatever failed in front of it or in its database.  It calls a    *)
(* batch delivered only if all of it was stored, whether or not the answer *)
(* can be read, so a stored batch is sent again only when no answer came.  *)
(***************************************************************************)
OutcomeIsWhatHappened(attempt) ==
    LET outcome == send(attempt).outcome
    IN /\ outcome = "permanent" =>
            send(Healthy(attempt)).outcome = "permanent" /\ Committed(attempt) = "nothing"
       /\ outcome = "delivered" => Committed(attempt) = "everything"
       /\ Committed(attempt) = "everything" => outcome = "delivered" \/ attempt.link = "lost"
=============================================================================
