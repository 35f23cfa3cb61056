-------------------------- MODULE CoordinatorClient --------------------------
(***************************************************************************)
(* How src/client.rs turns the end of one HTTP exchange with the           *)
(* coordinator into a Rust Result, and what the worker's retry loops read   *)
(* from that Result.  The module has no state: every other module uses it.  *)
(***************************************************************************)

(***************************************************************************)
(* How an exchange can end, as reqwest reports it.                          *)
(*   success        2xx status and a body that decodes                      *)
(*   badBody        2xx status, the body is cut short or does not decode    *)
(*   bodyTimeout    2xx status, the request timeout fires inside the body   *)
(*   redirection    a 3xx (or unassigned) status that reqwest returns as is *)
(*   clientError    4xx          serverError    5xx                         *)
(*   noAnswer       send() fails: timeout, connect or request error         *)
(*   redirectLimit  send() fails: more redirects than the policy follows    *)
(***************************************************************************)
Answers == {"success", "badBody", "bodyTimeout", "redirection",
            "clientError", "serverError", "noAnswer", "redirectLimit"}

\* RequestError: Transport keeps what the reqwest::Error says of itself.  The
\* Url variant needs a base URL that registration would have failed on.
Ok              == [variant |-> "Ok",              cause |-> "none"]
Permanent       == [variant |-> "Permanent",       cause |-> "none"]
InvalidResponse == [variant |-> "InvalidResponse", cause |-> "none"]
Panic           == [variant |-> "Panic",           cause |-> "none"]
Transport(c)    == [variant |-> "Transport",       cause |-> c]

\* RequestError::transient
Transient(reply) ==
  /\ reply.variant = "Transport"
  /\ reply.cause \in {"timeout", "connect", "request", "serverStatus"}

\* Coordinator::dataset.  Every failure to read the body of a 2xx answer, a
\* timeout included, becomes InvalidResponse.
DatasetReply ==
  [success       |-> Ok,
   badBody       |-> InvalidResponse,
   bodyTimeout   |-> InvalidResponse,
   redirection   |-> Permanent,
   clientError   |-> Permanent,
   serverError   |-> Transport("serverStatus"),
   noAnswer      |-> Transport("request"),
   redirectLimit |-> Transport("redirect")]

\* Coordinator::submit_bytes.  A status that is neither 2xx nor 4xx goes through
\* error_for_status().unwrap_err(), which panics when it is not a 5xx.
SubmitReply ==
  [success       |-> Ok,
   badBody       |-> Transport("decode"),
   bodyTimeout   |-> Transport("timeout"),
   redirection   |-> Panic,
   clientError   |-> Permanent,
   serverError   |-> Transport("serverStatus"),
   noAnswer      |-> Transport("request"),
   redirectLimit |-> Transport("redirect")]

\* The failure kind process_with_dataset reports for a dataset it could not get.
FetchFailureKind(reply) ==
  IF reply.variant \in {"InvalidResponse", "Permanent"}
  THEN "invalid-input" ELSE "transport-unavailable"
=============================================================================
