----------------------------- MODULE ApiRequest -----------------------------
(***************************************************************************)
(* One request of the API client (execute and makeHttpClient in            *)
(* datasources/api/index.ts): attempts are counted below two nested loops  *)
(* of retries.  The rate limiter repeats an attempt answered 429; execute  *)
(* repeats what failed otherwise, when a transport error or a transient    *)
(* status tells so, and starts the limiter's count anew.                   *)
(***************************************************************************)
EXTENDS Integers

CONSTANTS
    Retries,       \* MAX_RETRIES of execute
    LimitRetries,  \* MAX_RETRIES given to withRateLimiter
    Faults,        \* how an attempt may fail: a subset of AnyFault
    Missing        \* no request is in flight, or no response arrived yet

\* A 429; a transport error or a status in RETRYABLE_STATUSES; another status,
\* or a body that is not JSON.
AnyFault == {"limited", "transient", "fatal"}

ASSUME RequestAssumption ==
    /\ Retries \in Nat
    /\ LimitRetries \in Nat
    /\ Faults \subseteq AnyFault

VARIABLES
    request,   \* the request in flight
    attempts   \* stacksindex.api.responses: attempts of this request

requestVars == <<request, attempts>>

NewRequest == [retries |-> 0, limited |-> 0, response |-> Missing]

\* What answers an attempt: a success with its payload, or a fault.
Response(payloads) ==
    [type: {"ok"}, payload: payloads] \cup [type: AnyFault, payload: {Missing}]
Request(payloads) ==
    [retries: 0..Retries, limited: 0..LimitRetries,
     response: Response(payloads) \cup {Missing}]

RequestInit == request = Missing /\ attempts = 0

\* A client method is called.
Send ==
    /\ request = Missing
    /\ request' = NewRequest
    /\ UNCHANGED attempts

InFlight == request # Missing /\ request.response = Missing

\* An attempt is answered, and counted whatever the answer.
Respond(payload) ==
    /\ InFlight
    /\ \E response \in Response({payload}) :
         /\ response.type \in Faults \cup {"ok"}
         /\ request' = [request EXCEPT !.response = response]
    /\ attempts' = attempts + 1

Arrived(type) ==
    request # Missing /\ request.response # Missing /\ request.response.type = type

\* withRateLimiter
RetryLimited ==
    /\ Arrived("limited")
    /\ request.limited < LimitRetries
    /\ request' = [request EXCEPT !.limited = @ + 1, !.response = Missing]
    /\ UNCHANGED attempts

\* Mutant of RetryTransient: the retries are not counted.
RetryTransientForever ==
    /\ Arrived("transient")
    /\ request' = [request EXCEPT !.limited = 0, !.response = Missing]
    /\ UNCHANGED attempts

\* execute, isRetryable
RetryTransient ==
    /\ Arrived("transient")
    /\ request.retries < Retries
    /\ request' = [request EXCEPT !.retries = @ + 1, !.limited = 0,
                                  !.response = Missing]
    /\ UNCHANGED attempts

\* The request fails: what arrived is not retried, or not any more.
Failed ==
    \/ Arrived("fatal")
    \/ Arrived("limited") /\ request.limited = LimitRetries
    \/ Arrived("transient") /\ request.retries = Retries

\* The request succeeds.
Answered == Arrived("ok")

\* Its caller goes on.
Return == request' = Missing /\ attempts' = 0

RetryStep == RetryLimited \/ RetryTransient

-----------------------------------------------------------------------------

\* api/index.ts:184 MAX_RETRIES bounds both loops: whatever mixture of 429s
\* and transient failures an endpoint answers with, one request makes no more
\* attempts than every retry of execute with a full round of the limiter.
AttemptsBounded == attempts <= (Retries + 1) * (LimitRetries + 1)

=============================================================================
