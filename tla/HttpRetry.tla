------------------------------ MODULE HttpRetry ------------------------------
(***************************************************************************)
(* The HTTP client of sflang/src/http_lite.rs: http_request_with_retry     *)
(* over do_http_request, as getWeb and its relatives use it, the file a    *)
(* body is streamed into, and the global counters of HTTP_STATS.           *)
(*                                                                         *)
(* A response is its status, and is named after the attempt it answers.    *)
(* ureq and the server are external: a request may be lost on its way,     *)
(* answered, or answered and lost on the way back.                         *)
(***************************************************************************)
EXTENDS Naturals, FiniteSets

CONSTANTS
  Clients,     \* threads that make requests
  MaxRetries,  \* bound on the retries asked for
  Retrying,    \* bound: the clients that ask for any
  MaxCalls,    \* bound on the calls of each client
  MaxResets,   \* bound on resetHttpStats
  None

VARIABLES
  pc,        \* "idle", "begin", "sent", "reading", "retry"
  retries,   \* asked for by the call
  attempt,
  calls,
  response,  \* the response being read: [id, status]
  file,      \* the client's file: [id, whole]; None before the first
  result,    \* of the last call: a response, or None while it runs and after an error
  total_requests, success_count, failure_count, retry_attempts,
  resetting, \* counters resetHttpStats has still to store, None outside it
  resets,
  retried,   \* history: retries begun since the last reset, 0 once mixed
  mixed      \* history: a reset overlapped a request

stats == <<total_requests, success_count, failure_count, retry_attempts>>
vars == <<pc, retries, attempt, calls, response, file, result, stats,
          resetting, resets, retried, mixed>>

Statuses == {"fine", "retryable"}  \* retryable: 429 and 5xx
Responses == [id : Nat \X Nat, status : Statuses]

Init ==
  /\ pc = [c \in Clients |-> "idle"]
  /\ retries = [c \in Clients |-> 0]
  /\ attempt = [c \in Clients |-> 0]
  /\ calls = [c \in Clients |-> 0]
  /\ response = [c \in Clients |-> None]
  /\ file = [c \in Clients |-> None]
  /\ result = [c \in Clients |-> None]
  /\ total_requests = 0 /\ success_count = 0 /\ failure_count = 0 /\ retry_attempts = 0
  /\ resetting = None /\ resets = 0
  /\ retried = 0
  /\ mixed = FALSE

InFlight == {c \in Clients : pc[c] \in {"sent", "reading"}}

\* The retries a call may ask for.
Asked(c) == IF c \in Retrying THEN 0..MaxRetries ELSE {0}

\* http_request_with_retry is entered.
Call(c) ==
  /\ pc[c] = "idle" /\ calls[c] < MaxCalls
  /\ calls' = [calls EXCEPT ![c] = @ + 1]
  /\ \E n \in Asked(c) : retries' = [retries EXCEPT ![c] = n]
  /\ attempt' = [attempt EXCEPT ![c] = 0]
  /\ result' = [result EXCEPT ![c] = None]
  /\ pc' = [pc EXCEPT ![c] = "begin"]
  /\ UNCHANGED <<response, file, stats, resetting, resets, retried, mixed>>

\* do_http_request begins: the attempt is counted, whatever becomes of it.
Begin(c) ==
  /\ pc[c] = "begin"
  /\ total_requests' = total_requests + 1
  /\ mixed' = (mixed \/ resetting # None)
  /\ pc' = [pc EXCEPT ![c] = "sent"]
  /\ UNCHANGED <<retries, attempt, calls, response, file, result,
                 success_count, failure_count, retry_attempts, resetting, resets, retried>>

\* A bug for the checks: one attempt more than there are.
BugAfterError(c) ==
  IF attempt[c] <= retries[c]
  THEN pc' = [pc EXCEPT ![c] = "retry"]
  ELSE pc' = [pc EXCEPT ![c] = "idle"]

\* Where the loop goes after an attempt that gave an error: to the next one, while
\* there is one.
AfterError(c) ==
  IF attempt[c] < retries[c]
  THEN pc' = [pc EXCEPT ![c] = "retry"]
  ELSE pc' = [pc EXCEPT ![c] = "idle"]

\* No agent, no connection, a timeout, or no file to stream into: the attempt fails,
\* whether the server has served it or not.
Fail(c) ==
  /\ pc[c] = "sent"
  /\ failure_count' = failure_count + 1
  /\ AfterError(c)
  /\ UNCHANGED <<retries, attempt, calls, response, file, result, total_requests,
                 success_count, retry_attempts, resetting, resets, retried, mixed>>

\* A bug for the checks: the file is opened to be appended to, or kept.
BugCreated(c, r) == IF file[c] = None THEN [id |-> r.id, whole |-> FALSE] ELSE file[c]

\* File::create before the body is read: what an earlier attempt left is gone.
Created(c, r) == [id |-> r.id, whole |-> FALSE]

\* The head of a response arrives.
Answer(c) ==
  /\ pc[c] = "sent"
  /\ \E s \in Statuses :
       LET r == [id |-> <<calls[c], attempt[c]>>, status |-> s] IN
       /\ response' = [response EXCEPT ![c] = r]
       /\ file' = [file EXCEPT ![c] = Created(c, r)]
  /\ pc' = [pc EXCEPT ![c] = "reading"]
  /\ UNCHANGED <<retries, attempt, calls, result, stats, resetting, resets, retried, mixed>>

\* The body breaks off, outgrows maxSize, or the disk is full: an error like the others.
ReadFails(c) ==
  /\ pc[c] = "reading"
  /\ failure_count' = failure_count + 1
  /\ AfterError(c)
  /\ response' = [response EXCEPT ![c] = None]
  /\ UNCHANGED <<retries, attempt, calls, file, result, total_requests,
                 success_count, retry_attempts, resetting, resets, retried, mixed>>

\* A bug for the checks: a response that will be retried is not counted.
BugSucceeded(r) == IF r.status = "retryable" THEN success_count ELSE success_count + 1

\* HTTP_STATS counts every response read to its end, whatever its status.
Succeeded(r) == success_count + 1

\* The body is read to its end.  429 and 5xx are tried again while attempts are left.
Read(c) ==
  LET again == response[c].status = "retryable" /\ attempt[c] < retries[c] IN
  /\ pc[c] = "reading"
  /\ file' = [file EXCEPT ![c].whole = TRUE]
  /\ success_count' = Succeeded(response[c])
  /\ pc' = [pc EXCEPT ![c] = IF again THEN "retry" ELSE "idle"]
  /\ result' = [result EXCEPT ![c] = IF again THEN None ELSE response[c]]
  /\ response' = [response EXCEPT ![c] = None]
  /\ UNCHANGED <<retries, attempt, calls, total_requests, failure_count,
                 retry_attempts, resetting, resets, retried, mixed>>

\* The next round of the loop: the retry is counted, then slept for.
Retry(c) ==
  /\ pc[c] = "retry"
  /\ attempt' = [attempt EXCEPT ![c] = @ + 1]
  /\ retry_attempts' = retry_attempts + 1
  /\ mixed' = (mixed \/ resetting # None)
  /\ retried' = IF mixed' THEN 0 ELSE retried + 1
  /\ pc' = [pc EXCEPT ![c] = "begin"]
  /\ UNCHANGED <<retries, calls, response, file, result, total_requests, success_count,
                 failure_count, resetting, resets>>

\* resetHttpStats: four stores, one after the other.
Reset ==
  /\ resetting = None /\ resets < MaxResets
  /\ resets' = resets + 1
  /\ total_requests' = 0
  /\ resetting' = 3
  /\ retried' = 0
  /\ mixed' = (mixed \/ InFlight # {})
  /\ UNCHANGED <<pc, retries, attempt, calls, response, file, result,
                 success_count, failure_count, retry_attempts>>

ResetStep ==
  /\ resetting # None
  /\ resetting' = IF resetting = 1 THEN None ELSE resetting - 1
  /\ success_count' = IF resetting = 3 THEN 0 ELSE success_count
  /\ failure_count' = IF resetting = 2 THEN 0 ELSE failure_count
  /\ retry_attempts' = IF resetting = 1 THEN 0 ELSE retry_attempts
  /\ UNCHANGED <<pc, retries, attempt, calls, response, file, result, total_requests,
                 resets, retried, mixed>>

Next ==
  \/ \E c \in Clients :
       Call(c) \/ Begin(c) \/ Fail(c) \/ Answer(c) \/ ReadFails(c) \/ Read(c) \/ Retry(c)
  \/ Reset \/ ResetStep

Spec == Init /\ [][Next]_vars

-----------------------------------------------------------------------------
TypeOK ==
  /\ pc \in [Clients -> {"idle", "begin", "sent", "reading", "retry"}]
  /\ retries \in [Clients -> 0..MaxRetries]
  /\ attempt \in [Clients -> 0..MaxRetries]
  /\ calls \in [Clients -> 0..MaxCalls]
  /\ response \in [Clients -> Responses \cup {None}]
  /\ file \in [Clients -> [id : Nat \X Nat, whole : BOOLEAN] \cup {None}]
  /\ result \in [Clients -> Responses \cup {None}]
  /\ \A n \in {total_requests, success_count, failure_count, retry_attempts} : n \in Nat
  /\ resetting \in {None, 1, 2, 3}
  /\ resets \in 0..MaxResets
  /\ retried \in Nat
  /\ mixed \in BOOLEAN

\* getHttpStats adds up: every attempt counted is under way, a success or a failure, and
\* every retry is counted, resets included, as long as none overlapped an attempt.
RequestsAreCounted ==
  ~mixed /\ resetting = None
    => /\ total_requests = success_count + failure_count + Cardinality(InFlight)
       /\ retry_attempts = retried

\* A file a call streamed into holds the whole body of the response it returned, and
\* nothing of a response that was tried again before.
SavedIsReturned ==
  \A c \in Clients :
    result[c] # None => file[c] = [id |-> result[c].id, whole |-> TRUE]

\* No call makes more attempts than it was allowed, and an answer that would be tried
\* again is returned only when no attempt is left.
AttemptsAreBounded ==
  \A c \in Clients :
    /\ attempt[c] <= retries[c]
    /\ pc[c] = "idle" /\ result[c] # None /\ result[c].status = "retryable"
         => attempt[c] = retries[c]
=============================================================================
