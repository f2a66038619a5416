----------------------------- MODULE RemoteCall -----------------------------
(***************************************************************************)
(* The two retry loops of the program: post_json, through which requests   *)
(* reach the embedding server and the language models, and HubClient._get, *)
(* through which the collector reads Docker Hub.  One client makes one     *)
(* call after another.  The remote side answers, breaks, stays silent or   *)
(* asks for patience as it likes.  Time is counted in seconds that the     *)
(* client sleeps.                                                          *)
(***************************************************************************)
EXTENDS Integers

CONSTANTS
  Clients,      \* "embed" and "llm" use post_json, "hub" is HubClient
  MaxAttempts,  \* of a call: max_retries + 1, MAX_ATTEMPTS
  MaxWait,      \* MAX_WAIT_SECONDS
  Announced,    \* waits that headers of the Hub ask for, some in the past
  MaxCalls,     \* bound on the calls made
  None

ASSUME RemoteCallAssumption ==
  /\ Clients \subseteq {"embed", "llm", "hub"}
  /\ MaxAttempts \in [Clients -> Nat \ {0}]
  /\ MaxWait \in Nat /\ MaxCalls \in Nat
  /\ Announced \subseteq Int /\ None \notin Announced

VARIABLES
  client,
  pc,        \* ready, send (about to send), flight (a request is out)
  calls,     \* calls begun
  attempt,   \* of the running or the last call
  result,    \* of the last call, None while it runs
  log,       \* the LLMCall records: how many, and the last
  sent,      \* history: requests of this call that the wire saw
  timeouts,  \* history: how many of them used up the read timeout
  waits,     \* history: how often this call slept
  slept,     \* history: for how long
  paid       \* history: the last reply reported the tokens it cost

vars == <<client, pc, calls, attempt, result, log, sent, timeouts, waits, slept,
          paid>>

(* How a request can fail: before anything was sent; by a read timeout; by *)
(* a lost connection (ReadError, RemoteProtocolError); by any other error  *)
(* in transport; with the status 429, 529, one of 500, 502, 503 and 504    *)
(* ("5xx"), or any other that is no success.                               *)
Failures == {"connect", "timeout", "dropped", "transport", "429", "5xx", "529", "other"}

NoRecord == [count |-> 0, attempts |-> 0, ok |-> FALSE, tokens |-> FALSE]

Init == /\ client \in Clients
        /\ pc = "ready" /\ calls = 0 /\ attempt = 0 /\ result = None
        /\ log = NoRecord
        /\ sent = 0 /\ timeouts = 0 /\ waits = 0 /\ slept = 0
        /\ paid = FALSE

-----------------------------------------------------------------------------
(* Mutant: a read timeout is retried on every path.                        *)
RetryableTimeouts(kind) ==
  kind \in {"connect", "timeout", "429", "5xx"}
             \union IF client = "hub" THEN {"dropped"} ELSE {"529"}

(* RETRY_STATUSES and RETRYABLE_TRANSPORT_ERRORS of the two modules.       *)
Retryable(kind) ==
  kind \in {"connect", "429", "5xx"} \union IF client = "hub" THEN {"timeout", "dropped"} ELSE {"529"}

LastAttempt == attempt = MaxAttempts[client]

(* HubClient._wait raises RateLimitWaitTooLong.                            *)
TooLong(seconds) == client = "hub" /\ seconds > MaxWait

Positive(seconds) == IF seconds > 0 THEN seconds ELSE 0

(* _wait does not sleep for a moment that has passed.                      *)
Pause(seconds) ==
  /\ slept' = slept + Positive(seconds)
  /\ waits' = waits + IF seconds > 0 THEN 1 ELSE 0

(* 2 ** attempt + random.random(), attempts counted from 0: its two ends.  *)
Backoff == {2^(attempt - 1), 2^(attempt - 1) + 1}

(* Retry-After or the reset time of a 429 from the Hub, else the backoff.  *)
RetryWait(kind) ==
  IF client = "hub" /\ kind = "429" THEN Backoff \union Announced ELSE Backoff

(* SchemaLLMProvider._record.                                              *)
Recorded(ok, tokens) ==
  IF client # "llm" THEN log
  ELSE [count |-> log.count + 1, attempts |-> attempt, ok |-> ok, tokens |-> tokens]

End(outcome, tokens) ==
  /\ pc' = "ready"
  /\ result' = outcome
  /\ log' = Recorded(outcome = "answer", tokens)
  /\ UNCHANGED <<client, calls, attempt, sent>>

-----------------------------------------------------------------------------
Call ==
  /\ pc = "ready" /\ calls < MaxCalls
  /\ calls' = calls + 1
  /\ pc' = "send" /\ attempt' = 0 /\ result' = None
  /\ sent' = 0 /\ timeouts' = 0 /\ waits' = 0 /\ slept' = 0 /\ paid' = FALSE
  /\ UNCHANGED <<client, log>>

Send ==
  /\ pc = "send"
  /\ pc' = "flight"
  /\ attempt' = attempt + 1
  /\ sent' = sent + 1
  /\ UNCHANGED <<client, calls, result, log, timeouts, waits, slept, paid>>

Retry(kind, seconds) ==
  /\ Retryable(kind) /\ ~LastAttempt /\ ~TooLong(seconds)
  /\ pc' = "send"
  /\ Pause(seconds)
  /\ UNCHANGED <<client, calls, attempt, result, log, sent>>

(* Mutant: the loop sleeps after its last attempt too.                     *)
GiveUpAfterWait(kind, seconds) ==
  /\ Retryable(kind) /\ (LastAttempt \/ TooLong(seconds))
  /\ Pause(IF TooLong(seconds) THEN 0 ELSE seconds)
  /\ End("error", FALSE)

(* No attempt is left, or the wait would be too long.                      *)
GiveUp(kind, seconds) ==
  /\ Retryable(kind) /\ (LastAttempt \/ TooLong(seconds))
  /\ End("error", FALSE)
  /\ UNCHANGED <<waits, slept>>

Refuse(kind) ==
  /\ ~Retryable(kind)
  /\ End("error", FALSE)
  /\ UNCHANGED <<waits, slept>>

Fails ==
  /\ pc = "flight"
  /\ UNCHANGED paid
  /\ \E kind \in Failures :
       /\ timeouts' = timeouts + IF kind = "timeout" THEN 1 ELSE 0
       /\ \/ Refuse(kind)
          \/ \E seconds \in RetryWait(kind) : Retry(kind, seconds) \/ GiveUp(kind, seconds)

(* A 403 of the Hub at the offset limit: not an error, not retried.        *)
OffsetLimit ==
  /\ pc = "flight" /\ client = "hub"
  /\ End("offset", FALSE)
  /\ UNCHANGED <<timeouts, waits, slept, paid>>

(* Mutant: the usage is read after the validation.                         *)
BrokenAnswerUnpaid(tokens) == End("error", FALSE)

(* A status below 400 with a body that is no JSON or breaks the contract;  *)
(* the tokens that it reports were spent and are recorded.                 *)
BrokenAnswer(tokens) == End("error", tokens)

(* The checks of embed catch a missing key, not an embedding without a     *)
(* length: len(vector) raises a TypeError, which is no RemoteCallError.    *)
NullEmbedding ==
  /\ pc = "flight" /\ client = "embed"
  /\ End("TypeError", FALSE)
  /\ UNCHANGED <<timeouts, waits, slept, paid>>

Posted ==
  /\ pc = "flight" /\ client # "hub"
  /\ \E tokens \in BOOLEAN : /\ paid' = tokens
                            /\ (BrokenAnswer(tokens) \/ End("answer", tokens))
  /\ UNCHANGED <<timeouts, waits, slept>>

(* An answer of the Hub.  If few requests remain the client waits for the  *)
(* reset first; if that is too far it throws the answer away.              *)
Got ==
  /\ pc = "flight" /\ client = "hub"
  /\ UNCHANGED <<timeouts, paid>>
  /\ \/ End("answer", FALSE) /\ UNCHANGED <<waits, slept>>
     \/ \E reset \in Announced :
          \/ /\ ~TooLong(reset)
             /\ Pause(reset)
             /\ End("answer", FALSE)
          \/ /\ TooLong(reset)
             /\ End("error", FALSE)
             /\ UNCHANGED <<waits, slept>>

Next == Call \/ Send \/ Fails \/ OffsetLimit \/ NullEmbedding \/ Posted \/ Got

Spec == Init /\ [][Next]_vars

-----------------------------------------------------------------------------
Results == {"answer", "error", "offset", "TypeError"}

(* Every variable keeps its type; no call makes more attempts than it may. *)
TypeOK ==
  /\ client \in Clients
  /\ pc \in {"ready", "send", "flight"}
  /\ calls \in 0..MaxCalls
  /\ attempt \in 0..MaxAttempts[client]
  /\ result \in Results \union {None}
  /\ log.count \in 0..MaxCalls /\ log.attempts \in Nat
  /\ {sent, timeouts, waits, slept} \subseteq Nat

(* A call of the request path uses up the read timeout at most once, and   *)
(* then it is over: httpclient.py counts on it for a quick degraded answer.*)
OneTimeoutAtMost ==
  client # "hub" => /\ timeouts <= 1
                    /\ timeouts = 1 => pc = "ready" /\ result = "error"

(* A call that fails fails at once after its last request: every sleep of  *)
(* it was followed by a request.                                           *)
NoIdleBeforeFailure ==
  pc = "ready" /\ result \notin {None, "answer"} => waits < sent

(* Every call of a language model leaves one record, whether it succeeds   *)
(* or not, with the number of requests that the wire saw, its outcome, and *)
(* the tokens if the last reply reported any, valid or not (LLMCall).      *)
RecordsMatchWire ==
  client = "llm" =>
    /\ log.count = IF pc = "ready" THEN calls ELSE calls - 1
    /\ pc = "ready" /\ calls > 0 => /\ log.attempts = sent
                                   /\ log.ok = (result = "answer")
                                   /\ log.tokens = paid

(* The docstring of RemoteCallError: a failed call or an answer that       *)
(* breaks the contract is a RemoteCallError, so that the ladder goes on.   *)
BreachesAreRemoteCallErrors ==
  client # "hub" /\ pc = "ready" => result \in {None, "answer", "error"}
=============================================================================
