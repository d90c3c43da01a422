------------------------------- MODULE LlmClient -------------------------------
(***************************************************************************)
(* llm/base.py and llm/lmstudio_client.py: one call of a policy stage, its *)
(* attempts over HTTP, and the per-stage counters of the client.           *)
(*                                                                         *)
(* The server is not under src/.  It may lose a request, answer it late,   *)
(* or answer it after the client has given the attempt up: each attempt    *)
(* has a connection of its own, and what arrives on a closed one is lost.  *)
(***************************************************************************)
EXTENDS Integers, FiniteSets, Sequences

CONSTANTS
  Tasks,        \* stage names
  MaxRetries,   \* max_retries
  MaxCalls,     \* model bound on the calls of a stage
  MaxAttempts   \* model bound on the attempts of a call, beyond what is allowed

ASSUME RetriesAssumption ==
  /\ MaxRetries \in Nat /\ MaxCalls \in Nat
  /\ MaxAttempts \in Nat /\ MaxAttempts > MaxRetries + 1

VARIABLES
  phase,      \* "idle", "send" or "wait"
  task,       \* the stage of the call under way, or of the last one
  attempt,    \* attempt
  calls, successes, errors,   \* call_counts, success_counts, error_counts
  server,     \* attempts of this call that the server works on
  (* history variables *)
  failures,   \* what ended each attempt of this call that did not succeed
  generated   \* how often the server did the work of this call

counters == <<calls, successes, errors>>
vars == <<phase, task, attempt, counters, server, failures, generated>>

Zero == [t \in Tasks |-> 0]

Init ==
  /\ phase = "idle" /\ task \in Tasks /\ attempt = 0
  /\ calls = Zero /\ successes = Zero /\ errors = Zero
  /\ server = {} /\ failures = << >> /\ generated = 0

-----------------------------------------------------------------------------
\* What an HTTP exchange can come to.  A payload is a JSON object with a text, a
\* JSON object without one, or no JSON object at all; statuses are those in
\* TRANSIENT_STATUS_CODES and the others from 400 on.
Transport == "transport"
Transient == "transient status"
Permanent == "permanent status"
NoJson == "no JSON object"
NoText == "no text"
Answers == {"text", Transient, Permanent, NoJson, NoText}

Begin(t) ==
  /\ phase = "idle" /\ calls[t] < MaxCalls
  /\ task' = t
  /\ calls' = [calls EXCEPT ![t] = @ + 1]
  /\ attempt' = 0 /\ server' = {} /\ failures' = << >> /\ generated' = 0

\* _dispatch_request of a request that resolves to a model.
Dispatch(t) ==
  /\ Begin(t)
  /\ phase' = "send"
  /\ UNCHANGED <<successes, errors>>

\* complete_chat raises before anything is sent when no model is configured.
DispatchWithoutModel(t) ==
  /\ Begin(t)
  /\ errors' = [errors EXCEPT ![t] = @ + 1]
  /\ UNCHANGED <<phase, successes>>

RetryableTooMuch(answer) == answer \in {Transport, Transient, NoJson}

Retryable(answer) == answer \in {Transport, Transient}

RetriesForever(n) == TRUE

MayRetry(n) == n < MaxRetries

FailAttemptUncounted(answer) ==
  /\ failures' = Append(failures, answer)
  /\ IF Retryable(answer) /\ MayRetry(attempt)
     THEN attempt' = attempt + 1 /\ phase' = "send"
     ELSE phase' = "idle" /\ UNCHANGED attempt
  /\ UNCHANGED <<task, calls, successes, errors>>

\* The attempt failed: sleep and try again, or raise out of _dispatch_request.
FailAttempt(answer) ==
  /\ failures' = Append(failures, answer)
  /\ IF Retryable(answer) /\ MayRetry(attempt)
     THEN attempt' = attempt + 1 /\ phase' = "send" /\ UNCHANGED errors
     ELSE phase' = "idle" /\ errors' = [errors EXCEPT ![task] = @ + 1] /\ UNCHANGED attempt
  /\ UNCHANGED <<task, calls, successes>>

\* client.request: the request reaches the server, or is lost on its way.
Send ==
  /\ phase = "send" /\ attempt < MaxAttempts
  /\ phase' = "wait"
  /\ server' \in {server, server \cup {attempt}}
  /\ UNCHANGED <<task, attempt, counters, failures, generated>>

\* The server completes an attempt the client still waits for.
Answer(answer) ==
  /\ phase = "wait" /\ attempt \in server
  /\ server' = server \ {attempt}
  /\ generated' = generated + 1
  /\ IF answer = "text"
     THEN /\ phase' = "idle"
          /\ successes' = [successes EXCEPT ![task] = @ + 1]
          /\ UNCHANGED <<task, attempt, calls, errors, failures>>
     ELSE FailAttempt(answer)

\* TimeoutException or TransportError: the server may be at work, or down.
TimeOut ==
  /\ phase = "wait"
  /\ FailAttempt(Transport)
  /\ UNCHANGED <<server, generated>>

\* The server completes an attempt that was given up: nobody reads the answer.
AnswerTooLate(n) ==
  /\ n \in server /\ (phase = "wait" => n # attempt)
  /\ server' = server \ {n}
  /\ generated' = generated + 1
  /\ UNCHANGED <<phase, task, attempt, counters, failures>>

Client == Send \/ TimeOut \/ \E answer \in Answers : Answer(answer)

Next ==
  \/ \E t \in Tasks : Dispatch(t) \/ DispatchWithoutModel(t)
  \/ Client
  \/ \E n \in server : AnswerTooLate(n)

Spec == Init /\ [][Next]_vars

\* The client is a thread that runs, and its requests have a timeout.  Nothing is
\* assumed of the server.
FairSpec == Spec /\ WF_vars(Client)

-----------------------------------------------------------------------------
TypeOK ==
  /\ phase \in {"idle", "send", "wait"} /\ task \in Tasks /\ attempt \in 0..MaxRetries
  /\ {calls, successes, errors} \subseteq [Tasks -> 0..MaxCalls]
  /\ server \subseteq 0..MaxRetries
  /\ failures \in Seq(Answers \cup {Transport})

\* The stage metrics add up: a call under way is neither a success nor an error
\* yet, and every other call is exactly one of them.
CountsAddUp ==
  \A t \in Tasks :
    calls[t] = successes[t] + errors[t] + (IF phase # "idle" /\ task = t THEN 1 ELSE 0)

\* Whatever was lost or late, the server never does the work of one call more
\* than max_retries + 1 times.
BoundedDuplication == generated + Cardinality(server) =< MaxRetries + 1

\* Only a transport failure or a transient status is followed by another attempt:
\* a request the server refused or answered badly is not sent again.
RefusedIsNotRepeated ==
  \A i \in 1..Len(failures) :
    i < Len(failures) \/ phase # "idle" => failures[i] \in {Transport, Transient}

\* Every call returns or raises, even when the server never answers.
CallEnds == phase # "idle" ~> phase = "idle"
=============================================================================
