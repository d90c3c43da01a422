---------------------------- MODULE LlmClientProofs ----------------------------
(***************************************************************************)
(* Proofs about the calls of the LLM client, for every set of stages,      *)
(* every max_retries and however the server loses, delays or duplicates    *)
(* work: the stage counters add up, the server never does the work of a    *)
(* call more than max_retries + 1 times, and only what may be retried is.  *)
(***************************************************************************)
EXTENDS LlmClient, FiniteSetTheorems, TLAPS

Outcomes == Answers \cup {Transport}

(***************************************************************************)
(* What the invariants leave out.  The attempts that reached the server    *)
(* are among those made, and one that is still to be sent did not; so each *)
(* of them is either finished (generated) or in server, never both.        *)
(***************************************************************************)
Typing ==
  /\ phase \in {"idle", "send", "wait"} /\ task \in Tasks /\ attempt \in 0..MaxRetries
  /\ calls \in [Tasks -> 0..MaxCalls]
  /\ successes \in [Tasks -> Nat] /\ errors \in [Tasks -> Nat]
  /\ generated \in Nat
  /\ failures \in Seq(Outcomes)

SentOnce ==
  /\ server \subseteq 0..attempt
  /\ phase = "send" => attempt \notin server
  /\ generated + Cardinality(server) =< IF phase = "send" THEN attempt ELSE attempt + 1

IInv == Typing /\ CountsAddUp /\ SentOnce /\ RefusedIsNotRepeated

-----------------------------------------------------------------------------
(* Lemmas. *)

\* The attempts of a call are finitely many, and one more or one less counts.
LEMMA AttemptsAreCounted ==
  ASSUME NEW m \in Nat, NEW S \in SUBSET (0..m), NEW n \in 0..m
  PROVE  /\ IsFiniteSet(S) /\ Cardinality(S) \in Nat
         /\ n \in S => Cardinality(S \ {n}) = Cardinality(S) - 1
         /\ n \notin S => Cardinality(S \cup {n}) = Cardinality(S) + 1
<1>1. IsFiniteSet(0..m)
  BY FS_Interval
<1>2. IsFiniteSet(S) /\ Cardinality(S) \in Nat
  BY <1>1, FS_Subset, FS_CardinalityType
<1>3. QED
  BY <1>2, FS_AddElement, FS_RemoveElement

\* An attempt that fails while the client waits: what becomes of the call, its
\* counters and its history, whatever became of the server.
LEMMA FailAttemptStep ==
  ASSUME IInv, NEW answer \in Outcomes, phase = "wait", FailAttempt(answer)
  PROVE  /\ phase' \in {"idle", "send", "wait"} /\ task' \in Tasks
         /\ attempt' \in 0..MaxRetries
         /\ calls' \in [Tasks -> 0..MaxCalls]
         /\ successes' \in [Tasks -> Nat] /\ errors' \in [Tasks -> Nat]
         /\ failures' \in Seq(Outcomes)
         /\ CountsAddUp'
         /\ RefusedIsNotRepeated'
         /\ \/ phase' = "send" /\ attempt' = attempt + 1
            \/ phase' = "idle" /\ attempt' = attempt
<1>1. /\ failures' \in Seq(Outcomes) /\ Len(failures') = Len(failures) + 1
      /\ \A i \in 1..Len(failures) : failures'[i] = failures[i]
      /\ failures'[Len(failures) + 1] = answer
  <2>1. failures \in Seq(Outcomes) /\ failures' = Append(failures, answer)
    BY DEF FailAttempt, IInv, Typing
  <2>2. QED BY <2>1
<1>2. /\ task' = task /\ calls' = calls /\ successes' = successes /\ Len(failures) \in Nat
      /\ task \in Tasks /\ attempt \in 0..MaxRetries /\ MaxRetries \in Nat
      /\ calls \in [Tasks -> 0..MaxCalls]
      /\ successes \in [Tasks -> Nat] /\ errors \in [Tasks -> Nat]
  BY RetriesAssumption DEF FailAttempt, IInv, Typing
<1>3. \A t \in Tasks :
        /\ calls[t] \in Nat /\ successes[t] \in Nat /\ errors[t] \in Nat
        /\ calls[t] = successes[t] + errors[t] + (IF t = task THEN 1 ELSE 0)
  BY <1>2, RetriesAssumption DEF IInv, CountsAddUp
<1>4. \A i \in 1..Len(failures) : failures[i] \in {Transport, Transient}
  BY DEF IInv, RefusedIsNotRepeated
<1>5. CASE Retryable(answer) /\ MayRetry(attempt)
  <2>1. phase' = "send" /\ attempt' = attempt + 1 /\ errors' = errors
    BY <1>5 DEF FailAttempt
  <2>2. attempt' \in 0..MaxRetries
    BY <1>2, <1>5, <2>1 DEF MayRetry
  <2>3. CountsAddUp'
    BY <1>2, <1>3, <2>1 DEF CountsAddUp
  <2>4. RefusedIsNotRepeated'
    <3>1. ASSUME NEW i \in 1..Len(failures')
          PROVE  failures'[i] \in {Transport, Transient}
      <4>1. CASE i = Len(failures) + 1
        BY <1>1, <1>5, <4>1 DEF Retryable
      <4>2. CASE i # Len(failures) + 1
        <5>1. i \in 1..Len(failures)
          BY <1>1, <1>2, <4>2
        <5>2. QED BY <1>1, <1>4, <5>1
      <4>3. QED BY <4>1, <4>2
    <3>2. QED BY <3>1 DEF RefusedIsNotRepeated
  <2>5. QED BY <1>1, <1>2, <2>1, <2>2, <2>3, <2>4
<1>6. CASE ~ (Retryable(answer) /\ MayRetry(attempt))
  <2>1. phase' = "idle" /\ attempt' = attempt /\ errors' = [errors EXCEPT ![task] = @ + 1]
    BY <1>6 DEF FailAttempt
  <2>2. errors' \in [Tasks -> Nat]
    BY <1>2, <2>1
  <2>3. CountsAddUp'
    <3>1. ASSUME NEW t \in Tasks
          PROVE  calls'[t] = successes'[t] + errors'[t]
      <4>1. CASE t = task
        BY <1>2, <1>3, <2>1, <4>1
      <4>2. CASE t # task
        BY <1>2, <1>3, <2>1, <4>2
      <4>3. QED BY <4>1, <4>2
    <3>2. QED BY <2>1, <2>2, <3>1, <1>2 DEF CountsAddUp
  <2>4. RefusedIsNotRepeated'
    <3>1. ASSUME NEW i \in 1..Len(failures'), i < Len(failures')
          PROVE  failures'[i] \in {Transport, Transient}
      <4>1. i \in 1..Len(failures)
        BY <1>1, <1>2, <3>1
      <4>2. QED BY <1>1, <1>4, <4>1
    <3>2. QED BY <2>1, <3>1 DEF RefusedIsNotRepeated
  <2>5. QED BY <1>1, <1>2, <2>1, <2>2, <2>3, <2>4
<1>7. QED BY <1>5, <1>6

-----------------------------------------------------------------------------
(* The inductive invariant. *)

\* A client that has called nothing.
LEMMA InitIInv == Init => IInv
<1> SUFFICES ASSUME Init PROVE IInv
  OBVIOUS
<1>1. Typing
  BY RetriesAssumption DEF Init, Zero, Typing
<1>2. CountsAddUp
  BY DEF Init, Zero, CountsAddUp
<1>3. SentOnce
  BY FS_EmptySet DEF Init, SentOnce
<1>4. RefusedIsNotRepeated
  BY DEF Init, RefusedIsNotRepeated
<1>5. QED BY <1>1, <1>2, <1>3, <1>4 DEF IInv

\* Each step of the client or of the server keeps it.
LEMMA NextIInv == IInv /\ [Next]_vars => IInv'
<1> SUFFICES ASSUME IInv, [Next]_vars PROVE IInv'
  OBVIOUS
<1>0. /\ MaxRetries \in Nat /\ MaxCalls \in Nat
      /\ attempt \in 0..MaxRetries /\ attempt \in Nat /\ attempt \in 0..attempt
      /\ generated \in Nat /\ server \in SUBSET (0..attempt)
      /\ Cardinality(server) \in Nat
      /\ \A n \in server : n \in 0..attempt
      /\ \A n \in server : Cardinality(server \ {n}) = Cardinality(server) - 1
      /\ attempt \notin server =>
           Cardinality(server \cup {attempt}) = Cardinality(server) + 1
  <2>1. /\ MaxRetries \in Nat /\ MaxCalls \in Nat /\ attempt \in 0..MaxRetries
        /\ generated \in Nat /\ server \in SUBSET (0..attempt)
    BY RetriesAssumption DEF IInv, Typing, SentOnce
  <2>2. attempt \in Nat /\ attempt \in 0..attempt
    BY <2>1
  <2>3. ASSUME NEW n \in 0..attempt
        PROVE  /\ Cardinality(server) \in Nat
               /\ n \in server => Cardinality(server \ {n}) = Cardinality(server) - 1
               /\ n \notin server => Cardinality(server \cup {n}) = Cardinality(server) + 1
    BY <2>1, <2>2, AttemptsAreCounted
  <2>4. QED BY <2>1, <2>2, <2>3
<1>1. ASSUME NEW t \in Tasks, Dispatch(t) \/ DispatchWithoutModel(t)
      PROVE  IInv'
  <2>1. /\ phase = "idle" /\ calls[t] < MaxCalls /\ task' = t
        /\ calls' = [calls EXCEPT ![t] = @ + 1] /\ attempt' = 0
        /\ server' = {} /\ failures' = << >> /\ generated' = 0
        /\ successes' = successes
        /\ \/ phase' = "send" /\ errors' = errors
           \/ phase' = "idle" /\ errors' = [errors EXCEPT ![t] = @ + 1]
    BY <1>1 DEF Dispatch, DispatchWithoutModel, Begin
  <2>2. Typing'
    <3>1. /\ calls \in [Tasks -> 0..MaxCalls] /\ successes \in [Tasks -> Nat]
          /\ errors \in [Tasks -> Nat]
      BY DEF IInv, Typing
    <3>2. calls' \in [Tasks -> 0..MaxCalls]
      <4>1. calls[t] + 1 \in 0..MaxCalls
        BY <1>0, <2>1, <3>1
      <4>2. QED BY <2>1, <3>1, <4>1
    <3>3. errors' \in [Tasks -> Nat] /\ successes' \in [Tasks -> Nat]
      <4>1. [errors EXCEPT ![t] = @ + 1] \in [Tasks -> Nat]
        BY <3>1
      <4>2. QED BY <2>1, <3>1, <4>1
    <3>4. << >> \in Seq(Outcomes) /\ 0 \in 0..MaxRetries /\ 0 \in Nat
      BY <1>0
    <3>5. QED BY <2>1, <3>2, <3>3, <3>4 DEF Typing
  <2>3. CountsAddUp'
    BY <2>1 DEF IInv, Typing, CountsAddUp
  <2>4. SentOnce'
    BY <2>1, FS_EmptySet DEF SentOnce
  <2>5. RefusedIsNotRepeated'
    BY <2>1 DEF RefusedIsNotRepeated
  <2>6. QED BY <2>2, <2>3, <2>4, <2>5 DEF IInv
<1>2. CASE Send
  <2>1. Typing' /\ CountsAddUp' /\ RefusedIsNotRepeated'
    BY <1>2 DEF IInv, Typing, CountsAddUp, RefusedIsNotRepeated, Send, counters
  <2>2. /\ phase = "send" /\ phase' = "wait" /\ attempt' = attempt /\ generated' = generated
        /\ attempt \notin server /\ generated + Cardinality(server) =< attempt
        /\ server' = server \/ server' = server \cup {attempt}
    BY <1>2 DEF Send, IInv, SentOnce
  <2>3. SentOnce'
    <3>1. server' \subseteq 0..attempt /\ Cardinality(server') =< Cardinality(server) + 1
      <4>1. CASE server' = server
        BY <1>0, <4>1
      <4>2. CASE server' = server \cup {attempt}
        <5>1. Cardinality(server') = Cardinality(server) + 1
          BY <1>0, <2>2, <4>2
        <5>2. server' \subseteq 0..attempt
          BY <1>0, <4>2
        <5>3. QED BY <1>0, <5>1, <5>2
      <4>3. QED BY <2>2, <4>1, <4>2
    <3>2. Cardinality(server') \in Nat
      BY <1>0, <3>1, AttemptsAreCounted
    <3>3. QED BY <1>0, <2>2, <3>1, <3>2 DEF SentOnce
  <2>4. QED BY <2>1, <2>3 DEF IInv
<1>3. ASSUME NEW answer \in Answers, Answer(answer)
      PROVE  IInv'
  <2>1. /\ phase = "wait" /\ attempt \in server /\ server' = server \ {attempt}
        /\ generated' = generated + 1
        /\ Cardinality(server') = Cardinality(server) - 1
        /\ generated + Cardinality(server) =< attempt + 1
    BY <1>0, <1>3 DEF Answer, IInv, SentOnce
  <2>2. CASE answer = "text"
    <3>1. /\ phase' = "idle" /\ successes' = [successes EXCEPT ![task] = @ + 1]
          /\ UNCHANGED <<task, attempt, calls, errors, failures>>
      BY <1>3, <2>2 DEF Answer
    <3>2. Typing'
      BY <2>1, <3>1 DEF IInv, Typing
    <3>3. CountsAddUp'
      BY <2>1, <3>1 DEF IInv, Typing, CountsAddUp
    <3>4. RefusedIsNotRepeated'
      BY <2>1, <3>1 DEF IInv, RefusedIsNotRepeated
    <3>5. SentOnce'
      BY <1>0, <2>1, <3>1 DEF SentOnce
    <3>6. QED BY <3>2, <3>3, <3>4, <3>5 DEF IInv
  <2>3. CASE answer # "text"
    <3>1. FailAttempt(answer) /\ answer \in Outcomes
      BY <1>3, <2>3 DEF Answer, Outcomes
    <3>2. /\ Typing' /\ CountsAddUp' /\ RefusedIsNotRepeated'
          /\ \/ phase' = "send" /\ attempt' = attempt + 1
             \/ phase' = "idle" /\ attempt' = attempt
      BY <1>0, <2>1, <3>1, FailAttemptStep DEF Typing
    <3>3. SentOnce'
      BY <1>0, <2>1, <3>2 DEF SentOnce
    <3>4. QED BY <3>2, <3>3 DEF IInv
  <2>4. QED BY <2>2, <2>3
<1>4. CASE TimeOut
  <2>1. /\ phase = "wait" /\ FailAttempt(Transport) /\ Transport \in Outcomes
        /\ server' = server /\ generated' = generated
        /\ generated + Cardinality(server) =< attempt + 1
    BY <1>4 DEF TimeOut, Outcomes, IInv, SentOnce
  <2>2. /\ Typing' /\ CountsAddUp' /\ RefusedIsNotRepeated'
        /\ \/ phase' = "send" /\ attempt' = attempt + 1
           \/ phase' = "idle" /\ attempt' = attempt
    BY <1>0, <2>1, FailAttemptStep DEF Typing
  <2>3. SentOnce'
    BY <1>0, <2>1, <2>2 DEF SentOnce
  <2>4. QED BY <2>2, <2>3 DEF IInv
<1>5. ASSUME NEW n \in server, AnswerTooLate(n)
      PROVE  IInv'
  <2>1. /\ UNCHANGED <<phase, task, attempt, calls, successes, errors, failures>>
        /\ server' = server \ {n} /\ generated' = generated + 1
    BY <1>5 DEF AnswerTooLate, counters
  <2>2. Typing' /\ CountsAddUp' /\ RefusedIsNotRepeated'
    BY <1>0, <2>1 DEF IInv, Typing, CountsAddUp, RefusedIsNotRepeated
  <2>3. SentOnce'
    BY <1>0, <2>1 DEF IInv, SentOnce
  <2>4. QED BY <2>2, <2>3 DEF IInv
<1>6. CASE UNCHANGED vars
  BY <1>6 DEF vars, counters, IInv, Typing, CountsAddUp, SentOnce, RefusedIsNotRepeated
<1>7. QED BY <1>1, <1>2, <1>3, <1>4, <1>5, <1>6 DEF Next, Client

\* The invariant holds throughout.
LEMMA SpecIInv == Spec => []IInv
  BY InitIInv, NextIInv, PTL DEF Spec

-----------------------------------------------------------------------------
(* The theorems. *)

\* Every variable of the client has its type: in particular the successes and
\* errors of a stage never exceed its calls.
THEOREM TypeCorrect == Spec => []TypeOK
<1>1. IInv => TypeOK
  <2> SUFFICES ASSUME IInv PROVE TypeOK
    OBVIOUS
  <2>1. ASSUME NEW t \in Tasks
        PROVE  successes[t] \in 0..MaxCalls /\ errors[t] \in 0..MaxCalls
    BY RetriesAssumption DEF IInv, Typing, CountsAddUp
  <2>2. successes \in [Tasks -> 0..MaxCalls] /\ errors \in [Tasks -> 0..MaxCalls]
    BY <2>1 DEF IInv, Typing
  <2>3. server \subseteq 0..MaxRetries
    BY RetriesAssumption DEF IInv, Typing, SentOnce
  <2>4. QED BY <2>2, <2>3 DEF IInv, Typing, TypeOK, Outcomes
<1>2. QED BY <1>1, SpecIInv, PTL

\* A call that is over is exactly one success or one error of its stage, whatever
\* was lost, late or retried.
THEOREM CallsAreAccountedFor == Spec => []CountsAddUp
<1>1. IInv => CountsAddUp
  BY DEF IInv
<1>2. QED BY <1>1, SpecIInv, PTL

\* A retry may repeat work the server still does for an attempt given up, but the
\* server never does the work of a call more than max_retries + 1 times.
THEOREM DuplicationIsBounded == Spec => []BoundedDuplication
<1>1. IInv => BoundedDuplication
  <2> SUFFICES ASSUME IInv PROVE BoundedDuplication
    OBVIOUS
  <2>1. attempt \in 0..MaxRetries /\ MaxRetries \in Nat /\ generated \in Nat
    BY RetriesAssumption DEF IInv, Typing
  <2>2. Cardinality(server) \in Nat
    <3>1. server \in SUBSET (0..attempt) /\ attempt \in Nat /\ attempt \in 0..attempt
      BY <2>1 DEF IInv, SentOnce
    <3>2. QED BY <3>1, AttemptsAreCounted
  <2>3. QED BY <2>1, <2>2 DEF IInv, SentOnce, BoundedDuplication
<1>2. QED BY <1>1, SpecIInv, PTL

\* An attempt is followed by another only when no answer came or its status is
\* transient.
THEOREM OnlyTheRetryableIsRetried == Spec => []RefusedIsNotRepeated
<1>1. IInv => RefusedIsNotRepeated
  BY DEF IInv
<1>2. QED BY <1>1, SpecIInv, PTL
=============================================================================
