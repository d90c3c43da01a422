------------------------------ MODULE MCLlmClient ------------------------------
(* Two stages make two calls each, and each call may be tried three times. *)
EXTENDS LlmClient

MCTasks == {"propose_actions", "analyze_frontier"}
=============================================================================
