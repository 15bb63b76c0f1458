--------------------------- MODULE MCAgentRuntime ---------------------------
(***************************************************************************)
(* Instances of AgentRuntime for TLC: one agent with a daily limit of one  *)
(* or two reservations, its attempts and requests in model values.         *)
(***************************************************************************)
EXTENDS AgentRuntime, TLC

\* Requests are interchangeable; sound for the runs without liveness.
HandlerSymmetry == Permutations(Handlers)

\* The accounting invariants speak of histories without a torn commit only, and
\* torn stays TRUE: there is nothing to see after it.
Untorn == ~torn
=============================================================================
