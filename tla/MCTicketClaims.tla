--------------------------- MODULE MCTicketClaims ---------------------------
(***************************************************************************)
(* Instances of TicketClaims for TLC.                                      *)
(***************************************************************************)
EXTENDS TicketClaims, TLC

\* Tickets, agents and requests are each interchangeable.
Symmetry == Permutations(Handlers) \cup Permutations(Agents) \cup Permutations(Tickets)

\* The properties say nothing after a torn write, and torn stays TRUE.
Untorn == ~torn
=============================================================================
