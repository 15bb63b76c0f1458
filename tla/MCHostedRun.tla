---------------------------- MODULE MCHostedRun ----------------------------
(***************************************************************************)
(* Instances of HostedRun for TLC: three phases, of which the second one   *)
(* opens the pull request and the last one writes the receipt.             *)
(***************************************************************************)
EXTENDS HostedRun, TLC

\* Requests are interchangeable.
Symmetry == Permutations(Requests)

\* The invariants that have exceptions speak of histories without one, and history
\* only grows: there is nothing to see after the first exception.
Undisturbed == history = {}
=============================================================================
