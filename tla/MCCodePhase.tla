---------------------------- MODULE MCCodePhase ----------------------------
(***************************************************************************)
(* Instances of CodePhase for TLC: three titles, two paths and four plans  *)
(* that differ in how the tickets hang together.                           *)
(***************************************************************************)
EXTENDS CodePhase, TLC

\* The second and third ticket wait for the first.
Fork == [titles |-> {1, 2, 3}, deps |-> 1 :> {} @@ 2 :> {1} @@ 3 :> {1},
         owns |-> 1 :> {"a"} @@ 2 :> {"a"} @@ 3 :> {"b"}]
\* The same, but both own one path: not accepted.
Overlap == [Fork EXCEPT !.owns = 1 :> {"a"} @@ 2 :> {"b"} @@ 3 :> {"b"}]
\* The third waits for the first two.
Meet == [titles |-> {1, 2, 3}, deps |-> 1 :> {} @@ 2 :> {} @@ 3 :> {1, 2},
         owns |-> 1 :> {"a"} @@ 2 :> {"b"} @@ 3 :> {"a", "b"}]
\* The second and third wait for each other.
Circle == [titles |-> {1, 2, 3}, deps |-> 1 :> {} @@ 2 :> {3} @@ 3 :> {2},
           owns |-> 1 :> {"a"} @@ 2 :> {"b"} @@ 3 :> {"b"}]

MCTitles == [t \in Tickets |-> IF t > 3 THEN t - 3 ELSE t]
MCPlans == {Fork, Overlap, Meet, Circle}
=============================================================================
