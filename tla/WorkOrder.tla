----------------------------- MODULE WorkOrder -----------------------------
(***************************************************************************)
(* What a run promises of its tickets, whatever fails and is resumed in    *)
(* between: none is closed before those it depends on, and none is opened  *)
(* again.  Tickets that wait for each other in a circle, or for such as    *)
(* do, have no order; and the promise is waived for a run that was told to *)
(* code before its plan was finished, or whose waves another run removed.  *)
(***************************************************************************)
CONSTANT Tickets
VARIABLES deps, closed, waived

Knotted(t) == \E S \in SUBSET Tickets : t \in S /\ \A s \in S : deps[s] \cap S # {}

Init == deps = [t \in Tickets |-> {}] /\ closed = {} /\ waived = FALSE

\* Dependencies are added and never taken back.
Plan ==
  /\ deps' \in [Tickets -> SUBSET Tickets] /\ \A t \in Tickets : deps[t] \subseteq deps'[t]
  /\ UNCHANGED <<closed, waived>>

Close(t) ==
  /\ waived \/ deps[t] \subseteq closed \/ Knotted(t)
  /\ closed' = closed \cup {t}
  /\ UNCHANGED <<deps, waived>>

Waive == waived' = TRUE /\ UNCHANGED <<deps, closed>>

Next == Plan \/ (\E t \in Tickets : Close(t)) \/ Waive

Spec == Init /\ [][Next]_<<deps, closed, waived>>
=============================================================================
