--------------------------- MODULE ExpansionBounds ---------------------------
(***************************************************************************)
(* That merging and expanding a document end, and with a list that is not  *)
(* too long.                                                               *)
(***************************************************************************)
EXTENDS Expansion

\* Over all the documents, what is expanded counts: no more events are
\* delivered than the limit allows (expansion_limit, eager_next_event).
ExpansionWithinLimit == MaxEvents > 0 => base + Len(events) <= MaxEvents

PhasesLeft ==
  CASE phase = "BIND" -> 6 [] phase = "MERGE" -> 5 [] phase = "TABLE" -> 4
    [] phase = "CYCLES" -> 3 [] phase = "RESOLVE" -> 2 [] phase = "UNBIND" -> 1
    [] OTHER -> 0

White == {k \in DOMAIN color : color[k] = "WHITE"}

\* In a phase: the anchors to enter and to leave, or the passes.
StepsLeft ==
  IF phase = "CYCLES" THEN 2 * Cardinality(White) + Len(path) ELSE MaxPasses - pass

\* Every step until the document is done leaves less to do, mappings that
\* are merged into themselves and anchors that lead in circles included
\* (MAX_MERGE_PASSES; alias_has_cycle); and there is always a step.
ExpansionEnds ==
  [][document' = document =>
       \/ PhasesLeft' < PhasesLeft
       \/ PhasesLeft' = PhasesLeft /\ StepsLeft' \in 0..StepsLeft - 1]_vars

=============================================================================
