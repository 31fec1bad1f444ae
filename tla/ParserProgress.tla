--------------------------- MODULE ParserProgress ---------------------------
(***************************************************************************)
(* What the incremental parser must eventually do.                         *)
(*                                                                         *)
(* The parser is sequential: during a call it only waits for the           *)
(* processor, so each step it can take is taken.  A state of the machine   *)
(* that is dispatched to itself with nothing changed would be a stuttering *)
(* step, and an endless call would look like a stopped one; "tick" tells   *)
(* them apart.                                                             *)
(***************************************************************************)
EXTENDS ParserProperties

VARIABLE tick  \* flips at every step the parser takes

Working == result = "BUSY" /\ parser.incremental

TickingInit == Init /\ tick = FALSE

TickingNext == Next /\ tick' = IF Working THEN ~tick ELSE tick

Ticking == TickingInit /\ [][TickingNext]_<<vars, tick>>

\* A step of the parser, which is possible whenever it is working: every
\* state has a handler (TLC finds no deadlock).
Tick == Working /\ tick' = ~tick

Progress == Ticking /\ WF_tick(Tick)

\* A caller who keeps calling, errors or not.
PatientCaller == Progress /\ WF_<<vars, tick>>(Call /\ UNCHANGED tick)

\* Every call returns, or hands over to the eager parser: no state of the
\* machine is dispatched to itself, and no two to each other, forever (the
\* loop oyl_parser.c guards against in ST_FLOW_SEQ_LOOP).
CallReturns == [](Working => <>~Working)

\* A text gives finitely many events, even if the caller goes on after an
\* error; and the end or an error is returned, or the eager parser has it.
StreamEnds ==
  /\ <>[](result # "OK")
  /\ <>(result \in {"NONE"} \cup Errors \/ ~parser.incremental)

=============================================================================
