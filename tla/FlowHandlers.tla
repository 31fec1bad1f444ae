---------------------------- MODULE FlowHandlers ----------------------------
(***************************************************************************)
(* The states of the incremental parser inside flow collections            *)
(* (parser_step_flow, oyl_parser.c), each an operator from the parser's    *)
(* record to the record after one step.                                    *)
(***************************************************************************)
EXTENDS ParserState

\* inc_flow_sep: after an entry, take the ',' or go straight to the close.
FlowSep(q, in_seq) ==
  LET r == Peek(q)
  IN  CASE ~r.have_token -> r
        [] r.have_token /\ Tok(r) = "FLOW_ENTRY" ->
             Goto(Consume(r), IF in_seq THEN "FLOW_SEQ_LOOP" ELSE "FLOW_MAP_LOOP")
        [] r.have_token /\ Tok(r) = (IF in_seq THEN "FLOW_SEQ_END" ELSE "FLOW_MAP_END") ->
             Goto(r, IF in_seq THEN "FLOW_SEQ_END" ELSE "FLOW_MAP_END")
        [] OTHER -> Goto(r, IF in_seq THEN "FLOW_SEQ_SEP" ELSE "FLOW_MAP_SEP")

\* inc_flow_map_value, the ':' consumed.
FlowMapValueNode(q) ==
  LET r == Peek(q)
  IN  IF ~r.have_token THEN r
      ELSE IF Tok(r) = "SCALAR" THEN FlowSep(EmitScalarToken(r), FALSE)
      ELSE IF Tok(r) \in {"FLOW_ENTRY", "FLOW_MAP_END"}
      THEN Goto(Emit(r, "SCALAR"), "FLOW_MAP_SEP")
      ELSE GotoNode(r, "FLOW_NODE", "FLOW_MAP_SEP")

\* Mutant: an empty node is no event.
PairNodeNoEmpty(q, ends, next) ==
  LET r == Peek(q)
  IN  IF Tok(r) \in ends THEN Goto(r, next) ELSE GotoNode(r, "FLOW_NODE", next)

\* The value of a pair in a sequence, or an empty one before one of "ends".
PairNode(q, ends, next) ==
  LET r == Peek(q)
  IN  IF Tok(r) \in ends THEN Goto(Emit(r, "SCALAR"), next)
      ELSE GotoNode(r, "FLOW_NODE", next)

FlowOpen(q, e, context, loop) ==
  LET r == Emit(Consume(AttachProps(q)), e)
  IN  Goto(PushFrame(r, context, Col(q), q.node_return), loop)

\* The node itself, its properties read.
FlowNodeAfterProps(q) ==
  CASE Tok(q) = "SCALAR" -> Goto(EmitScalarToken(q), q.node_return)
    [] Tok(q) = "ALIAS" ->
         Goto(Emit(Consume(AttachProps(q)), "ALIAS"), q.node_return)
    [] Tok(q) = "FLOW_SEQ_START" ->
         FlowOpen(q, "SEQUENCE_START", "FLOW_SEQ", "FLOW_SEQ_LOOP")
    [] Tok(q) = "FLOW_MAP_START" ->
         FlowOpen(q, "MAPPING_START", "FLOW_MAP", "FLOW_MAP_LOOP")
    [] OTHER -> Goto(Emit(AttachProps(q), "SCALAR"), q.node_return)

FlowNode(q0) ==
  LET p == Peek(q0)
      c == ConsumeProps(p)
  IN  IF Tok(p) \notin PropTokens THEN FlowNodeAfterProps(p)
      ELSE IF PropsFailed(c) THEN c
      ELSE FlowNodeAfterProps(Peek(c))

-----------------------------------------------------------------------------
(***************************************************************************)
(* Flow mappings.                                                          *)
(***************************************************************************)

\* A scalar key, and its value too when it is a scalar, in one step.
FlowScalarKey(q) ==
  LET r == Peek(Goto(EmitScalarToken(q), "FLOW_MAP_VALUE"))
  IN  IF r.have_token /\ Tok(r) = "BLOCK_MAP_VALUE"
      THEN FlowMapValueNode(Consume(r)) ELSE r

FlowMapLoop(q0) ==
  LET q == Peek(q0)
  IN  CASE Tok(q) = "FLOW_MAP_END" -> Goto(q, "FLOW_MAP_END")
        [] Tok(q) = "FLOW_ENTRY" -> ParseError(q)
        [] Tok(q) = "BLOCK_MAP_KEY" ->
             PairNode(Consume(q), {"BLOCK_MAP_VALUE", "FLOW_ENTRY", "FLOW_MAP_END"},
                      "FLOW_MAP_VALUE")
        [] Tok(q) = "SCALAR" -> FlowScalarKey(q)
        [] OTHER -> GotoNode(q, "FLOW_NODE", "FLOW_MAP_VALUE")

FlowMapValue(q0) ==
  LET q == Peek(q0)
  IN  IF Tok(q) = "BLOCK_MAP_VALUE" THEN FlowMapValueNode(Consume(q))
      ELSE Goto(Emit(q, "SCALAR"), "FLOW_MAP_SEP")

FlowMapSep(q0) ==
  LET q == Peek(q0)
  IN  CASE Tok(q) = "FLOW_ENTRY" -> Goto(Consume(q), "FLOW_MAP_LOOP")
        [] Tok(q) = "FLOW_MAP_END" -> Goto(q, "FLOW_MAP_LOOP")
        [] OTHER -> ParseError(q)

\* Leave a flow collection; in another one, take the separator at once.
FlowEnd(q0, e) ==
  LET q == PopFrame(Emit(Consume(q0), e))
  IN  CASE q.state = "FLOW_SEQ_SEP" -> FlowSep(q, TRUE)
        [] q.state = "FLOW_MAP_SEP" -> FlowSep(q, FALSE)
        [] OTHER -> q

FlowMapEnd(q) == FlowEnd(q, "MAPPING_END")

-----------------------------------------------------------------------------
(***************************************************************************)
(* Flow sequences.  A "key: value" or "? key : value" entry is a mapping   *)
(* of one pair, which no frame stands for: the states after its parts      *)
(* remember that it is open.                                               *)
(***************************************************************************)

PairEnds == {"FLOW_ENTRY", "FLOW_SEQ_END"}

\* Mutant: the entry goes to a state of its own to look for its ':'.
FlowSeqEntryDead(q0) ==
  LET q == Peek(Consume(AttachProps(Peek(q0))))
  IN  Goto(Emit(q, "SCALAR"), "FLOW_SEQ_CHECK_COLON")

\* ST_FLOW_SEQ_ENTRY, which the loop enters in the same step.
FlowSeqEntry(q0) ==
  LET e == IF Tok(q0) = "SCALAR" THEN "SCALAR" ELSE "ALIAS"
      q == Peek(Consume(AttachProps(Peek(q0))))
  IN  IF Tok(q) = "BLOCK_MAP_VALUE"
      THEN Goto([q EXCEPT !.saved_node = e], "FLOW_SEQ_ENTRY_KEY")
      ELSE FlowSep(Emit(q, e), TRUE)

\* Mutant: an empty entry leaves its properties to the next one.
FlowSeqPropsKept(q) ==
  LET r == ConsumeProps(q)
  IN  IF PropsFailed(r) THEN r
      ELSE IF Tok(r) \in PairEnds THEN FlowSep(Emit(r, "SCALAR"), TRUE)
      ELSE r

\* Mutant: a property that is not taken is looked at again.
FlowSeqPropsAgain(q) ==
  LET r == ConsumeProps(q)
  IN  IF ~PropsFailed(r) /\ Tok(r) \in PairEnds
      THEN FlowSep(Emit(AttachProps(r), "SCALAR"), TRUE) ELSE r

\* Properties of the next entry, or of an empty one.  A second anchor or
\* tag that consume_props refused would come back here forever.
FlowSeqProps(q) ==
  LET r == ConsumeProps(q)
  IN  IF PropsFailed(r) THEN r
      ELSE IF Tok(r) \in PairEnds THEN FlowSep(Emit(AttachProps(r), "SCALAR"), TRUE)
      ELSE IF Tok(r) \in PropTokens THEN ParseError(r)
      ELSE r

FlowSeqLoop(q0) ==
  LET q == Peek(q0)
      ahead == LookAhead(q, q.current.pos)
  IN  CASE Tok(q) = "FLOW_SEQ_END" -> Goto(q, "FLOW_SEQ_END")
        [] Tok(q) = "BLOCK_MAP_KEY" ->
             IF q.has_anchor \/ q.has_tag THEN ParseError(q)
             ELSE Goto(q, "FLOW_SEQ_EXPLICIT_KEY")
        [] Tok(q) \in {"SCALAR", "ALIAS"} -> FlowSeqEntry(Goto(q, "FLOW_SEQ_ENTRY"))
        [] Tok(q) \in FlowStarts ->
             IF FkIsKey(ahead.fk, q.current.pos) THEN Goto(ahead, "EAGER_DRAIN")
             ELSE GotoNode(ahead, "FLOW_NODE", "FLOW_SEQ_SEP")
        [] Tok(q) = "BLOCK_MAP_VALUE" ->
             PairNode(Consume(Emit(Emit(AttachProps(q), "MAPPING_START"), "SCALAR")),
                      PairEnds, "FLOW_SEQ_IMPLICIT_END")
        [] Tok(q) \in PropTokens -> FlowSeqProps(q)
        [] OTHER -> ParseError(q)

FlowSeqEntryKey(q) ==
  PairNode(Consume(Emit(Emit(q, "MAPPING_START"), q.saved_node)),
           PairEnds, "FLOW_SEQ_IMPLICIT_END")

\* ST_FLOW_SEQ_IMPLICIT_END and ST_FLOW_SEQ_EXPLICIT_END.
FlowSeqPairEnd(q) == Goto(Emit(Peek(q), "MAPPING_END"), "FLOW_SEQ_SEP")

FlowSeqExplicitKey(q) ==
  PairNode(Consume(Emit(q, "MAPPING_START")), PairEnds \cup {"BLOCK_MAP_VALUE"},
           "FLOW_SEQ_EXPLICIT_VALUE")

FlowSeqExplicitValue(q0) ==
  LET q == Peek(q0)
  IN  IF Tok(q) = "BLOCK_MAP_VALUE"
      THEN PairNode(Consume(q), PairEnds, "FLOW_SEQ_EXPLICIT_END")
      ELSE Goto(Emit(q, "SCALAR"), "FLOW_SEQ_EXPLICIT_END")

FlowSeqSep(q0) ==
  LET q == Peek(q0)
  IN  CASE Tok(q) = "FLOW_ENTRY" -> Goto(Consume(q), "FLOW_SEQ_LOOP")
        [] Tok(q) = "FLOW_SEQ_END" -> Goto(q, "FLOW_SEQ_LOOP")
        [] OTHER -> ParseError(q)

FlowSeqEnd(q) == FlowEnd(q, "SEQUENCE_END")

=============================================================================
