--------------------------- MODULE BlockHandlers ---------------------------
(***************************************************************************)
(* The states of the incremental parser outside flow collections           *)
(* (parser_step, oyl_parser.c), each an operator from the parser's record  *)
(* to the record after one step.                                           *)
(***************************************************************************)
EXTENDS ParserState

-----------------------------------------------------------------------------
(***************************************************************************)
(* The stream and its documents.                                           *)
(***************************************************************************)

StreamStart(q) == Goto(Emit(Consume(Peek(q)), "STREAM_START"), "STREAM_DOC_LOOP")

StreamDocLoop(q0) ==
  LET q == Peek(q0)
  IN  Goto(q, IF Tok(q) = "STREAM_END" THEN "STREAM_END" ELSE "DOC_DIRECTIVES")

StreamEnd(q) == Goto(Emit(Consume(Peek(q)), "STREAM_END"), "DONE")

\* Mutant: a stray "..." is left where it is.
DocDirectivesStuck(q0) ==
  LET q == Peek(q0)
  IN  Goto(q, CASE Tok(q) = "DIRECTIVE" -> "EAGER_DRAIN"
                [] Tok(q) = "DOC_START" -> "DOC_START_EXPLICIT"
                [] Tok(q) = "DOC_END" -> "STREAM_DOC_LOOP"
                [] Tok(q) = "STREAM_END" -> "STREAM_END"
                [] OTHER -> "DOC_START_IMPLICIT")

DocDirectives(q0) ==
  LET q == TakeCheckpoint(Peek(q0))
  IN  CASE Tok(q) = "DIRECTIVE"  -> Goto(q, "EAGER_DRAIN")
        [] Tok(q) = "DOC_START"  -> Goto(q, "DOC_START_EXPLICIT")
        [] Tok(q) = "DOC_END"    -> Goto(Consume(q), "STREAM_DOC_LOOP")
        [] Tok(q) = "STREAM_END" -> Goto(q, "STREAM_END")
        [] OTHER                 -> Goto(q, "DOC_START_IMPLICIT")

\* No document is open here (CleanBetweenDocuments), so the code that would
\* close one first, and ST_UNROLL, which it goes to, are left out.
DocStart(q, line) ==
  Goto([Emit(q, "DOC_START") EXCEPT !.doc_start_line = line, !.doc_open = TRUE],
       "DOC_CONTENT")

DocStartExplicit(q) == DocStart(Consume(Peek(q)), Peek(q).current.line)

DocStartImplicit(q) == DocStart(Peek(q), 0)

\* An empty document that the next one, or the end of the stream, closes.
EmptyDocument(q, state) ==
  Goto([Emit(Emit(q, "SCALAR"), "DOC_END") EXCEPT !.doc_open = FALSE], state)

DocContent(q0) ==
  LET q == Peek(q0)
  IN  CASE Tok(q) = "DOC_END"    -> Goto(Emit(q, "SCALAR"), "DOC_END_EXPLICIT")
        [] Tok(q) = "DOC_START"  -> EmptyDocument(q, "STREAM_DOC_LOOP")
        [] Tok(q) = "STREAM_END" -> EmptyDocument(q, "STREAM_END")
        [] OTHER                 -> GotoNode(q, "BLOCK_NODE", "DOC_END_EXPLICIT")

\* Mutant: the document stays open.
EndDocumentOpen(q0) ==
  LET q == Peek(q0)
      r == IF Tok(q) = "DOC_END" THEN Consume(q) ELSE q
  IN  IF ~q.have_token THEN q
      ELSE IF Tok(q) \notin DocumentEnds THEN ParseError(q)
      ELSE Goto(Emit(r, "DOC_END"), "STREAM_DOC_LOOP")

\* inc_end_document.
EndDocument(q0) ==
  LET q == Peek(q0)
      r == IF Tok(q) = "DOC_END" THEN Consume(q) ELSE q
  IN  IF ~q.have_token THEN q
      ELSE IF Tok(q) \notin DocumentEnds THEN ParseError(q)
      ELSE Goto([Emit(r, "DOC_END") EXCEPT !.doc_open = FALSE], "STREAM_DOC_LOOP")

-----------------------------------------------------------------------------
(***************************************************************************)
(* Block nodes.                                                            *)
(***************************************************************************)

\* Mutant: nor can one on the line of an explicit value's ':'.
CannotBeKeyAnyColon(q) ==
  q.node_return = "BLOCK_MAP_LOOP" /\ q.current.line = q.value_colon_line

\* A map value on its implicit key's line cannot be a key itself.
CannotBeKey(q) ==
  /\ q.node_return = "BLOCK_MAP_LOOP"
  /\ q.current.line = q.value_colon_line
  /\ ~q.value_colon_starts_line

BlockNodeFlow(q) ==
  LET ahead == LookAhead(q, q.current.pos)
  IN  IF CannotBeKey(q) THEN Goto(q, "FLOW_NODE")
      ELSE IF FkIsKey(ahead.fk, q.current.pos) THEN Goto(ahead, "EAGER_DRAIN")
      ELSE Goto(ahead, "FLOW_NODE")

\* Anchors and tags in block context are left to the eager parser.  No other
\* token is left: what leads to a node has seen that no document ends here.
\* So ST_BLOCK_NODE_EMPTY has no action, and a parser that got there would
\* be a deadlock.
BlockNode(q0) ==
  LET q == Peek(q0)
  IN  CASE Tok(q) \in PropTokens        -> Goto(q, "EAGER_DRAIN")
        [] Tok(q) = "ALIAS"             -> Goto(q, "BLOCK_NODE_ALIAS")
        [] Tok(q) = "BLOCK_SEQ_ENTRY"   -> Goto(q, "BLOCK_NODE_SEQ")
        [] Tok(q) = "BLOCK_MAP_KEY"     -> Goto(q, "BLOCK_NODE_EXPLICIT_KEY")
        [] Tok(q) = "BLOCK_MAP_VALUE"   -> Goto(q, "BLOCK_NODE_BARE_VALUE")
        [] Tok(q) \in FlowStarts        -> BlockNodeFlow(q)
        [] Tok(q) = "SCALAR"            -> Goto(q, "BLOCK_NODE_SCALAR")
        [] Tok(q) \in {"FLOW_SEQ_END", "FLOW_MAP_END", "FLOW_ENTRY", "DIRECTIVE"} ->
             ParseError(q)
        [] OTHER                        -> Goto(q, "BLOCK_NODE_EMPTY")

\* A scalar or an alias is a mapping's first key if a ':' follows on its line.
BlockNodeLeaf(q0, e, key_state) ==
  LET p == Peek(q0)
      q == Peek(Consume(p))
  IN  IF Tok(q) = "BLOCK_MAP_VALUE" /\ q.current.line = p.current.line
      THEN Goto([q EXCEPT !.saved_node = e, !.saved_node_col = Col(p)], key_state)
      ELSE Goto(Emit(q, e), q.node_return)

BlockNodeScalar(q) == BlockNodeLeaf(q, "SCALAR", "BLOCK_NODE_SCALAR_KEY")
BlockNodeAlias(q) == BlockNodeLeaf(q, "ALIAS", "BLOCK_NODE_ALIAS_KEY")

\* ST_BLOCK_NODE_SCALAR_KEY and ST_BLOCK_NODE_ALIAS_KEY.
BlockNodeKey(q) ==
  Goto(PushFrame(Emit(Emit(q, "MAPPING_START"), q.saved_node),
                 "BLOCK_MAP", q.saved_node_col, q.node_return),
       "BLOCK_MAP_VALUE")

\* Start a collection at the indicator that is its first token.
BlockOpen(q0, e, context) ==
  LET q == Peek(q0)
  IN  PushFrame(Emit(q, e), context, Col(q), q.node_return)

BlockNodeSeq(q) == Goto(BlockOpen(q, "SEQUENCE_START", "BLOCK_SEQ"), "BLOCK_SEQ_LOOP")

BlockNodeExplicitKey(q) ==
  Goto(BlockOpen(q, "MAPPING_START", "BLOCK_MAP"), "BLOCK_MAP_LOOP")

BlockNodeBareValue(q) ==
  Goto(Emit(BlockOpen(q, "MAPPING_START", "BLOCK_MAP"), "SCALAR"), "BLOCK_MAP_VALUE")

-----------------------------------------------------------------------------
(***************************************************************************)
(* Block mappings.                                                         *)
(***************************************************************************)

BlockMapLoop(q0) ==
  LET q == Peek(q0)
      here == Col(q) = TopIndent(q)
  IN  CASE Tok(q) = "BLOCK_MAP_KEY" /\ here -> Goto(q, "BLOCK_MAP_EXPLICIT_KEY")
        [] Tok(q) \in {"SCALAR", "ALIAS"} /\ here -> Goto(q, "BLOCK_MAP_SIMPLE_KEY")
        [] Tok(q) = "BLOCK_MAP_VALUE" /\ here ->
             Goto(Emit(q, "SCALAR"), "BLOCK_MAP_VALUE")
        [] Tok(q) \in PropTokens \cup FlowStarts -> Goto(q, "EAGER_DRAIN")
        [] OTHER -> Goto(q, "BLOCK_MAP_END")

\* What follows a '?' or a ':' is not indented as its node: the node is empty.
\* A block sequence may sit at the mapping's own indentation.
NoNodeHere(q) ==
  \/ Tok(q) \in DocumentEnds
  \/ Col(q) < TopIndent(q)
  \/ Col(q) = TopIndent(q) /\ Tok(q) # "BLOCK_SEQ_ENTRY"

BlockMapExplicitKey(q0) ==
  LET q == Peek(Consume(Peek(q0)))
  IN  IF NoNodeHere(q) THEN Goto(Emit(q, "SCALAR"), "BLOCK_MAP_POST_KEY")
      ELSE GotoNode(q, "BLOCK_NODE", "BLOCK_MAP_POST_KEY")

BlockMapSimpleKey(q0) ==
  LET p == Peek(q0)
      q == Peek(Consume(p))
  IN  CASE Tok(p) \notin {"SCALAR", "ALIAS"} -> Goto(p, "EAGER_DRAIN")
        [] Tok(p) \in {"SCALAR", "ALIAS"} /\ Tok(q) = "BLOCK_MAP_VALUE" ->
             Goto(Emit(q, Tok(p)), "BLOCK_MAP_VALUE")
        [] OTHER -> Goto(q, "EAGER_DRAIN")

\* Mutant: a '?' key without a ':' has no value.
BlockMapPostKeyMissing(q0) ==
  LET q == Peek(q0)
  IN  IF Tok(q) = "BLOCK_MAP_VALUE" THEN Goto(q, "BLOCK_MAP_VALUE")
      ELSE Goto(q, "BLOCK_MAP_LOOP")

BlockMapPostKey(q0) ==
  LET q == Peek(q0)
  IN  CASE Tok(q) = "BLOCK_MAP_VALUE" /\ Col(q) = TopIndent(q) -> Goto(q, "BLOCK_MAP_VALUE")
        [] Tok(q) = "BLOCK_MAP_VALUE" /\ Col(q) > TopIndent(q) -> ParseError(q)
        [] OTHER -> Goto(Emit(q, "SCALAR"), "BLOCK_MAP_LOOP")

BlockMapValue(q0) ==
  LET p == Peek(q0)
      r == Peek(Consume(p))
      q == [r EXCEPT !.value_colon_line = p.current.line,
                     !.value_colon_starts_line = p.current.first]
  IN  IF Tok(p) # "BLOCK_MAP_VALUE" THEN Goto(Emit(p, "SCALAR"), "BLOCK_MAP_LOOP")
      ELSE IF NoNodeHere(q) THEN Goto(Emit(q, "SCALAR"), "BLOCK_MAP_LOOP")
      ELSE GotoNode(q, "BLOCK_NODE", "BLOCK_MAP_LOOP")

\* Mutant: only the root's end is delivered.
BlockEndRootOnly(q0, e) ==
  LET q == Peek(PopFrame(q0))
  IN  IF q.state = "DOC_END_EXPLICIT" THEN EndDocument(Emit(q, e)) ELSE q

\* Leave a block collection; the root's end is the document's too.
BlockEnd(q0, e) ==
  LET q == Emit(Peek(PopFrame(q0)), e)
  IN  IF q.state = "DOC_END_EXPLICIT" THEN EndDocument(q) ELSE q

BlockMapEnd(q) == BlockEnd(q, "MAPPING_END")

-----------------------------------------------------------------------------
(***************************************************************************)
(* Block sequences.                                                        *)
(***************************************************************************)

BlockSeqLoop(q0) ==
  LET q == Peek(q0)
  IN  IF Tok(q) = "BLOCK_SEQ_ENTRY" /\ Col(q) = TopIndent(q)
      THEN Goto(q, "BLOCK_SEQ_ENTRY") ELSE Goto(q, "BLOCK_SEQ_END")

BlockSeqEntry(q0) ==
  LET q == Peek(Consume(Peek(q0)))
  IN  IF Tok(q) \in DocumentEnds \/ Col(q) <= TopIndent(q)
      THEN Goto(Emit(q, "SCALAR"), "BLOCK_SEQ_LOOP")
      ELSE GotoNode(q, "BLOCK_NODE", "BLOCK_SEQ_LOOP")

BlockSeqEnd(q) == BlockEnd(q, "SEQUENCE_END")

=============================================================================
