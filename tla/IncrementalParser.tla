------------------------- MODULE IncrementalParser -------------------------
(***************************************************************************)
(* The incremental parser as its caller sees it (next_event and            *)
(* oyl_parse_next, oyl_parser.c): a call returns a buffered event, or runs *)
(* the state machine until a step has produced some, or there is nothing   *)
(* more to produce, or an error.                                           *)
(*                                                                         *)
(* Every step runs on the text known so far.  One that needs more (it is   *)
(* "starved") does not happen; a lexeme is added to the text, or the text  *)
(* ends, and the step is tried again.  So the behaviours are those of all  *)
(* texts of at most MaxText lexemes, each chosen as far as it is read.     *)
(***************************************************************************)
EXTENDS FlowHandlers, BlockHandlers

VARIABLES
  parser,   \* the parser's record
  result,   \* "BUSY" during a call, otherwise what the last call returned
  open      \* history: what is open in the events delivered (EventStream)

vars == <<parser, result, open>>

Errors == {"ERR_PARSE", "ERR_SCAN", "ERR_LIMIT"}
Result == {"READY", "BUSY", "OK", "NONE"} \cup Errors

Init ==
  /\ parser = NewParser
  /\ result = "READY"
  /\ open = <<"BEGIN">>

-----------------------------------------------------------------------------
(***************************************************************************)
(* One call.  A caller may go on after an error.                           *)
(***************************************************************************)

Call ==
  /\ result # "BUSY"
  /\ result' = "BUSY"
  /\ UNCHANGED <<parser, open>>

\* The first event buffered is returned.
Deliver ==
  /\ result = "BUSY"
  /\ parser.incremental
  /\ parser.out_buf # <<>>
  /\ result' = "OK"
  /\ parser' = [parser EXCEPT !.out_buf = Tail(@), !.events_delivered = @ + 1]
  /\ open' = Stream!After(open, Head(parser.out_buf))

Return(status) ==
  /\ result = "BUSY"
  /\ parser.incremental
  /\ parser.out_buf = <<>>
  /\ result' = status
  /\ UNCHANGED <<parser, open>>

ReturnNone == parser.state = "DONE" /\ Return("NONE")

ReturnScanError == parser.state # "DONE" /\ parser.scan_error /\ Return("ERR_SCAN")

ReturnStopped ==
  /\ parser.state # "DONE" /\ ~parser.scan_error
  /\ parser.stop_status # "NONE"
  /\ Return(parser.stop_status)

-----------------------------------------------------------------------------
(***************************************************************************)
(* One step of the state machine, and what next_event makes of it.         *)
(***************************************************************************)

\* The text the step lacked.
MoreText ==
  /\ \/ \E x \in Lexemes : /\ MayFollow(parser.scanner, x)
                           /\ parser' = [parser EXCEPT !.scanner = AppendLexeme(@, x)]
     \/ parser' = [parser EXCEPT !.scanner = EndText(@)]
  /\ UNCHANGED <<result, open>>

\* After a scanner error only the events queued before it are kept.
KeepEvents(q) ==
  IF q.scan_error THEN [q EXCEPT !.out_buf = SubSeq(@, 1, q.scan_error_out)] ELSE q

\* What the call returns after the step, if it does not go on.
Outcome(q) ==
  IF q.scan_error THEN (IF q.out_buf = <<>> THEN "ERR_SCAN" ELSE "BUSY")
  ELSE IF q.status # "OK" THEN q.status
  ELSE IF q.stop_status # "NONE" /\ q.out_buf = <<>> THEN q.stop_status
  ELSE "BUSY"

Finish(q) ==
  IF q.starved THEN MoreText
  ELSE LET kept == KeepEvents(q)
       IN  /\ parser' = [kept EXCEPT !.status = "OK"]
           /\ result' = Outcome(kept)
           /\ UNCHANGED open

\* Mutant: a stopped parser may be stepped on.
SteppingStopped(state) ==
  /\ result = "BUSY"
  /\ parser.incremental
  /\ parser.out_buf = <<>>
  /\ ~parser.scan_error
  /\ parser.state = state

Stepping(state) ==
  /\ result = "BUSY"
  /\ parser.incremental
  /\ parser.out_buf = <<>>
  /\ ~parser.scan_error
  /\ parser.stop_status = "NONE"
  /\ parser.state = state

DoStreamStart       == Stepping("STREAM_START") /\ Finish(StreamStart(parser))
DoStreamDocLoop     == Stepping("STREAM_DOC_LOOP") /\ Finish(StreamDocLoop(parser))
DoStreamEnd         == Stepping("STREAM_END") /\ Finish(StreamEnd(parser))
DoDocDirectives     == Stepping("DOC_DIRECTIVES") /\ Finish(DocDirectives(parser))
DoDocStartExplicit  == Stepping("DOC_START_EXPLICIT") /\ Finish(DocStartExplicit(parser))
DoDocStartImplicit  == Stepping("DOC_START_IMPLICIT") /\ Finish(DocStartImplicit(parser))
DoDocContent        == Stepping("DOC_CONTENT") /\ Finish(DocContent(parser))
DoDocEndExplicit    == Stepping("DOC_END_EXPLICIT") /\ Finish(EndDocument(parser))

DoBlockNode            == Stepping("BLOCK_NODE") /\ Finish(BlockNode(parser))
DoBlockNodeScalar      == Stepping("BLOCK_NODE_SCALAR") /\ Finish(BlockNodeScalar(parser))
DoBlockNodeScalarKey   == Stepping("BLOCK_NODE_SCALAR_KEY") /\ Finish(BlockNodeKey(parser))
DoBlockNodeAlias       == Stepping("BLOCK_NODE_ALIAS") /\ Finish(BlockNodeAlias(parser))
DoBlockNodeAliasKey    == Stepping("BLOCK_NODE_ALIAS_KEY") /\ Finish(BlockNodeKey(parser))
DoBlockNodeSeq         == Stepping("BLOCK_NODE_SEQ") /\ Finish(BlockNodeSeq(parser))
DoBlockNodeExplicitKey ==
  Stepping("BLOCK_NODE_EXPLICIT_KEY") /\ Finish(BlockNodeExplicitKey(parser))
DoBlockNodeBareValue   ==
  Stepping("BLOCK_NODE_BARE_VALUE") /\ Finish(BlockNodeBareValue(parser))

DoBlockMapLoop        == Stepping("BLOCK_MAP_LOOP") /\ Finish(BlockMapLoop(parser))
DoBlockMapExplicitKey ==
  Stepping("BLOCK_MAP_EXPLICIT_KEY") /\ Finish(BlockMapExplicitKey(parser))
DoBlockMapSimpleKey   == Stepping("BLOCK_MAP_SIMPLE_KEY") /\ Finish(BlockMapSimpleKey(parser))
DoBlockMapPostKey     == Stepping("BLOCK_MAP_POST_KEY") /\ Finish(BlockMapPostKey(parser))
DoBlockMapValue       == Stepping("BLOCK_MAP_VALUE") /\ Finish(BlockMapValue(parser))
DoBlockMapEnd         == Stepping("BLOCK_MAP_END") /\ Finish(BlockMapEnd(parser))
DoBlockSeqLoop        == Stepping("BLOCK_SEQ_LOOP") /\ Finish(BlockSeqLoop(parser))
DoBlockSeqEntry       == Stepping("BLOCK_SEQ_ENTRY") /\ Finish(BlockSeqEntry(parser))
DoBlockSeqEnd         == Stepping("BLOCK_SEQ_END") /\ Finish(BlockSeqEnd(parser))

DoFlowNode     == Stepping("FLOW_NODE") /\ Finish(FlowNode(parser))
DoFlowMapLoop  == Stepping("FLOW_MAP_LOOP") /\ Finish(FlowMapLoop(parser))
DoFlowMapValue == Stepping("FLOW_MAP_VALUE") /\ Finish(FlowMapValue(parser))
DoFlowMapSep   == Stepping("FLOW_MAP_SEP") /\ Finish(FlowMapSep(parser))
DoFlowMapEnd   == Stepping("FLOW_MAP_END") /\ Finish(FlowMapEnd(parser))
DoFlowSeqLoop  == Stepping("FLOW_SEQ_LOOP") /\ Finish(FlowSeqLoop(parser))
DoFlowSeqEntryKey    == Stepping("FLOW_SEQ_ENTRY_KEY") /\ Finish(FlowSeqEntryKey(parser))
DoFlowSeqImplicitEnd == Stepping("FLOW_SEQ_IMPLICIT_END") /\ Finish(FlowSeqPairEnd(parser))
DoFlowSeqExplicitKey ==
  Stepping("FLOW_SEQ_EXPLICIT_KEY") /\ Finish(FlowSeqExplicitKey(parser))
DoFlowSeqExplicitValue ==
  Stepping("FLOW_SEQ_EXPLICIT_VALUE") /\ Finish(FlowSeqExplicitValue(parser))
DoFlowSeqExplicitEnd == Stepping("FLOW_SEQ_EXPLICIT_END") /\ Finish(FlowSeqPairEnd(parser))
DoFlowSeqSep   == Stepping("FLOW_SEQ_SEP") /\ Finish(FlowSeqSep(parser))
DoFlowSeqEnd   == Stepping("FLOW_SEQ_END") /\ Finish(FlowSeqEnd(parser))

\* What the incremental parser does not handle: the eager parser starts
\* over, at the last checkpoint if there is one, and the call goes on
\* there, skipping the events delivered since (skip_delivered).
FallBack ==
  /\ Stepping("EAGER_DRAIN")
  /\ LET base == IF parser.ckpt.set THEN parser.ckpt.delivered ELSE 0
     IN  parser' = [parser EXCEPT !.incremental = FALSE, !.state = "DONE",
                                  !.doc_open = FALSE, !.have_token = parser.ckpt.set,
                                  !.has_anchor = FALSE, !.has_tag = FALSE,
                                  !.events_delivered = 0, !.ckpt.set = FALSE,
                                  !.evt_base = base,
                                  !.skip_n = parser.events_delivered - base]
  /\ UNCHANGED <<result, open>>

\* From here on the eager parser answers.
EagerParser == ~parser.incremental /\ UNCHANGED vars

DocumentStep ==
  \/ DoStreamStart \/ DoStreamDocLoop \/ DoStreamEnd \/ DoDocDirectives
  \/ DoDocStartExplicit \/ DoDocStartImplicit \/ DoDocContent \/ DoDocEndExplicit

BlockStep ==
  \/ DoBlockNode \/ DoBlockNodeScalar \/ DoBlockNodeScalarKey \/ DoBlockNodeAlias
  \/ DoBlockNodeAliasKey \/ DoBlockNodeSeq \/ DoBlockNodeExplicitKey
  \/ DoBlockNodeBareValue \/ DoBlockMapLoop
  \/ DoBlockMapExplicitKey \/ DoBlockMapSimpleKey \/ DoBlockMapPostKey
  \/ DoBlockMapValue \/ DoBlockMapEnd \/ DoBlockSeqLoop \/ DoBlockSeqEntry
  \/ DoBlockSeqEnd

FlowStep ==
  \/ DoFlowNode \/ DoFlowMapLoop \/ DoFlowMapValue \/ DoFlowMapSep \/ DoFlowMapEnd
  \/ DoFlowSeqLoop \/ DoFlowSeqEntryKey \/ DoFlowSeqImplicitEnd
  \/ DoFlowSeqExplicitKey \/ DoFlowSeqExplicitValue \/ DoFlowSeqExplicitEnd
  \/ DoFlowSeqSep \/ DoFlowSeqEnd

\* What the parser does within a call, which only waits for the processor.
Work ==
  \/ Deliver \/ ReturnNone \/ ReturnScanError \/ ReturnStopped
  \/ DocumentStep \/ BlockStep \/ FlowStep \/ FallBack

Next == Call \/ Work \/ EagerParser

Spec == Init /\ [][Next]_vars

=============================================================================
