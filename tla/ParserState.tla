---------------------------- MODULE ParserState ----------------------------
(***************************************************************************)
(* The incremental parser's record (struct oyl_parser) and the helpers its *)
(* states are built from (oyl_parser.c).                                   *)
(*                                                                         *)
(* A step of the state machine threads the record through the helpers in   *)
(* the order the C code calls them.  Events are their types: what a step   *)
(* may do with anchors, tags and values is carry them along.  Allocation   *)
(* failures are left out, so the parser's "oom" flag is just               *)
(* stop_status # "NONE".                                                   *)
(***************************************************************************)
EXTENDS FlowKey, SequencesExt

Stream == INSTANCE EventStream WITH open <- <<>>

CONSTANTS MaxEvents,    \* oyl_parser_set_max_events, 0 for no limit
          MaxDepth,     \* oyl_parser_set_max_depth, 0 for no limit
          CkptSpacing   \* OYL_CKPT_SPACING, in lexemes

ASSUME LimitsAssumption == MaxEvents \in Nat /\ MaxDepth \in Nat /\ CkptSpacing \in Nat

BlockStates ==
  {"STREAM_START", "STREAM_DOC_LOOP", "STREAM_END",
   "DOC_DIRECTIVES", "DOC_START_EXPLICIT", "DOC_START_IMPLICIT", "DOC_CONTENT",
   "DOC_END_EXPLICIT",
   "BLOCK_NODE", "BLOCK_NODE_SCALAR", "BLOCK_NODE_SCALAR_KEY",
   "BLOCK_NODE_ALIAS", "BLOCK_NODE_ALIAS_KEY", "BLOCK_NODE_SEQ",
   "BLOCK_NODE_EXPLICIT_KEY", "BLOCK_NODE_BARE_VALUE", "BLOCK_NODE_EMPTY",
   "BLOCK_MAP_LOOP", "BLOCK_MAP_EXPLICIT_KEY", "BLOCK_MAP_SIMPLE_KEY",
   "BLOCK_MAP_POST_KEY", "BLOCK_MAP_VALUE", "BLOCK_MAP_END",
   "BLOCK_SEQ_LOOP", "BLOCK_SEQ_ENTRY", "BLOCK_SEQ_END"}

FlowStates ==
  {"FLOW_NODE", "FLOW_MAP_LOOP", "FLOW_MAP_VALUE", "FLOW_MAP_SEP", "FLOW_MAP_END",
   "FLOW_SEQ_LOOP", "FLOW_SEQ_ENTRY", "FLOW_SEQ_ENTRY_KEY", "FLOW_SEQ_IMPLICIT_END",
   "FLOW_SEQ_EXPLICIT_KEY", "FLOW_SEQ_EXPLICIT_VALUE", "FLOW_SEQ_EXPLICIT_END",
   "FLOW_SEQ_SEP", "FLOW_SEQ_END"}

State == BlockStates \cup FlowStates \cup {"EAGER_DRAIN", "DONE"}

BlockContext == {"BLOCK_MAP", "BLOCK_SEQ"}
FlowContext == {"FLOW_MAP", "FLOW_SEQ"}

\* Where a node or a collection may return to, once it is over (STREAM_START
\* is a new parser's zero).
ReturnState ==
  {"STREAM_START", "DOC_END_EXPLICIT",
   "BLOCK_MAP_POST_KEY", "BLOCK_MAP_LOOP", "BLOCK_SEQ_LOOP",
   "FLOW_MAP_VALUE", "FLOW_MAP_SEP", "FLOW_SEQ_SEP",
   "FLOW_SEQ_IMPLICIT_END", "FLOW_SEQ_EXPLICIT_VALUE", "FLOW_SEQ_EXPLICIT_END"}

Frame == [type : BlockContext \cup FlowContext, indent : Nat, return_state : ReturnState]

\* A document's start a fallback may re-parse from.
Checkpoint == [set : BOOLEAN, pos : Nat, delivered : Nat]

Message == {"none", "scan", "parse", "limit"}

\* status: what the step returns; starved: it ran out of known text.
ParserRecord ==
  [scanner : ScannerState, current : Token, have_token : BOOLEAN,
   state : State, node_return : ReturnState, frames : Seq(Frame),
   out_buf : Seq(Stream!Event), events_delivered : Nat,
   saved_node : Stream!Leaf, saved_node_col : Nat,
   has_anchor : BOOLEAN, has_tag : BOOLEAN,
   doc_open : BOOLEAN, doc_start_line : Nat,
   value_colon_line : Nat, value_colon_starts_line : BOOLEAN,
   stop_status : {"NONE", "ERR_LIMIT", "ERR_PARSE"},
   scan_error : BOOLEAN, scan_error_out : Nat,
   error_msg : Message,
   fk : FlowKeys, ckpt : Checkpoint,
   incremental : BOOLEAN, evt_base : Nat, skip_n : Nat,
   status : {"OK", "ERR_PARSE"}, starved : BOOLEAN]

\* oyl_parser_new.
NewParser ==
  [scanner |-> NewScanner, current |-> TokenAt(NewScanner, "NONE"), have_token |-> FALSE,
   state |-> "STREAM_START", node_return |-> "STREAM_START", frames |-> <<>>,
   out_buf |-> <<>>, events_delivered |-> 0,
   saved_node |-> "SCALAR", saved_node_col |-> 0,
   has_anchor |-> FALSE, has_tag |-> FALSE,
   doc_open |-> FALSE, doc_start_line |-> 0,
   value_colon_line |-> 0, value_colon_starts_line |-> FALSE,
   stop_status |-> "NONE",
   scan_error |-> FALSE, scan_error_out |-> 0,
   error_msg |-> "none",
   fk |-> NoFlowKeys, ckpt |-> [set |-> FALSE, pos |-> 0, delivered |-> 0],
   incremental |-> TRUE, evt_base |-> 0, skip_n |-> 0,
   status |-> "OK", starved |-> FALSE]

-----------------------------------------------------------------------------
(***************************************************************************)
(* Errors and limits.                                                      *)
(***************************************************************************)

\* PARSE_ERROR.
ParseError(q) == [q EXCEPT !.status = "ERR_PARSE", !.error_msg = "parse"]

\* stop_with: the first reason to stop stays.
StopWith(q, status) ==
  IF q.stop_status # "NONE" THEN q
  ELSE [q EXCEPT !.stop_status = status,
                 !.error_msg = IF status = "ERR_LIMIT" THEN "limit" ELSE "parse"]

-----------------------------------------------------------------------------
(***************************************************************************)
(* Tokens.  A failed peek leaves "current" as it was, so a state that does *)
(* not look at peek_token's result goes on with the stale token.           *)
(***************************************************************************)

\* What the scanner's outcome r makes of the record.
Peeked(q, r) ==
  CASE r.res = "OK" -> [q EXCEPT !.scanner = r.s, !.current = r.tok, !.have_token = TRUE]
    [] r.res = "ERROR" ->
         [q EXCEPT !.scanner = r.s, !.scan_error = TRUE,
                   !.scan_error_out = Len(q.out_buf), !.error_msg = "scan"]
    [] r.res = "STARVED" -> [q EXCEPT !.starved = TRUE]

Peek(q) == IF q.have_token THEN q ELSE Peeked(q, Scan(q.scanner))

Consume(q) == [q EXCEPT !.have_token = FALSE]

Tok(q) == q.current.type
Col(q) == q.current.col

PropTokens == {"TAG", "ANCHOR"}
FlowStarts == {"FLOW_SEQ_START", "FLOW_MAP_START"}
DocumentEnds == {"DOC_START", "DOC_END", "STREAM_END"}

-----------------------------------------------------------------------------
(***************************************************************************)
(* Events and frames.                                                      *)
(***************************************************************************)

OutSize == 8  \* out_buf's size; an event past it would be dropped

\* Mutant: the event that reaches the limit is let through.
AtEventLimitLate(q) ==
  MaxEvents > 0 /\ q.events_delivered + Len(q.out_buf) > MaxEvents

\* Mutant: the last event allowed is refused.
AtEventLimitEarly(q) ==
  MaxEvents > 0 /\ q.events_delivered + Len(q.out_buf) + 1 >= MaxEvents

AtEventLimit(q) ==
  MaxEvents > 0 /\ q.events_delivered + Len(q.out_buf) >= MaxEvents

\* inc_emit.
Emit(q, e) ==
  IF AtEventLimit(q) THEN StopWith(q, "ERR_LIMIT")
  ELSE IF Len(q.out_buf) < OutSize THEN [q EXCEPT !.out_buf = Append(@, e)]
  ELSE q

AttachProps(q) == [q EXCEPT !.has_anchor = FALSE, !.has_tag = FALSE]

\* inc_emit_scalar_token: at the limit the token stays.
EmitScalarToken(q) ==
  IF AtEventLimit(q) THEN StopWith(q, "ERR_LIMIT")
  ELSE Consume(Emit(AttachProps(q), "SCALAR"))

CollectionStarts == {"MAPPING_START", "SEQUENCE_START"}

\* Mutant: the start of a collection that is too deep is delivered.
WithholdNothing(out) == out

\* The events before the last collection start; all of them if there is none.
Withhold(out) ==
  LET starts == {k \in 1..Len(out) : out[k] \in CollectionStarts}
  IN  IF starts = {} THEN out
      ELSE SubSeq(out, 1, (CHOOSE k \in starts : \A j \in starts : j <= k) - 1)

\* Mutant: the depth limit is compared after the push.
PushFrameLate(q, type, indent, return_state) ==
  IF MaxDepth > 0 /\ Len(q.frames) > MaxDepth
  THEN StopWith([q EXCEPT !.out_buf = Withhold(@)], "ERR_LIMIT")
  ELSE [q EXCEPT !.frames = Append(@, [type |-> type, indent |-> indent,
                                        return_state |-> return_state])]

\* Mutant: a collection that is too deep is dropped, and the parser goes on.
PushFrameSkips(q, type, indent, return_state) ==
  IF MaxDepth > 0 /\ Len(q.frames) >= MaxDepth
  THEN [q EXCEPT !.out_buf = Withhold(@)]
  ELSE [q EXCEPT !.frames = Append(@, [type |-> type, indent |-> indent,
                                        return_state |-> return_state])]

\* inc_push_frame.
PushFrame(q, type, indent, return_state) ==
  IF /\ type \in BlockContext
     /\ q.doc_start_line > 0
     /\ q.current.line = q.doc_start_line
  THEN StopWith(q, "ERR_PARSE")
  ELSE IF MaxDepth > 0 /\ Len(q.frames) >= MaxDepth
  THEN StopWith([q EXCEPT !.out_buf = Withhold(@)], "ERR_LIMIT")
  ELSE [q EXCEPT !.frames = Append(@, [type |-> type, indent |-> indent,
                                        return_state |-> return_state])]

Goto(q, state) == [q EXCEPT !.state = state]

GotoNode(q, state, node_return) == [q EXCEPT !.state = state, !.node_return = node_return]

\* inc_pop_frame, and on to the state the frame returns to.
PopFrame(q) ==
  IF q.frames = <<>> THEN Goto(q, "DONE")
  ELSE [q EXCEPT !.state = q.frames[Len(q.frames)].return_state,
                 !.frames = SubSeq(@, 1, Len(@) - 1)]

TopIndent(q) == IF q.frames = <<>> THEN 0 ELSE q.frames[Len(q.frames)].indent

-----------------------------------------------------------------------------
(***************************************************************************)
(* Anchors and tags.  The incremental parser only reads them inside a flow *)
(* collection (in block context it falls back), where a node's properties  *)
(* may be on any line: the tests of in_flow() in consume_props are true.   *)
(***************************************************************************)

IsNewProp(q) ==
  \/ Tok(q) = "ANCHOR" /\ ~q.has_anchor
  \/ Tok(q) = "TAG" /\ ~q.has_tag

TakeProp(q) ==
  IF Tok(q) = "ANCHOR" THEN Consume([q EXCEPT !.has_anchor = TRUE])
  ELSE Consume([q EXCEPT !.has_tag = TRUE])

TakePropIfAny(q) == IF q.have_token /\ IsNewProp(q) THEN Peek(TakeProp(q)) ELSE q

RefuseAliasWithProps(q) ==
  IF q.have_token /\ Tok(q) = "ALIAS" /\ (q.has_anchor \/ q.has_tag)
  THEN ParseError(q) ELSE q

\* consume_props: at most one anchor and one tag, and none before an alias.
ConsumeProps(q) == RefuseAliasWithProps(TakePropIfAny(TakePropIfAny(Peek(q))))

PropsFailed(q) == q.status # "OK" \/ ~q.have_token

-----------------------------------------------------------------------------
(***************************************************************************)
(* The flow-key lookahead and the checkpoint.                              *)
(***************************************************************************)

\* Make the lookahead cache cover the collection opened at offset.
LookAhead(q, offset) ==
  IF FkCovers(q.fk, offset) THEN q
  ELSE IF FkUndecided(q.scanner) THEN [q EXCEPT !.starved = TRUE]
  ELSE [q EXCEPT !.fk = FkScan(q.scanner, offset)]

\* inc_checkpoint.
TakeCheckpoint(q) ==
  IF \/ q.out_buf # <<>> \/ q.scan_error \/ q.doc_open \/ q.frames # <<>>
     \/ q.has_anchor \/ q.has_tag \/ ~q.have_token
     \/ q.ckpt.set /\ q.current.pos - q.ckpt.pos < CkptSpacing
  THEN q
  ELSE [q EXCEPT !.ckpt = [set |-> TRUE, pos |-> q.current.pos,
                           delivered |-> q.events_delivered]]

=============================================================================
