-------------------------- MODULE ParserProperties --------------------------
(***************************************************************************)
(* What makes the incremental parser correct.                              *)
(***************************************************************************)
EXTENDS IncrementalParser

\* Every field and variable keeps its type; no step reaches one of the
\* state machine's unused states (ST_UNROLL, ST_BLOCK_MAP_VALUE_NODE,
\* ST_BLOCK_SEQ_ENTRY_NODE, ST_FLOW_SEQ_CHECK_COLON), and collections only
\* return to states that wait for one to end.
TypeOK ==
  /\ parser \in ParserRecord
  /\ result \in Result
  /\ open \in Seq(Stream!Level)

\* Nothing has gone wrong that makes the rest of the stream unreachable.
Sound(q) == q.incremental /\ ~q.scan_error /\ q.stop_status = "NONE"

-----------------------------------------------------------------------------
(***************************************************************************)
(* The grammar of events.                                                  *)
(***************************************************************************)

Grammar == INSTANCE EventStream

\* The events delivered, whatever the text, the limits and the errors
\* returned on the way, are the start of a well-formed stream: oyl.h's
\* "well-formed stream of events" of the parser.
WellFormed == Grammar!Spec

\* The levels a collection or a value with this return state stands on: its
\* parent's, which its start has advanced, and the pair it belongs to.
Parents(return_state) ==
  CASE return_state = "DOC_END_EXPLICIT" -> <<"DOC_DONE">>
    [] return_state \in {"BLOCK_MAP_POST_KEY", "FLOW_MAP_VALUE"} -> <<"VALUE">>
    [] return_state \in {"BLOCK_MAP_LOOP", "FLOW_MAP_SEP"} -> <<"KEY">>
    [] return_state \in {"BLOCK_SEQ_LOOP", "FLOW_SEQ_SEP"} -> <<"SEQ">>
    [] return_state \in {"FLOW_SEQ_IMPLICIT_END", "FLOW_SEQ_EXPLICIT_END"} -> <<"SEQ", "KEY">>
    [] return_state = "FLOW_SEQ_EXPLICIT_VALUE" -> <<"SEQ", "VALUE">>
    [] OTHER -> <<>>

\* The same before the node has started.
Awaiting(return_state) ==
  CASE return_state = "DOC_END_EXPLICIT" -> <<"DOC">>
    [] return_state \in {"BLOCK_MAP_POST_KEY", "FLOW_MAP_VALUE"} -> <<"KEY">>
    [] return_state \in {"BLOCK_MAP_LOOP", "FLOW_MAP_SEP"} -> <<"VALUE">>
    [] return_state \in {"FLOW_SEQ_IMPLICIT_END", "FLOW_SEQ_EXPLICIT_END"} -> <<"SEQ", "VALUE">>
    [] return_state = "FLOW_SEQ_EXPLICIT_VALUE" -> <<"SEQ", "KEY">>
    [] OTHER -> Parents(return_state)

NodeStates ==
  {"BLOCK_NODE", "BLOCK_NODE_SCALAR", "BLOCK_NODE_SCALAR_KEY", "BLOCK_NODE_ALIAS",
   "BLOCK_NODE_ALIAS_KEY", "BLOCK_NODE_SEQ", "BLOCK_NODE_EXPLICIT_KEY",
   "BLOCK_NODE_BARE_VALUE", "BLOCK_NODE_EMPTY", "FLOW_NODE"}

BetweenDocuments ==
  {"STREAM_DOC_LOOP", "DOC_DIRECTIVES", "DOC_START_EXPLICIT", "DOC_START_IMPLICIT",
   "STREAM_END"}

\* What a state that waits for no node knows to be open beyond the frames.
OpenIn(state) ==
  CASE state = "DOC_CONTENT" -> <<"DOC">>
    [] state \in {"BLOCK_MAP_EXPLICIT_KEY", "BLOCK_MAP_SIMPLE_KEY", "BLOCK_MAP_END",
                  "FLOW_MAP_LOOP", "FLOW_MAP_END"} -> <<"KEY">>
    [] state = "BLOCK_MAP_VALUE" -> <<"VALUE">>
    [] state \in {"BLOCK_SEQ_ENTRY", "BLOCK_SEQ_END", "FLOW_SEQ_LOOP", "FLOW_SEQ_ENTRY",
                  "FLOW_SEQ_ENTRY_KEY", "FLOW_SEQ_EXPLICIT_KEY", "FLOW_SEQ_END"} -> <<"SEQ">>
    [] OTHER -> Parents(state)

\* What is open beyond the frames.
OpenAt(q) == IF q.state \in NodeStates THEN Awaiting(q.node_return) ELSE OpenIn(q.state)

\* What the frames say is open.
Levels(frames) ==
  LET levels[i \in 0..Len(frames)] ==
        IF i = 0 THEN <<"STREAM">> ELSE levels[i-1] \o Parents(frames[i].return_state)
  IN  levels[Len(frames)]

\* What is open once the events of out are delivered too.
AfterAll(start, out) ==
  LET levels[i \in 0..Len(out)] ==
        IF i = 0 THEN start ELSE Stream!After(levels[i-1], out[i])
  IN  levels[Len(out)]

Produced(q) == AfterAll(open, q.out_buf)

\* The parser's frames, state and return state always tell exactly what is
\* open in the events produced: no step forgets an event, drops one because
\* out_buf is full, emits one twice, or returns to the wrong state.
FramesMatchEvents ==
  Sound(parser) /\ parser.state \notin {"EAGER_DRAIN", "STREAM_START", "DONE"} =>
    Produced(parser) = Levels(parser.frames) \o OpenAt(parser)

\* Between documents nothing is left of the last one: the code that would
\* close one there (ST_DOC_START_*, ST_UNROLL) has nothing to do, and the
\* checkpoint is of a clean parser.
CleanBetweenDocuments ==
  Sound(parser) /\ parser.state \in BetweenDocuments =>
    /\ parser.frames = <<>>
    /\ ~parser.doc_open
    /\ ~parser.has_anchor /\ ~parser.has_tag
    /\ Produced(parser) = <<"STREAM">>

\* Pending properties wait for a node of a flow collection; they are never
\* left for a later one.
PropertiesReachTheirNode ==
  Sound(parser) /\ (parser.has_anchor \/ parser.has_tag) =>
    \/ parser.state = "FLOW_SEQ_LOOP" /\ parser.have_token
    \/ parser.state \in {"FLOW_NODE", "EAGER_DRAIN"}

-----------------------------------------------------------------------------
(***************************************************************************)
(* The scanner and the parser.                                             *)
(***************************************************************************)

FlowFrames(frames) == Cardinality({i \in 1..Len(frames) : frames[i].type \in FlowContext})

\* The lookahead token is a bracket the parser has not acted on yet.
PendingBracket(q) ==
  IF ~q.have_token THEN 0
  ELSE IF Tok(q) \in FlowStarts THEN 1
  ELSE IF Tok(q) \in {"FLOW_SEQ_END", "FLOW_MAP_END"} THEN -1 ELSE 0

\* Whether the scanner reads a ':' or a '-' as in flow or in block context
\* depends on its own bracket count, which stays the parser's, up to the
\* lookahead token and until an error.  (A closing bracket outside of flow
\* collections, which is always an error, is not counted.)
ScannerFollowsFrames ==
  Sound(parser) /\ parser.error_msg = "none" /\ parser.state # "DONE"
    /\ ~(FlowFrames(parser.frames) = 0 /\ PendingBracket(parser) = -1) =>
    Len(parser.scanner.flows) = FlowFrames(parser.frames) + PendingBracket(parser)

\* The lookahead cache answers as a new lookahead would, except that an
\* ambiguous one makes every collection a key.
FlowKeyCacheAgrees ==
  LET offset == parser.current.pos
      fresh == FkScan(parser.scanner, offset)
  IN  /\ Sound(parser) /\ parser.have_token /\ Tok(parser) \in FlowStarts
      /\ FkCovers(parser.fk, offset) /\ ~FkUndecided(parser.scanner)
      => \/ FkIsKey(parser.fk, offset) = FkIsKey(fresh, offset)
         \/ parser.fk.ambiguous

\* The token the scanner finds next is a ':'.
ColonNext(q) == LET r == Peek(q) IN Sound(r) /\ r.have_token /\ Tok(r) = "BLOCK_MAP_VALUE"

\* A flow collection whose start was delivered as that of a plain node (an
\* entry of a flow sequence, or a node of a block collection, a document's
\* root included) never turns out to be a key: the scanner finds no ':' after
\* its closing bracket that would make it one.  In block context a ':' that
\* starts its line is an explicit value's, or an empty key's.  What a flow
\* mapping or a pair has in it is not looked ahead for, and not meant here.
NoMissedFlowKey ==
  /\ /\ parser.state \in {"FLOW_SEQ_END", "FLOW_MAP_END"}
     /\ parser.frames[Len(parser.frames)].return_state = "FLOW_SEQ_SEP"
     => ~ColonNext(Consume(parser))
  /\ /\ parser.state \in BlockStates /\ ~parser.have_token
     /\ parser.current.type \in {"FLOW_SEQ_END", "FLOW_MAP_END"}
     /\ ColonNext(parser)
     => Peek(parser).current.first

-----------------------------------------------------------------------------
(***************************************************************************)
(* Limits and errors.                                                      *)
(***************************************************************************)

\* oyl_parser_set_max_events: never more events delivered, or queued to be,
\* than the limit.
EventLimit ==
  MaxEvents > 0 => parser.events_delivered + Len(parser.out_buf) <= MaxEvents

\* oyl_parser_set_max_depth bounds the frames.
FrameLimit == MaxDepth > 0 => Len(parser.frames) <= MaxDepth

\* No limit stops the parser before it is reached.
LimitsAreReached ==
  result = "ERR_LIMIT" =>
    \/ MaxEvents > 0 /\ parser.events_delivered = MaxEvents
    \/ MaxDepth > 0 /\ Len(parser.frames) = MaxDepth

\* So the events delivered nest at most twice as deep: each flow sequence
\* may hold a pair, which is a mapping without a frame.
NestingBound == MaxDepth > 0 => Stream!Nesting(open) <= 2 * MaxDepth

\* After a limit or a scanner error, once the events queued before it are
\* delivered, the parser never produces another one.
StaysStopped ==
  [][ parser.incremental /\ ~Sound(parser) /\ parser.out_buf = <<>>
      => parser'.out_buf = <<>> /\ open' = open ]_vars

-----------------------------------------------------------------------------
(***************************************************************************)
(* What the documentation and the comments claim, and the code does not do *)
(* (see the README's findings).                                            *)
(***************************************************************************)

\* oyl.h: the depth limit "applies to the events delivered".
DeliveredDepth == MaxDepth > 0 => Stream!Nesting(open) <= MaxDepth

=============================================================================
