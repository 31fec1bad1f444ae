----------------------------- MODULE EagerParser -----------------------------
(***************************************************************************)
(* The eager parser: the recursive functions of oyl_parser.c, from         *)
(* parse_flow_sequence to parse_stream, and the call that parses the next  *)
(* document.  A handler is what a function does at the token it goes on    *)
(* at, until it needs the next one.                                        *)
(***************************************************************************)
EXTENDS EagerState

-----------------------------------------------------------------------------
(***************************************************************************)
(* Flow collections.                                                       *)
(***************************************************************************)

Start(token) == IF token = "FLOW_SEQ_START" THEN "SEQUENCE_START" ELSE "MAPPING_START"

\* The current token opens a flow collection: its start, with the pending
\* properties, and its context; the function goes on in its loop.
OpenFlow(q) ==
  PushContext(EnqueueWithProps(Consume(q), Start(Tok(q))),
              IF Tok(q) = "FLOW_SEQ_START" THEN "FLOW_SEQ" ELSE "FLOW_MAP", Col(q))

FlowLoop(q) == IF Tok(q) = "FLOW_SEQ_START" THEN "FLOW_SEQ" ELSE "FLOW_MAP"

CloseFlow(q, end) ==
  Finished(PopContext(EnqueuePlain([Consume(q) EXCEPT !.close_line = q.current.line], end)))

\* A node, or an empty one at one of the tokens that follow it.
NodeUnless(q, follow, next) ==
  IF Tok(q) \in follow THEN GoOn(EmitEmpty(q), next)
  ELSE CallAndGoOn(q, "FLOW_NODE", next)

\* The value after a key, empty if there is no ':'.
ValueAt(q, node, next) ==
  IF Tok(q) = "BLOCK_MAP_VALUE" THEN GoOn(Consume(q), node) ELSE GoOn(EmitEmpty(q), next)

\* After an entry of a collection.
EntryEnd(q, close, loop) ==
  CASE Tok(q) = "FLOW_ENTRY" -> GoOn(Consume(q), loop)
    [] Tok(q) = close -> GoOn(q, loop)
    [] OTHER -> EagerError(q)

FlowSeq(q) ==
  CASE Tok(q) = "FLOW_SEQ_END" -> CloseFlow(q, "SEQUENCE_END")
    [] Tok(q) = "FLOW_ENTRY" -> EagerError(q)
    [] Tok(q) = "BLOCK_MAP_KEY" ->
         GoOn(Consume(EnqueuePlain(q, "MAPPING_START")), "FLOW_PAIR_KEY")
    [] OTHER -> CallThen(q, "FLOW_NODE", [Top(q) EXCEPT !.at = "FLOW_SEQ_NODE",
                                                        !.index = Len(q.events) + 1])

\* Mutant: the mapping starts after its key.
FlowSeqNodeLate(q) ==
  IF Tok(q) # "BLOCK_MAP_VALUE" THEN GoOn(q, "FLOW_SEQ_NEXT")
  ELSE GoOn(Consume(InsertEvent(q, Len(q.events) + 1, EventWith("MAPPING_START", NoProps))),
            "FLOW_PAIR_NODE")

\* After an entry: a ':' makes it the key of a pair, whose mapping starts
\* before it (if it has any events: there are none past the limit).
FlowSeqNode(q) ==
  CASE Tok(q) # "BLOCK_MAP_VALUE" -> GoOn(q, "FLOW_SEQ_NEXT")
    [] Len(q.events) < Top(q).index -> GoOn(Consume(q), "FLOW_PAIR_NODE")
    [] OverLimit(q) -> CheckStop(StopWith(q, "ERR_LIMIT"))
    [] OTHER -> GoOn(Consume(InsertEvent(q, Top(q).index, EventWith("MAPPING_START", NoProps))),
                     "FLOW_PAIR_NODE")

FlowPairKey(q) ==
  NodeUnless(q, {"BLOCK_MAP_VALUE", "FLOW_ENTRY", "FLOW_SEQ_END"}, "FLOW_PAIR_VALUE")
FlowPairValue(q) == ValueAt(q, "FLOW_PAIR_NODE", "FLOW_PAIR_END")
FlowPairNode(q) == NodeUnless(q, {"FLOW_ENTRY", "FLOW_SEQ_END"}, "FLOW_PAIR_END")
FlowPairEnd(q) == GoOn(EnqueuePlain(q, "MAPPING_END"), "FLOW_SEQ_NEXT")
FlowSeqNext(q) == EntryEnd(q, "FLOW_SEQ_END", "FLOW_SEQ")

FlowMap(q) ==
  CASE Tok(q) = "FLOW_MAP_END" -> CloseFlow(q, "MAPPING_END")
    [] Tok(q) = "FLOW_ENTRY" -> EagerError(q)
    [] Tok(q) = "BLOCK_MAP_KEY" -> GoOn(Consume(q), "FLOW_KEY")
    [] OTHER -> CallAndGoOn(q, "FLOW_NODE", "FLOW_VALUE")

FlowKeyAt(q) == NodeUnless(q, {"BLOCK_MAP_VALUE", "FLOW_ENTRY", "FLOW_MAP_END"}, "FLOW_VALUE")
FlowValue(q) == ValueAt(q, "FLOW_VALUE_NODE", "FLOW_MAP_NEXT")
FlowValueNode(q) == NodeUnless(q, {"FLOW_ENTRY", "FLOW_MAP_END"}, "FLOW_MAP_NEXT")
FlowMapNext(q) == EntryEnd(q, "FLOW_MAP_END", "FLOW_MAP")

\* parse_flow_node, its properties read.
FlowNodeAt(q) ==
  CASE Tok(q) = "ALIAS" -> Finished(Consume(EnqueueWithProps(q, "ALIAS")))
    [] Tok(q) \in FlowStarts -> GoOn(OpenFlow(q), FlowLoop(q))
    [] Tok(q) = "SCALAR" ->
         Become(Consume(DropProps(q)), [NewFrame("FLOW_SCALAR") EXCEPT !.props = Pending(q)])
    [] OTHER -> Finished(EmitEmpty(q))

FlowScalar(q) == Finished(Enqueue(q, EventWith("SCALAR", Top(q).props)))

-----------------------------------------------------------------------------
(***************************************************************************)
(* Block collections.                                                      *)
(***************************************************************************)

Indent(q) == Top(q).indent

\* A block collection's end, by the function that called its parser.
CloseBlock(q, end) == Finished(PopContext(EnqueuePlain(q, end)))

BlockLoop(q, loop, indent) == Become(q, [NewFrame(loop) EXCEPT !.indent = indent])

\* The key of a block mapping is enqueued: its value, then the next entry.
AfterKey(q, indent) ==
  [q EXCEPT !.calls = Front(@) \o <<[NewFrame("BLOCK_MAP") EXCEPT !.indent = indent],
                                    [NewFrame("MAP_VALUE") EXCEPT !.indent = indent]>>]

\* The current token is not indented enough to be the content of an entry
\* of the mapping; a block sequence need not be indented past it.
EndsEntry(q) ==
  \/ Tok(q) \in DocumentEnds
  \/ Col(q) < Indent(q)
  \/ Col(q) = Indent(q) /\ Tok(q) # "BLOCK_SEQ_ENTRY"

MapValue(q) ==
  IF Tok(q) # "BLOCK_MAP_VALUE" THEN Finished(EmitEmpty(q))
  ELSE GoOn(Consume(q), "MAP_VALUE_NODE")

MapValueNode(q) == IF EndsEntry(q) THEN Finished(EmitEmpty(q)) ELSE GoOn(q, "BLOCK_NODE")

BlockMap(q) ==
  CASE Col(q) # Indent(q) \/ Tok(q) \in DocumentEnds \cup {"BLOCK_SEQ_ENTRY"} ->
         CloseBlock(q, "MAPPING_END")
    [] Tok(q) = "BLOCK_MAP_KEY" -> GoOn(Consume(q), "MAP_KEY")
    [] Tok(q) = "BLOCK_MAP_VALUE" -> AfterKey(EmitEmpty(q), Indent(q))
    [] OTHER -> CallAndGoOn(q, "PROPS", "IMPLICIT_KEY")

\* After a '?': the key, if it is not empty.
MapKey(q) ==
  CASE EndsEntry(q) -> GoOn(EmitEmpty(q), "MAP_KEY_DONE")
    [] Tok(q) \in PropTokens -> CallAndGoOn(q, "PROPS", "MAP_KEY_PROPS")
    [] OTHER -> CallAndGoOn(q, "BLOCK_NODE", "MAP_KEY_DONE")

MapKeyProps(q) ==
  IF Tok(q) = "BLOCK_MAP_VALUE" /\ Col(q) = Indent(q) THEN GoOn(EmitEmpty(q), "MAP_KEY_DONE")
  ELSE CallAndGoOn(q, "BLOCK_NODE", "MAP_KEY_DONE")

MapKeyDone(q) ==
  CASE Tok(q) = "BLOCK_MAP_VALUE" /\ Col(q) > Indent(q) -> EagerError(q)
    [] Tok(q) = "BLOCK_MAP_VALUE" /\ Col(q) < Indent(q) -> GoOn(EmitEmpty(q), "BLOCK_MAP")
    [] OTHER -> AfterKey(q, Indent(q))

\* A key that starts at the mapping's column, its properties read.  A leaf
\* is enqueued once its ':' is seen.
LeafKey(q, at) ==
  Become(Consume(DropProps(q)), [Top(q) EXCEPT !.at = at, !.props = Pending(q)])

ImplicitKey(q) ==
  CASE PropsAbove(q) -> EagerError(q)
    [] Tok(q) = "BLOCK_MAP_VALUE" /\ HasProps(q) -> AfterKey(EmitEmpty(q), Indent(q))
    [] Tok(q) = "SCALAR" -> LeafKey(q, "SCALAR_KEY")
    [] Tok(q) = "ALIAS" /\ Col(q) = Indent(q) -> LeafKey(q, "ALIAS_KEY")
    [] Tok(q) \in FlowStarts -> CallAndGoOn(q, "FLOW_NODE", "FLOW_KEY_DONE")
    [] OTHER -> CloseBlock(q, "MAPPING_END")

KeyColon(q) == IF Tok(q) = "BLOCK_MAP_VALUE" THEN AfterKey(q, Indent(q)) ELSE EagerError(q)

LeafKeyColon(q, type) ==
  IF Tok(q) = "BLOCK_MAP_VALUE" THEN KeyColon(Enqueue(q, EventWith(type, Top(q).props)))
  ELSE EagerError(q)

BlockSeq(q) ==
  IF Tok(q) # "BLOCK_SEQ_ENTRY" \/ Col(q) # Indent(q) THEN CloseBlock(q, "SEQUENCE_END")
  ELSE GoOn(Consume(q), "SEQ_ENTRY")

\* An entry that ends the document ends the loop too.
SeqEntry(q) ==
  CASE Col(q) <= Indent(q) -> GoOn(EmitEmpty(q), "BLOCK_SEQ")
    [] Tok(q) \in DocumentEnds -> CloseBlock(EmitEmpty(q), "SEQUENCE_END")
    [] OTHER -> CallAndGoOn(q, "BLOCK_NODE", "BLOCK_SEQ")

-----------------------------------------------------------------------------
(***************************************************************************)
(* parse_block_node.                                                       *)
(***************************************************************************)

\* Mutant: the ':' may be on any line.
KeyColonOnAnyLine(q, line) == Tok(q) = "BLOCK_MAP_VALUE" /\ ~InFlowContext(q)

\* key_colon_follows.
KeyColonFollows(q, line) ==
  Tok(q) = "BLOCK_MAP_VALUE" /\ ~InFlowContext(q) /\ q.current.line = line

StartMapping(q, indent) == PushContext(EnqueueWithProps(q, "MAPPING_START"), "BLOCK_MAP", indent)

StartSequence(q) ==
  BlockLoop(PushContext(EnqueueWithProps(q, "SEQUENCE_START"), "BLOCK_SEQ", Col(q)),
            "BLOCK_SEQ", Col(q))

\* The pending properties' node is empty: the current token, on a later
\* line, is the enclosing collection's next entry.
StartsNextEntry(q) ==
  /\ PropsAbove(q) /\ ~InFlowContext(q) /\ q.contexts # <<>>
  /\ \/ Col(q) < ParentIndent(q)
     \/ Col(q) = ParentIndent(q) /\ ~(Tok(q) = "BLOCK_SEQ_ENTRY" /\ InContext(q, {"BLOCK_MAP"}))

\* The same at a '-' that is the parent's.
SeqEntryOfParent(q) ==
  /\ HasProps(q) /\ q.contexts # <<>>
  /\ \/ Col(q) < ParentIndent(q)
     \/ InContext(q, {"BLOCK_SEQ"}) /\ Col(q) = ParentIndent(q)

\* Two sets of properties that cannot both be one node's.
Conflict(a, b) ==
  \/ a.anchor # None /\ b.anchor # None
  \/ a.tag # None /\ b.tag # None

Union(a, b) ==
  [anchor |-> IF a.anchor # None THEN a.anchor ELSE b.anchor,
   tag |-> IF a.tag # None THEN a.tag ELSE b.tag]

\* A node that may turn out to be a key: it would start a mapping at indent.
MaybeKey(q, at, indent) ==
  [NewFrame(at) EXCEPT !.indent = indent, !.index = Len(q.events) + 1, !.line = q.current.line]

\* Properties of an inner node follow the pending ones, the outer node's.
NodeInNode(q) ==
  CallThen(DropProps(q), "PROPS",
           [NewFrame("INNER_NODE") EXCEPT !.outer = Pending(q), !.line = q.current.line,
                                          !.indent = Col(q)])

\* Where the inner node starts, its properties on its line included.
InnerColumn(q) == IF q.current.line = Top(q).line THEN Indent(q) ELSE Col(q)

InnerNode(q) ==
  LET f == Top(q)
      o == WithPending(q, f.outer)
  IN  CASE Tok(q) = "SCALAR" ->
             Become(Consume(o), [MaybeKey(q, "INNER_SCALAR", InnerColumn(q)) EXCEPT !.props = Pending(q)])
        [] Tok(q) = "BLOCK_SEQ_ENTRY" -> WithPending(StartSequence(o), Pending(q))
        [] Tok(q) = "BLOCK_MAP_VALUE" /\ ~InFlowContext(q) ->
             AfterKey(Enqueue(StartMapping(o, f.indent), EventWith("SCALAR", Pending(q))), f.indent)
        [] Tok(q) \in FlowStarts ->
             CallThen(OpenFlow(q), FlowLoop(q),
                      [MaybeKey(q, "INNER_FLOW", InnerColumn(q)) EXCEPT !.outer = f.outer,
                                                                        !.props = Pending(q)])
        [] OTHER -> Finished(EmitEmpty(q))

InnerScalar(q) ==
  LET f == Top(q)
  IN  CASE KeyColonFollows(q, f.line) ->
             AfterKey(Enqueue(StartMapping(q, f.indent), EventWith("SCALAR", f.props)), f.indent)
        [] Conflict(Pending(q), f.props) -> EagerError(q)
        [] OTHER ->
             Finished(Enqueue(DropProps(q), EventWith("SCALAR", Union(Pending(q), f.props))))

\* The collection at index is a key: its mapping starts before it.
KeyMapping(q, index, indent, props) ==
  IF OverLimit(q) THEN CheckStop(StopWith(q, "ERR_LIMIT"))
  ELSE AfterKey(PushContext(InsertEvent(q, index, EventWith("MAPPING_START", props)),
                            "BLOCK_MAP", indent), indent)

\* Unlike after any other key, the ':' may be on any line.
InnerFlow(q) ==
  LET f == Top(q)
  IN  CASE Tok(q) = "BLOCK_MAP_VALUE" -> KeyMapping(q, f.index, f.indent, f.outer)
        [] Conflict(f.outer, f.props) -> EagerError(q)
        [] OTHER -> Finished([DropProps(q) EXCEPT
                                !.events[f.index] = EventWith(@.type, Union(f.outer, f.props))])

AliasNode(q) ==
  LET f == Top(q)
  IN  CASE KeyColonFollows(q, f.line) ->
             AfterKey(EnqueuePlain(StartMapping(q, f.indent), "ALIAS"), f.indent)
        [] HasProps(q) -> EagerError(q)
        [] OTHER -> Finished(EnqueuePlain(q, "ALIAS"))

\* Mutant: the collection keeps the properties that move to the mapping.
MoveNoProps(q, f) == q

\* move_props_to_key_map: those above the collection, which "outer" holds.
MoveProps(q, f) ==
  IF f.outer = NoProps THEN q
  ELSE [q EXCEPT !.events[f.index] = EventWith(@.type, NoProps)]

FlowOrKey(q) ==
  LET f == Top(q)
  IN  IF \/ ~KeyColonFollows(q, q.close_line)
         \/ InContext(q, {"BLOCK_MAP"}) /\ Col(q) = ParentIndent(q)
      THEN Finished(q)
      ELSE KeyMapping(MoveProps(q, f), f.index, f.indent, f.outer)

FlowKeyColumn(q) == IF PropsHere(q) THEN q.props_col ELSE Col(q)

\* Where a scalar key starts, the properties on its line included.
ScalarKeyColumn(q) ==
  IF PropsHere(q) /\ q.props_col < Col(q) THEN q.props_col ELSE Col(q)

\* Properties on the scalar's line are the key's, others the mapping's.
ScalarNode(q) ==
  LET f == Top(q)
  IN  IF ~(/\ KeyColonFollows(q, f.line)
           /\ f.indent > ParentIndent(q) /\ Col(q) > ParentIndent(q))
      THEN Finished(EnqueueWithProps(q, "SCALAR"))
      ELSE IF q.props_line # f.line
      THEN AfterKey(EnqueuePlain(StartMapping(q, f.indent), "SCALAR"), f.indent)
      ELSE AfterKey(EnqueueWithProps(PushContext(EnqueuePlain(q, "MAPPING_START"),
                                                 "BLOCK_MAP", f.indent), "SCALAR"), f.indent)

\* A ':' without a key: an empty key, which has the properties on its line.
BareValue(q) ==
  IF PropsHere(q)
  THEN AfterKey(EmitEmpty(PushContext(EnqueuePlain(q, "MAPPING_START"), "BLOCK_MAP", q.props_col)),
                q.props_col)
  ELSE BlockLoop(StartMapping(q, Col(q)), "BLOCK_MAP", Col(q))

\* The node's own properties are read, and pending.
BlockNodeAt(q) ==
  CASE Tok(q) = "BLOCK_SEQ_ENTRY" /\ PropsHere(q) -> EagerError(q)
    [] StartsNextEntry(q) -> Finished(EmitEmpty(q))
    [] Tok(q) \in PropTokens /\ HasProps(q) -> NodeInNode(q)
    [] Tok(q) = "ALIAS" -> Become(Consume(q), MaybeKey(q, "ALIAS_NODE", Col(q)))
    [] Tok(q) \in FlowStarts ->
         CallThen(OpenFlow(q), FlowLoop(q),
                  [MaybeKey(q, "FLOW_OR_KEY", FlowKeyColumn(q)) EXCEPT
                     !.outer = IF PropsAbove(q) THEN Pending(q) ELSE NoProps])
    [] Tok(q) = "BLOCK_SEQ_ENTRY" ->
         IF SeqEntryOfParent(q) THEN Finished(EmitEmpty(q)) ELSE StartSequence(q)
    [] Tok(q) = "SCALAR" ->
         IF InContext(q, {"BLOCK_MAP"}) /\ Col(q) <= ParentIndent(q) THEN Finished(EmitEmpty(q))
         ELSE Become(Consume(q), MaybeKey(q, "SCALAR_NODE", ScalarKeyColumn(q)))
    [] Tok(q) = "BLOCK_MAP_KEY" -> BlockLoop(StartMapping(q, Col(q)), "BLOCK_MAP", Col(q))
    [] Tok(q) = "BLOCK_MAP_VALUE" /\ ~InFlowContext(q) -> BareValue(q)
    [] OTHER -> Finished(EmitEmpty(q))

-----------------------------------------------------------------------------
(***************************************************************************)
(* Documents.                                                              *)
(***************************************************************************)

CloseTop(q) ==
  IF q.contexts = <<>> \/ InFlowContext(q) THEN q
  ELSE PopContext(EnqueuePlain(q, IF InContext(q, {"BLOCK_MAP"})
                                  THEN "MAPPING_END" ELSE "SEQUENCE_END"))

\* unroll_all: something is open here only after an error.
UnrollAll(q) ==
  LET unrolled[n \in 0..Len(q.contexts)] == IF n = 0 THEN q ELSE CloseTop(unrolled[n - 1])
  IN  unrolled[Len(q.contexts)]

\* Mutant: the document stays open.
CloseDocumentNot(q) == IF ~q.doc_open THEN q ELSE EnqueuePlain(UnrollAll(q), "DOC_END")

CloseDocument(q) ==
  IF ~q.doc_open THEN q ELSE [EnqueuePlain(UnrollAll(q), "DOC_END") EXCEPT !.doc_open = FALSE]

OpenDocument(q, line) ==
  [EnqueuePlain([q EXCEPT !.doc_start_line = line], "DOC_START") EXCEPT !.doc_open = TRUE]

DocumentAt(q) ==
  CASE Tok(q) = "DOC_START" ->
         GoOn(OpenDocument(Consume(CloseDocument(q)), q.current.line), "DOC_CONTENT")
    [] Tok(q) = "DOC_END" -> Finished(Consume(CloseDocument(q)))
    [] Tok(q) = "STREAM_END" -> Finished(q)
    [] Tok(q) \in {"FLOW_SEQ_END", "FLOW_MAP_END", "FLOW_ENTRY"} -> EagerError(q)
    [] OTHER -> CallAndGoOn(IF q.doc_open THEN q ELSE OpenDocument(q, 0), "BLOCK_NODE", "DOC_DONE")

\* What the directives say is left out (see Directives).
Document(q) ==
  CASE Tok(q) # "DIRECTIVE" -> DocumentAt(q)
    [] q.doc_open -> EagerError(q)
    [] OTHER -> GoOn(Consume(q), "DIRECTIVES")

AfterDirective(q) ==
  IF Tok(q) \in {"DIRECTIVE", "DOC_START"} THEN Document(q) ELSE EagerError(q)

DocumentContent(q) ==
  CASE Tok(q) = "DIRECTIVE" -> EagerError(q)
    [] Tok(q) \in DocumentEnds -> Finished(EmitEmpty(q))
    [] OTHER -> CallAndGoOn(q, "BLOCK_NODE", "DOC_DONE")

\* expect_document_end.
DocumentDone(q) ==
  IF Tok(q) \in DocumentEnds \cup {"NONE"} THEN Finished(q) ELSE EagerError(q)

\* Mutant: the stream ends even if its last events found no place.
StreamAtUnchecked(q) ==
  CASE ~q.stream_started ->
         [EnqueuePlain(Consume(q), "STREAM_START") EXCEPT !.stream_started = TRUE]
    [] q.stream_started /\ Tok(q) \in {"STREAM_END", "NONE"} ->
         [Finished(EnqueuePlain(Consume(CloseDocument(q)), "STREAM_END"))
            EXCEPT !.stream_ended = TRUE]
    [] OTHER -> CallThen(q, "DOCUMENT", MaybeKey(q, "STREAM_DONE", q.current.pos))

\* parse_stream: the stream's next document.
StreamAt(q) ==
  CASE ~q.stream_started ->
         [EnqueuePlain(Consume(q), "STREAM_START") EXCEPT !.stream_started = TRUE]
    [] q.stream_started /\ Tok(q) \in {"STREAM_END", "NONE"} ->
         CheckStop([Finished(EnqueuePlain(Consume(CloseDocument(q)), "STREAM_END"))
                      EXCEPT !.stream_ended = TRUE])
    [] OTHER -> CallThen(q, "DOCUMENT", MaybeKey(q, "STREAM_DONE", q.current.pos))

\* A document that consumed nothing would be parsed for ever.
StreamDone(q) ==
  IF q.have_token /\ q.current.pos = Indent(q) THEN EagerError(q) ELSE CheckStop(Finished(q))

-----------------------------------------------------------------------------

Handle(q) ==
  LET at == Top(q).at
  IN  CASE at = "STREAM" -> StreamAt(q)
        [] at = "DOCUMENT" -> Document(q)
        [] at = "DIRECTIVES" -> AfterDirective(q)
        [] at = "DOC_CONTENT" -> DocumentContent(q)
        [] at = "DOC_DONE" -> DocumentDone(q)
        [] at = "PROPS" -> NodeProps(q)
        [] at = "BLOCK_NODE" -> CallAndGoOn(q, "PROPS", "BLOCK_NODE_AT")
        [] at = "BLOCK_NODE_AT" -> BlockNodeAt(q)
        [] at = "INNER_NODE" -> InnerNode(q)
        [] at = "INNER_SCALAR" -> InnerScalar(q)
        [] at = "INNER_FLOW" -> InnerFlow(q)
        [] at = "ALIAS_NODE" -> AliasNode(q)
        [] at = "SCALAR_NODE" -> ScalarNode(q)
        [] at = "FLOW_OR_KEY" -> FlowOrKey(q)
        [] at = "BLOCK_MAP" -> BlockMap(q)
        [] at = "MAP_KEY" -> MapKey(q)
        [] at = "MAP_KEY_PROPS" -> MapKeyProps(q)
        [] at = "MAP_KEY_DONE" -> MapKeyDone(q)
        [] at = "IMPLICIT_KEY" -> ImplicitKey(q)
        [] at = "SCALAR_KEY" -> LeafKeyColon(q, "SCALAR")
        [] at = "ALIAS_KEY" -> LeafKeyColon(q, "ALIAS")
        [] at = "FLOW_KEY_DONE" -> KeyColon(q)
        [] at = "MAP_VALUE" -> MapValue(q)
        [] at = "MAP_VALUE_NODE" -> MapValueNode(q)
        [] at = "BLOCK_SEQ" -> BlockSeq(q)
        [] at = "SEQ_ENTRY" -> SeqEntry(q)
        [] at = "FLOW_NODE" -> CallAndGoOn(q, "PROPS", "FLOW_NODE_AT")
        [] at = "FLOW_NODE_AT" -> FlowNodeAt(q)
        [] at = "FLOW_SCALAR" -> FlowScalar(q)
        [] at = "FLOW_SEQ" -> FlowSeq(q)
        [] at = "FLOW_PAIR_KEY" -> FlowPairKey(q)
        [] at = "FLOW_PAIR_VALUE" -> FlowPairValue(q)
        [] at = "FLOW_PAIR_NODE" -> FlowPairNode(q)
        [] at = "FLOW_PAIR_END" -> FlowPairEnd(q)
        [] at = "FLOW_SEQ_NODE" -> FlowSeqNode(q)
        [] at = "FLOW_SEQ_NEXT" -> FlowSeqNext(q)
        [] at = "FLOW_MAP" -> FlowMap(q)
        [] at = "FLOW_KEY" -> FlowKeyAt(q)
        [] at = "FLOW_VALUE" -> FlowValue(q)
        [] at = "FLOW_VALUE_NODE" -> FlowValueNode(q)
        [] at = "FLOW_MAP_NEXT" -> FlowMapNext(q)

Loops == {"BLOCK_MAP", "BLOCK_SEQ", "FLOW_SEQ", "FLOW_MAP"}
Entries == {"DOCUMENT", "BLOCK_NODE", "FLOW_NODE", "MAP_VALUE"}

\* What a function checks before it looks at the next token.
Checked(q) ==
  CASE Top(q).at \in Loops -> CheckLimits(q)
    [] Top(q).at \in Entries -> CheckStop(q)
    [] OTHER -> q

HandleIfRunning(q) == IF Running(q) THEN Handle(q) ELSE q
PeekIfRunning(q) == IF Running(q) THEN EagerPeek(q) ELSE q

\* One step: from one token to the next.
EagerStep(q) ==
  IF Top(q).at = "STREAM_DONE" THEN StreamDone(q)
  ELSE HandleIfRunning(PeekIfRunning(Checked(q)))

-----------------------------------------------------------------------------
(***************************************************************************)
(* A call that has no event left (eager_next_event, without a schema,      *)
(* merge keys or aliases to expand).                                       *)
(***************************************************************************)

\* Mutant: the last document's events are forgotten, and not counted.
StartChunkUncounted(q) ==
  [q EXCEPT !.events = <<>>, !.cursor = 0, !.calls = <<NewFrame("STREAM")>>]

\* The next document's events take the place of the last one's.
StartChunk(q) ==
  [q EXCEPT !.evt_base = @ + Len(q.events), !.events = <<>>, !.cursor = 0,
            !.calls = <<NewFrame("STREAM")>>]

Types(events) == [i \in 1..Len(events) |-> events[i].type]

\* How deep the first i events nest.
DepthAfter(events, i) ==
  Cardinality({j \in 1..i : events[j].type \in CollectionStarts})
    - Cardinality({j \in 1..i : events[j].type \in {"MAPPING_END", "SEQUENCE_END"}})

\* Mutant: only the contexts are counted, as PushContext does.
CheckContextsOnly(q) == q

\* check_eager_depth.
CheckEagerDepth(q) ==
  IF MaxDepth > 0 /\ \E i \in 1..Len(q.events) : DepthAfter(q.events, i) > MaxDepth
  THEN Fail(StopWith(q, "ERR_LIMIT"), "ERR_LIMIT") ELSE q

\* Mutant: only the first document's events are skipped.
SkipOnce(q, n) == [q EXCEPT !.cursor = n, !.skip_n = 0]

Skip(q, n) ==
  [q EXCEPT !.cursor = n, !.skip_n = @ - n,
            !.skip_got = @ \o SubSeq(Types(q.events), 1, n)]

Matches(q) == IF q.skip_n = 0 THEN q.skip_got = q.skip_sig ELSE ~q.stream_ended

CheckSkipped(q) ==
  IF Matches(q) THEN q
  ELSE Fail([q EXCEPT !.stream_ended = TRUE, !.error_msg = "mismatch"], "ERR_PARSE")

\* skip_delivered; the signature of a sequence of types is that sequence.
SkipDelivered(q) ==
  CASE q.skip_n = 0 -> q
    [] q.skip_n <= Len(q.events) -> CheckSkipped(Skip(q, q.skip_n))
    [] OTHER -> CheckSkipped(Skip(q, Len(q.events)))

SkipIfOk(q) == IF q.status = "OK" THEN SkipDelivered(q) ELSE q

\* Once the document is parsed.
EndChunk(q) == IF q.status = "OK" /\ ~q.starved THEN SkipIfOk(CheckEagerDepth(q)) ELSE q

=============================================================================
