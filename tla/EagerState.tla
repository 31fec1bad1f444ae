----------------------------- MODULE EagerState -----------------------------
(***************************************************************************)
(* The eager parser's record and helpers (oyl_parser.c): the part of       *)
(* struct oyl_parser that the recursive parser works on, one document at a *)
(* time.  It uses the same scanner as the incremental parser.              *)
(*                                                                         *)
(* Its C stack is a sequence of frames, one for every function that has    *)
(* been called and has not returned: where the function goes on, and the   *)
(* locals it still needs.  All go on at the next token, so a step of the   *)
(* machine is what a function does from one token to the next.  An error   *)
(* returns from every function, and leaves the rest as it is.              *)
(***************************************************************************)
EXTENDS ParserState

None == -1

\* A pending property is the position of its token: which one it is.
Property == Nat \cup {None}

\* An event keeps its anchor and tag: on which node they end up matters.
EagerEvent == [type : Stream!Event, anchor : Property, tag : Property]

Context == [type : BlockContext \cup FlowContext, indent : Nat]

EagerMessage == Message \cup {"mismatch"}

NoProps == [anchor |-> None, tag |-> None]
Props == [anchor : Property, tag : Property]

Label ==
  {"STREAM", "STREAM_DONE", "DOCUMENT", "DIRECTIVES", "DOC_CONTENT", "DOC_DONE", "PROPS",
   "BLOCK_NODE", "BLOCK_NODE_AT", "INNER_NODE", "INNER_SCALAR", "INNER_FLOW", "ALIAS_NODE",
   "SCALAR_NODE", "FLOW_OR_KEY", "BLOCK_MAP", "MAP_KEY", "MAP_KEY_PROPS", "MAP_KEY_DONE",
   "IMPLICIT_KEY", "SCALAR_KEY", "ALIAS_KEY", "FLOW_KEY_DONE", "MAP_VALUE",
   "MAP_VALUE_NODE", "BLOCK_SEQ", "SEQ_ENTRY", "FLOW_NODE", "FLOW_NODE_AT",
   "FLOW_SCALAR", "FLOW_SEQ", "FLOW_PAIR_KEY", "FLOW_PAIR_VALUE", "FLOW_PAIR_NODE",
   "FLOW_PAIR_END", "FLOW_SEQ_NODE", "FLOW_SEQ_NEXT", "FLOW_MAP", "FLOW_KEY",
   "FLOW_VALUE", "FLOW_VALUE_NODE", "FLOW_MAP_NEXT"}

\* at: where the function goes on.  indent: of its collection, or the column
\* of a node that may be a key.  index: of its node's first event.  line: of
\* that node.  outer, props: the properties put aside.
CallFrame == [at : Label, indent : Nat, index : Nat, line : Nat, outer : Props, props : Props]

NewFrame(at) ==
  [at |-> at, indent |-> 0, index |-> 0, line |-> 0, outer |-> NoProps, props |-> NoProps]

\* close_line: the line of the last flow collection's closing bracket.
\* skip_n, skip_sig, skip_got: the events of the incremental parser that
\* are left to skip, and the types expected and skipped so far.
EagerRecord ==
  [scanner : ScannerState, current : Token, have_token : BOOLEAN,
   calls : Seq(CallFrame), events : Seq(EagerEvent), cursor : Nat, contexts : Seq(Context),
   anchor : Property, tag : Property, props_line : Nat, props_col : Nat,
   close_line : Nat, doc_open : BOOLEAN, doc_start_line : Nat,
   stream_started : BOOLEAN, stream_ended : BOOLEAN,
   stop_status : {"NONE", "ERR_LIMIT", "ERR_PARSE"}, error_msg : EagerMessage,
   evt_base : Nat, skip_n : Nat, skip_sig : Seq(Stream!Event), skip_got : Seq(Stream!Event),
   status : {"OK", "ERR_PARSE", "ERR_SCAN", "ERR_LIMIT"}, starved : BOOLEAN]

\* oyl_parser_new, and what next_event resets when it falls back.
NewEager ==
  [scanner |-> NewScanner, current |-> TokenAt(NewScanner, "NONE"), have_token |-> FALSE,
   calls |-> <<>>, events |-> <<>>, cursor |-> 0, contexts |-> <<>>,
   anchor |-> None, tag |-> None, props_line |-> 0, props_col |-> 0,
   close_line |-> 0, doc_open |-> FALSE, doc_start_line |-> 0,
   stream_started |-> FALSE, stream_ended |-> FALSE,
   stop_status |-> "NONE", error_msg |-> "none",
   evt_base |-> 0, skip_n |-> 0, skip_sig |-> <<>>, skip_got |-> <<>>,
   status |-> "OK", starved |-> FALSE]

-----------------------------------------------------------------------------
(***************************************************************************)
(* Calls and errors.                                                       *)
(***************************************************************************)

Top(q) == Last(q.calls)

\* The function goes on at another place, with other locals; or returns.
Become(q, frame) == [q EXCEPT !.calls = Append(Front(@), frame)]
GoOn(q, at) == Become(q, [Top(q) EXCEPT !.at = at])
Finished(q) == [q EXCEPT !.calls = Front(@)]

\* It calls another one, and then goes on as the frame says.
CallThen(q, callee, frame) == [q EXCEPT !.calls = Front(@) \o <<frame, NewFrame(callee)>>]
CallAndGoOn(q, callee, at) == CallThen(q, callee, [Top(q) EXCEPT !.at = at])

Fail(q, status) == [q EXCEPT !.status = status, !.calls = <<>>]
EagerError(q) == Fail(ParseError(q), "ERR_PARSE")

EagerSeen(q, r) ==
  CASE r.res = "OK" -> [q EXCEPT !.scanner = r.s, !.current = r.tok, !.have_token = TRUE]
    [] r.res = "ERROR" -> Fail([q EXCEPT !.scanner = r.s, !.error_msg = "scan"], "ERR_SCAN")
    [] r.res = "STARVED" -> [q EXCEPT !.starved = TRUE]

EagerPeek(q) == IF q.have_token THEN q ELSE EagerSeen(q, Scan(q.scanner))

Running(q) == q.status = "OK" /\ ~q.starved /\ q.calls # <<>>

-----------------------------------------------------------------------------
(***************************************************************************)
(* Limits and events.                                                      *)
(***************************************************************************)

\* Mutant: the events of earlier chunks, or skipped, are not counted.
OverLimitOfChunk(q) == MaxEvents > 0 /\ Len(q.events) >= MaxEvents

\* over_limit.
OverLimit(q) == MaxEvents > 0 /\ q.evt_base + Len(q.events) >= MaxEvents

\* "if (p->oom) return OOM_STATUS(p)".
CheckStop(q) == IF q.stop_status = "NONE" THEN q ELSE Fail(q, q.stop_status)

\* What the loops check first.
CheckLimits(q) ==
  CheckStop(IF OverLimit(q) THEN StopWith(q, "ERR_LIMIT") ELSE q)

\* enqueue: an event past the limit is dropped, and the parser goes on to
\* the next check.
Enqueue(q, e) ==
  IF OverLimit(q) THEN StopWith(q, "ERR_LIMIT") ELSE [q EXCEPT !.events = Append(@, e)]

Pending(q) == [anchor |-> q.anchor, tag |-> q.tag]
WithPending(q, props) == [q EXCEPT !.anchor = props.anchor, !.tag = props.tag]
DropProps(q) == WithPending(q, NoProps)

EventWith(type, props) == [type |-> type, anchor |-> props.anchor, tag |-> props.tag]

EnqueuePlain(q, type) == Enqueue(q, EventWith(type, NoProps))

\* attach_props, then enqueue.
EnqueueWithProps(q, type) == Enqueue(DropProps(q), EventWith(type, Pending(q)))

EmitEmpty(q) == EnqueueWithProps(q, "SCALAR")

\* insert_event; its callers return when it fails.
InsertEvent(q, index, e) == [q EXCEPT !.events = InsertAt(@, index, e)]

\* push_ctx.
PushContext(q, type, indent) ==
  IF type \in BlockContext /\ q.doc_start_line > 0 /\ q.current.line = q.doc_start_line
  THEN StopWith(q, "ERR_PARSE")
  ELSE IF MaxDepth > 0 /\ Len(q.contexts) >= MaxDepth THEN StopWith(q, "ERR_LIMIT")
  ELSE [q EXCEPT !.contexts = Append(@, [type |-> type, indent |-> indent])]

\* pop_ctx.
PopContext(q) == IF q.contexts = <<>> THEN q ELSE [q EXCEPT !.contexts = Front(@)]

InContext(q, types) == q.contexts # <<>> /\ Last(q.contexts).type \in types
ParentIndent(q) == IF q.contexts = <<>> THEN None ELSE Last(q.contexts).indent

\* in_flow.
InFlowContext(q) == InContext(q, FlowContext)

-----------------------------------------------------------------------------
(***************************************************************************)
(* Properties.                                                             *)
(***************************************************************************)

HasProps(q) == q.anchor # None \/ q.tag # None

\* The pending properties began on the current token's line, or above it.
PropsHere(q) == HasProps(q) /\ q.props_line = q.current.line
PropsAbove(q) == HasProps(q) /\ q.props_line # q.current.line

Takeable(q) ==
  \/ Tok(q) = "ANCHOR" /\ q.anchor = None
  \/ Tok(q) = "TAG" /\ q.tag = None

\* props_continuation_ok.
Continues(q) == ~PropsAbove(q) \/ InFlowContext(q) \/ Col(q) > ParentIndent(q)

\* prop_starts_node_line reads the raw text after the current token.
StartsNodeLine(q) == q.scanner.buf # <<>> /\ Head(q.scanner.buf).brk = SameLine

TakeProperty(q) ==
  [Consume(q) EXCEPT !.anchor = IF Tok(q) = "ANCHOR" THEN q.current.pos ELSE @,
                     !.tag = IF Tok(q) = "TAG" THEN q.current.pos ELSE @,
                     !.props_line = IF HasProps(q) THEN @ ELSE q.current.line,
                     !.props_col = IF HasProps(q) THEN @ ELSE Col(q)]

\* The properties are read; an alias has none.
PropsRead(q) ==
  IF HasProps(q) /\ Tok(q) = "ALIAS" /\ (PropsHere(q) \/ InFlowContext(q))
  THEN EagerError(q) ELSE Finished(q)

\* consume_props: at most one anchor and one tag; on a later line in block
\* context, the second one only if it is not the first of a node there.
NodeProps(q) ==
  IF ~Takeable(q) \/ ~Continues(q) THEN PropsRead(q)
  ELSE IF ~PropsAbove(q) \/ InFlowContext(q) THEN TakeProperty(q)
  ELSE IF q.scanner.buf = <<>> /\ ~q.scanner.text_ended THEN [q EXCEPT !.starved = TRUE]
  ELSE IF StartsNodeLine(q) THEN PropsRead(q) ELSE TakeProperty(q)

=============================================================================
