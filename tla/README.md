# Oyl in TLA+

A model of [Oyl](../src/README.md), a YAML 1.2 parser and emitter in C, with the
runs that check it and the proofs about it. Paths below are in `../src`;
`oyl_parser.c:3070` stands for `../src/src/oyl_parser.c`, line 3070.

The library is sequential: it has no threads, locks or callbacks, and no I/O but `oyl_read_file`. What is
hard in it is a different kind of concurrency. The **scanner** runs one token
ahead of the **parser**; the parser delivers events before it has seen the text
that decides what they mean; its state lives in a 42-state machine with a stack of
frames, an 8-event buffer and a pending anchor and tag, between calls that a caller
may go on making after an error; and a second parser takes over in the middle of
a stream when the first meets what it cannot do.

## The system

| component | state | operations | talks to |
|---|---|---|---|
| scanner, `oyl_scanner.c` | cursor, indent stack, open flow brackets, last node and last properties, the `?` that awaits its `:` | `oyl_scan_token`, `oyl_scanner_copy` | called by both parsers |
| incremental parser, `oyl_parser.c:2790-4475` | state, `node_return`, frames, `out_buf`, saved node, pending properties, flow-key cache, checkpoint, `scan_error`, `stop_status` | `parser_step`, `next_event` | scanner; raw text ahead (`fk_scan`) |
| flow-key lookahead, `oyl_parser.c:2790-3057` | a cache of offsets over a byte range | `flow_is_block_key` | raw text |
| fallback, `oyl_parser.c:3186-3215, 4533-4687` | checkpoint, `evt_base`, `skip_n`, signature | `inc_checkpoint`, `next_event`, `skip_delivered` | hands over to the eager parser |
| eager parser, `oyl_parser.c:602-2105` | event list of one document, contexts | `parse_stream` and below, recursive | scanner |
| expansion, `oyl_parser.c:2110-2788` | event list, anchor table | `bind_anchors`, `resolve_merges`, `resolve_aliases`, `check_eager_depth` | rewrites the eager list |
| emitter, `oyl_emitter.c` | context stack, output, flags | `oyl_emit` | fed by the caller |
| schema, `oyl_schema.c` | rule list | builder, `oyl_schema_resolve` | called when events are queued |
| arena, `oyl_arena.c` | block list | alloc, dup, reset | used by all |
| byte scanning, `oyl_simd.c` | function pointers | searches | used by the scanner |

What makes each correct:

* *Scanner*: tokens are read in the right context (flow or block) and with the
  right column; errors are final for the parser above.
* *Incremental parser*: the events delivered are a well-formed stream, the frames
  always say exactly what is open in it, limits bound it and stop it for good, every
  call returns.
* *Flow-key lookahead*: its answer is what the scanner finds later, and the cache
  answers as a new lookahead would.
* *Fallback*: what was delivered is neither delivered again nor lost.
* *Eager parser*: the same events and errors as the incremental one.
* *Expansion*: a mapping's own keys win; copies are of the node the anchor named;
  the event and depth limits bound the result; cycles stay aliases.
* *Emitter*: the text parses back to the events given.
* *Arena*: what is given out overlaps with nothing and is aligned; no sum wraps around.
* *Schema*: a failed operation leaves it usable.

`PROJECT.json` lists, under `hazards`, where each of these can go wrong.

## The modules

```
EventStream               the grammar of events (abstract)
Scanner                   lexemes to tokens
  FlowKey                 the lookahead over the raw text
    ParserState           the parser's record; peek, emit, push, pop, properties
      FlowHandlers        the flow states         BlockHandlers   the other states
        IncrementalParser   the calls: Init, one action per state, Next, Spec
          ParserProperties  what is checked
            ParserProgress  fairness and liveness
      EagerState          the eager parser's record, event list and C stack
        EagerParser       its functions, a handler for each point they wait at
          WholeParser     both parsers, the fallback, and a caller who goes on
          ParseText       what the eager parser makes of a whole text
            Agreement     that both parsers are of one language
Expansion                 binding, merging and expanding, on event lists
  ExpansionBounds         that they end, and within the limit
    ExpansionProperties   what they mean, on the document's tree
Emitter                   events to text
  EmitterProperties       its contexts, its flags, what it may write next to what
    RoundTrip             its text, read by Scanner and EagerParser
Arena                     blocks, alignment, wrapping sums
MC*, Texts                the instances for TLC
ParserProofs > EventProofs > StreamProofs    the scanner, the lookahead, the incremental parser
  WholeProofs > EagerProofs         the eager parser, the fallback and both together
ExpansionProofs, EmitterProofs, ArenaProofs
```

**EventStream** is the promise of `oyl.h:136-139` (`STREAM_START (DOC_START node
DOC_END)* STREAM_END`): a stack of levels, each saying what may come next there.
`Deliver(e)` is its one action.

**Scanner** models one call of `oyl_scan_token` as `Scan(s)`, an operator from a
scanner record to the next one, a token, and `OK` or `ERROR`. The text is a sequence of
lexemes; a lexeme is an indicator, a marker, a property or a whole scalar, with a
column if it starts a line. The indent stack, which is always strictly increasing, is the
set of its columns. An error leaves the scanner where the C code leaves it, because the
parser does call it again.

**FlowKey** is `fk_scan` and its cache. The C code reads bytes ahead with a stack
of open brackets; here a closing bracket's partner is the one at the same depth with
nothing shallower between.

**ParserState** has one record for `struct oyl_parser` and one operator per helper
(`peek_token`, `inc_emit`, `inc_push_frame`, `consume_props`, `inc_checkpoint`, ...).
**FlowHandlers** and **BlockHandlers** have one operator per `case` of
`parser_step_flow` and `parser_step`, named after the state (`ST_FLOW_MAP_LOOP` is
`FlowMapLoop`). Each threads the record through the helpers in the order of
the code, *stale tokens included*: where the code does not look at the
result of `peek_token`, neither does the model, and both go on with the old token.

**IncrementalParser** has the variables and actions. `parser` is the record;
`result` is `"BUSY"` during a call and what it returned after; `open` is a history of the
events delivered. `Call` is the caller's, `Deliver` and `Return*` are the exits
of `next_event` before it steps the machine, `Do<State>` is one round of its loop: the step
and what is made of its outcome (`KeepEvents`, `Outcome`). `FallBack` is the hand-over.

The text is chosen as it is read: a step that would read past what is known
(`starved`) does not happen, and `MoreText` adds a lexeme or ends the text. So
one run covers every text up to `MaxText` lexemes, and texts that agree up to
where an error stops the parser are one behaviour, not many.

**EagerState** and **EagerParser** model the recursive parser. Its functions call one another to
any depth, so the C stack is a sequence of frames: which function, where it goes on, and
the locals it still needs. Every function waits at a `peek_token` somewhere, so a handler
is what a function does from one token to the next, and every `case` and early return
in between is a branch of it. The event list, the contexts, the pending
anchor and tag and their place, and both limits are as in the code; `insert_event` inserts. An anchor or tag is the number
of its lexeme, so that a property on the wrong node shows. **ParseText** runs it on
a whole text, for **Agreement** and `RoundTrip`; only these modules have recursive operators.

**WholeParser** composes the two: `IncrementalStep` is a step of `IncrementalParser`,
`FallBackToEager` hands over (a copy of the scanner at the last checkpoint, `evt_base`, `skip_n`
and the signature), `EagerDocument` is one step of `parse_stream`, from one token to the next, with what
comes before its first (`StartChunk`) and after its last (`check_eager_depth`, `skip_delivered`), and
`EagerDeliver` is one event from the list. A caller may go on after an error,
`MaxErrors` times in all, or give up (`Abandon`). After a fallback the same text is read again, from the
checkpoint, and more lexemes are added to it if the eager parser reads further.

**Expansion** models what `eager_next_event` does to a document's list when the caller asked for
it: `BindAnchors`, one action per pass of `resolve_merges` and `resolve_aliases`, one
per step of the search for cycles (`alias_has_cycle` is recursive; `path` is its stack), `UnbindAnchors`,
and the next document. The input is any document of a given set, not a text.

**Emitter** has one action per kind of event (`oyl_emit` and what it calls) and `Set` for
the setters. Its caller feeds it any well-formed stream of the given nodes. **RoundTrip**
turns the text it wrote into the lexemes of `Scanner` and reads them with `ParseText`.

**Arena** is `oyl_arena.c` with a `size_t` of `Width` bits. `Malloc` is any block that overlaps no
other; a failed call changes nothing.

### What is abstracted

* In the parsers, events are their types; values, styles and marks are left out. In the
  incremental parser anchors and tags are only pending or not, in the eager one each is told
  from the others.
* In `Expansion` a scalar is one of a few values; styles and tags, which are copied, are left out. In
  `Emitter` a scalar is a few kinds of text (empty, plain, with line breaks), and escapes and
  the width of names and values are not modelled.
* A text is one of lexemes with blanks between them. `MayFollow` names the
  texts for which that is exact: a plain scalar is one word, followed on its line
  by what ends one (so its continuation rules, `oyl_scanner.c:379-633`, are not
  modelled), a literal block scalar is followed by a line of its own, markers and
  directives begin lines, and a comment sign stuck to the token before it is the
  error `GLUED`. Tabs, byte order marks and a `:` stuck to a quoted key are left out.
* Scanner errors: a glued `#`, an unterminated quote, bad indentation inside a flow
  collection, a key on two lines, a second key or a block sequence on a key's line, text
  after `...`. Others (bad escapes, bad tags, ...) end in the same way as these.
* Allocation never fails, but in `Arena`.
* Four `case`s that no assignment reaches are left out: `ST_UNROLL`,
  `ST_BLOCK_MAP_VALUE_NODE`, `ST_BLOCK_SEQ_ENTRY_NODE`, `ST_FLOW_SEQ_CHECK_COLON`. That
  nothing does reach them is part of `TypeOK`: every state and return state
  is in `State` and `ReturnState`.

## The properties and the runs

| run | input | bounds | checks | distinct states |
|---|---|---|---|---|
| `flow` | `[ ] { } , : ? & ! *` and words, one line | 6 lexemes | `TypeOK`, `FramesMatchEvents`, `PropertiesReachTheirNode` | 3 340 000 |
| `blocks` | `- ? : * [ ]` and quoted scalars, two columns | 5 | `FramesMatchEvents`, `FlowKeyCacheAgrees`, `WellFormed`, `NoMissedFlowKey` | 1 920 000 |
| `documents` | `--- ... % - : ! { } ,`, words and literals, lines | 5 | `CleanBetweenDocuments`, `ScannerFollowsFrames` | 471 000 |
| `limits` | all four collections and a glued `#`; 7 events, depth 1 | 5 | `EventLimit`, `FrameLimit`, `NestingBound`, `LimitsAreReached`, `StaysStopped`, `WellFormed` | 119 000 |
| `progress` | a little of everything, scanner errors too | 3 | `CallReturns`, `StreamEnds` | 36 900 |
| `whole` | `- : ! [ ] ---` and quoted scalars; 9 events; two errors | 5 | `FallbackRepeats`, `ParsersAgree`, `EventsCountedOnce`, `WholeEventLimit`, `WholeStream`, `WholeWellFormed` | 1 610 000 |
| `eager` | all collections, properties and documents; depth 2 | 4 | `EagerDepthLimit`, `CleanBetweenChunks`, `PropertiesInOrder` | 474 000 |
| `expansion` | documents with two names, redefined, nested and merged; 27 events, depth 4 | 2 documents | `ExpansionMeaning`, `NamesUnique`, `FlagsAreTheEndless`, `ExpansionWithinLimit`, `LimitsExact`, `FlagsStayAligned`, `ExpansionEnds` | 723 000 |
| `round_trip` | scalars with and without text and anchor, aliases, collections of both styles | 4 nodes, 2 documents, 1 change of settings; 6 nodes in 1 document | `TypeOK`, `ReadsBack`, `LexemesStayApart`, `ContextsFollowEvents`, `FlagsMatchPlace` | 1 230 000 |
| `arena` | sizes 0 to `SIZE_MAX`, alignments 0 to half of it, 6-bit addresses | 3 allocations between resets | `MemoryApart`, `PointersAligned` | 1 940 000 |

* `WellFormed` is refinement: `EventStream!Spec` with the parser's `open`. The
  events delivered are the start of a well-formed stream whatever the text, whatever errors were
  returned on the way and however often the caller called again.
* `FramesMatchEvents` is why: what is open in the events produced is exactly what the
  frames' return states, the state and `node_return` say. An event dropped because
  `out_buf` is full, one emitted twice, or a return to the wrong state breaks it at once,
  long before the stream is malformed.
* `CleanBetweenDocuments` is what makes a checkpoint valid and what makes the code that
  would close an open document in `ST_DOC_START_*` dead.
* `ScannerFollowsFrames` relates the two halves: the scanner's count of brackets is
  the parser's flow frames, up to the one token between them.
* `FlowKeyCacheAgrees` and `NoMissedFlowKey` are about the guess the parser takes when it
  delivers a collection's start. `NoMissedFlowKey` holds the answer against the scanner, many tokens later, of an entry of a
  flow sequence and of a node in block context (`oyl_parser.c:3458` and `:3938`, the two places that look ahead), the values that are
  not looked ahead for because of the `:` before them included.
* `LimitsAreReached` is the converse of the limits: nothing is refused early.
* `ParsersAgree` is the equivalence of the two parsers: a stream that the incremental parser ends
  is, event for event, what the eager parser makes of the text; what the one refuses the other
  refuses. `FallbackRepeats` says that the error for a fallback that does not repeat what was
  delivered ("please report") is dead code, up to the first error a caller sees.
* `EventsCountedOnce` ties three counters (`evt_base`, the cursor, `skip_n`) to what was
  delivered, across chunks and the fallback.
* `PropertiesInOrder` is about properties that are saved, cleared and put back around a
  collection that may turn out to be a key: none changes places with another, and none is left when a document
  is over, but those right before the end of the text.
* `CleanBetweenChunks` says that no context of a document is left for the next, and that the parser knows
  whether the document is open: its end is queued by the *next* call.
* `ExpansionMeaning` compares the passes over the flat list with a reference on the
  tree: merging and expanding a node with the nodes in it, one after the other.
  `FlagsStayAligned` is why cycle flags that are indexed by the first pass's anchor table may
  be used in the later ones; `ExpansionEnds` is a measure that every step decreases.
* `ReadsBack` composes three components: what the emitter writes, the scanner and the eager parser read
  as the same events, with each anchor and tag on its node.
* `MemoryApart` includes the step the code does not check: that a new block has room
  for the size *and* the padding, wherever `malloc` puts it.

Bounds. Every construct of the state machine is entered and left within five lexemes
(`[ ? x : y` or `- ? a` and a line), and six cover a construct inside another, or two
one after the other. Two columns give every order of a token's column and
its parent's indent. `MaxEvents = 7` and `MaxDepth = 1` fall inside texts of five lexemes,
in the middle of steps that emit several events. `CkptSpacing = 2` (4096 bytes in
the code) lets a text take a checkpoint and skip the next. `MaxText`, `MaxEvents`,
`MaxDepth`, `CkptSpacing` and `MaxErrors` are the only bounds of the parsers; the vocabularies are in
`Texts`. In `whole`, a tag makes the incremental parser fall back (`!` needs what only
the eager parser does), with up to three lexemes delivered before it, in the same document
or the one before. In `expansion`, `MaxEvents = 27` is what some of the documents
expand to and others exceed, in the first document or with it in the second; two names give a cycle of
two, a chain and a redefinition; `MaxPasses` is the code's 32. In `round_trip`,
four nodes are a collection in a collection with an entry or a pair, and every context with every kind of node in it. A mapping's second
entry, whose key goes to the column of the first or follows a comma, takes five, and six for one in a sequence, where the first
entry stands behind the `- `: the constraint `WithinBounds` adds to the streams of four nodes single implicit documents of up to six, of fewer
kinds and without changes of the settings. It only bounds the streams: one that it keeps passes through no stream that it leaves out.
In `arena`, the block after the first is larger than half the address space for the largest sizes, so that doubling,
wrapping and failing all happen.

Between them the runs take every action; every property has a mutant, a definition of
the model changed as a bug would change the code, under which its run finds it violated. Deadlock is checked in all of them: no call gets
stuck, and `ST_BLOCK_NODE_EMPTY`, which has no action, is never reached (every state that
leads to a node has looked at the token first).

### Fairness

A call is one thread of control that waits for nothing, so each step it can
take is eventually taken. `Next`'s steps during a call (`Working`) are weakly fair, and in
`PatientCaller` the caller is, too. A state of the machine that was dispatched to itself with
nothing changed would be a stuttering step and be taken for a parser that
stopped, so `ParserProgress` adds a variable `tick` that flips with every step. Fairness is
of `Tick`, enabled in every state of a call; that a step is possible in each of
them is what the deadlock check shows.

## Findings

Two runs check a statement of the documentation or of a comment, and find it violated:

1. `delivered_depth`. The depth limit "applies to the events delivered"
   (`oyl.h:349`, `README.md:279`), but a pair in a flow sequence is a mapping without a
   frame (`oyl_parser.c:3568-3595`). `[a: [b: c]]` with a limit of 2 delivers a
   nesting of 4. `NestingBound` shows that twice the limit is never exceeded. (The eager parser keeps
   to the limit: `EagerDepthLimit`.)
2. `merge_precedence`. "Earlier sources win on conflicts" (`oyl_parser.c:2366`, `README.md:240`),
   but a `<<` inside a source is copied as an ordinary entry and merged in a later pass, after the
   sources that follow it: `[ &x {a: a}, &y {<<: *x}, {<<: [*y, {a: b}]} ]` gives `a: b`.

These came up while modelling; the models have them, and the properties are stated so as to
allow them (each was also seen with the library itself):

3. At the depth limit `inc_push_frame` withholds a collection "and, for a block mapping, its
   first key" (`oyl_parser.c:3078`); `ST_BLOCK_NODE_BARE_VALUE` emits the key after the
   push (`oyl_parser.c:4096-4099`), so `- : x` with a limit of 1 delivers an empty scalar before the error.
4. After a scanner error a step goes on with a stale token and may raise a parse
   error, whose message and mark replace the scanner's, while the status stays `OYL_ERR_SCAN`:
   `[a,#b` is reported with "unexpected ',' in flow sequence". `oyl.h:322` says the message describes the error.
5. A second failing peek in the same step moves `scan_error_out` past an event made from
   a stale token, and `next_event`, which means to "keep only events produced before the error"
   (`oyl_parser.c:4635`), keeps it: `["a"#b` delivers the scalar.
6. When `parse_stream` fails, the events it queued stay, and a further call
   delivers them, after a fallback for the second time (`oyl_parser.c:4581`); `test_flow.c:123`
   says that the eager parser "delivers none of a failing document's events".
7. `&a` and `&b` on two lines with no node are accepted, and `&a` is lost
   (`oyl_parser.c:1446`), where the comment says "emit empty with outer props".
8. `? !!seq`, then `&b [x]` indented, then `: v` is refused: after properties on two lines a flow collection is taken for a
   key whatever the line of the `:` (`oyl_parser.c:1404`), which `key_colon_follows` (1178) is there to check.
9. `k: v` and `&a` on a line of its own is refused if the text goes on and accepted, the anchor dropped, if it ends there
   (`oyl_parser.c:1051`).
10. The anchors in a merge key's value go with it, so that a later alias to them is
    left over (`oyl_parser.c:2476`); `oyl.h:337` says which aliases are kept, and this is neither.
11. Every anchor from which a cycle can be *reached* is flagged (`oyl_parser.c:2652`), so that in
    `[&x [*x], &y [*x], *y]` the alias `y` is kept, which is on no cycle (`oyl.h:337`).
12. `needs_escape` is true of line breaks, so the branch "multiline in block context → literal"
    (`oyl_emitter.c:338`) is dead: multi-line scalars asked for as plain are double-quoted.

Also seen, and not contradicting anything written: a parse error after a document's root
collection has ended (`inc_end_document` after `ST_BLOCK_MAP_END`) leaves the
collection's end event buffered, and a further call delivers it; a further call after the
event limit was hit on `STREAM_END` returns `OYL_EVT_NONE` without an error.

## What is proved

`ParserProofs` proves, for every set of kinds and columns, every `MaxText`, `MaxEvents`,
`MaxDepth` and `CkptSpacing`, from the assumptions of `Scanner` and `ParserState` only
(`Kinds` are kinds, the rest are naturals):

* `TypeCorrect`: `Spec => []TypeOK`
* `EventsWithinLimit`: `Spec => []EventLimit`
* `FramesWithinLimit`: `Spec => []FrameLimit`
* `StoppedStays`: `Spec => StaysStopped`

all from `Invariance`, the inductive invariant

```
Inv == Kept(parser) /\ result \in Result /\ open \in Seq(Stream!Level)
Kept(q) == q \in ParserRecord /\ Limits(q) /\ TokenHeld(q) /\ ~q.starved
```

`Limits` is the two limits. They are not inductive with the types alone, because of
`next_event`: after a scanner error it sets `out_len = scan_error_out` *unconditionally*,
and `inc_push_frame` may have withheld events in between. The mark is then larger than
what is left, and the buffer would get slots back that were given up. `TokenHeld` is
what rules it out: the four block states that push a frame without a successful peek of
their own in the same step are only entered with their token in hand or with a scanner error
already recorded, so that no failing peek can precede the withholding in the same step.
Within a step, `ParserProofs` carries this as `Good` (types, limits, the mark
within the buffer unless the step was stopped) from helper to helper; every handler maps
`Good` to `Fine`, and that is lifted to the actions.

The first part of `ParserProofs` is about the scanner: every call maps a scanner record to a scanner
record and a token of the right type (`ScanType`).

`StreamProofs` proves, from the same assumptions, that the incremental parser implements the
abstract specification and why:

* `StreamWellFormed`: `Spec => WellFormed`, that is `Spec => EventStream!Spec` with the parser's `open`
* `FramesFollow`: `Spec => []FramesMatchEvents`
* `DocumentsSeparate`: `Spec => []CleanBetweenDocuments`
* `PropertiesAttach`: `Spec => []PropertiesReachTheirNode`
* `NestingBounded`: `Spec => []NestingBound`
* `LimitsMeant`: `Spec => []LimitsAreReached`

from `StreamInvariance`, the inductive invariant

```
StreamInv == Inv /\ OnWay(parser, open) /\ LimitReturned
OnWay(q, levels) ==
  /\ \E b : Path(levels, q.out_buf, b)
  /\ q.status = "OK"
  /\ Sound(q) => Placed(q) /\ (q.state \notin AwayStates => Path(levels, q.out_buf, Expected(q)))
  /\ q.stop_status = "ERR_LIMIT" /\ ~q.scan_error => Reached(q)
```

`Path(a, out, b)` says that the events `out` lead from the levels `a` to `b`, every one of them accepted
on the way and every level on it one there is room for (`Room`: the stream below, a document on it, at most `2 * MaxDepth + 2` in
all). `FramesMatchEvents` alone is not inductive, in four ways:

* It says what is open *after* the events in `out_buf`, not that they are accepted one after the other, and
  after an error or a limit it says nothing, although what was queued is still delivered. So the existence of a path is
  kept apart from where it ends, and survives `KeepEvents` (`PathPrefix`) and `Withhold` (`WithholdPath`).
* A frame that returned to the end of the document from within a collection would match too: `FramesPlaced`
  says that the root's frame, and only it, returns there, and `StatePlaced` which states have frames and
  which have none.
* `CleanBetweenDocuments` and `PropertiesReachTheirNode` are needed for the handlers themselves: an event of
  a node takes the pending properties with it, and `inc_checkpoint` and the document's end ask for
  an empty stack. `PropsPlaced` adds that in `ST_FLOW_SEQ_LOOP` the token they wait with does not end the sequence.
* A stop has to know which limit it was: `Reached`.

`EventProofs` has one lemma per handler, `ASSUME Start(a, q), q.state = s PROVE Done(a, H(q))`. In between,
`Way(a, q0, q, w, n)` follows the record through the helpers: the levels `w` are open beyond the frames, after at most `n`
events (`OutSize` is 8, so that `inc_emit` dropping an event is ruled out by counting), or the event limit has stopped the parser.
The levels of a sequence of frames are a recursive function; what it does with one frame more or less is proved
through the least counterexample (`NatMin`), since the induction theorems cannot be instantiated.

* `ScannerFollows`: `Spec => []ScannerFollowsFrames`

has an inductive invariant of its own beside `StreamInv`, about the two halves of the parser:

```
Aligned(q) ==
  Calm(q) /\ q.state # "DONE" =>
    /\ Even(q) /\ Nested(q.frames)
    /\ Suit(q.frames, Len(q.frames), Home(q.state, q.node_return))
    /\ Prepared(q, q.state)
```

`Even` is the equation of `ScannerFollowsFrames`. A handler keeps it only if the bracket that it consumes is
the one it pushes or pops a frame for, and many handlers push, pop or consume without looking: `ST_FLOW_SEQ_END` consumes
whatever token it has, `ST_BLOCK_MAP_END` pops whatever frame is on top. `Prepared` says which token those states have been
left with, `Suit` that the frame on top is of their kind of collection, and `Nested` that the
same will be true of the state each frame returns to. `Calm` is no error, no limit and enough text: a failed peek leaves the old
token in place, and what a state does with it then (hazard at `oyl_parser.c:3528`) can part the two counts.
`ParserProofs` has the scanner's part (`ScanFollow`: a call changes the count by one for a bracket and by nothing for
any other token, and a closing bracket it does not count comes where there is none to close).

* `CacheAnswersAlike`: `Spec => []FlowKeyCacheAgrees`

rests on where the cache is from, which no field of the record says:

```
CacheInv == parser.incremental => Recalls(parser, parser)
ReadFrom(q, x, lo, m, k) ==
  /\ q.fk = FkScan([buf |-> SubSeq(x, 1, m)], lo)
  /\ Settled(x, m, q.scanner.text_ended)
  /\ QuoteEnds(x, q.scanner.last)
  /\ q.scanner.pos = lo + k + 1
  /\ q.scanner.buf = SubSeq(x, k + 1, Len(x))
  /\ q.have_token /\ Tok(q) \in FlowStarts => KindAt(x, k) \in Openers
```

There is a text `x` behind the bracket at `lo` of which the lookahead saw the first `m` lexemes, while the scanner has
read `k` and has the rest before it. The text may have grown since: `Settled` says that what the
lookahead saw decided its answer (`FkUndecided` is what made it wait), so that more text would not have changed it. The
invariant is carried through the helpers and handlers of the parser: reading a token is the only
thing that moves `k` (`PeekRecalls`), a new lookahead starts over with `k = 0` (`LookAheadRecalls`), and everything else
leaves the six fields alone (`SameRecalls`). `ParserProofs` has the rest, the comparison of two lookaheads over the same text
from different brackets (`CacheAgrees`): up to where both read, their depths differ by a constant (`DepthShift`), so a
bracket closes the one collection in both or in neither (`PartCloses`); and the inner one stops no later than
the outer one, or stops where its own collection closes, so that it never calls what the outer one settled
ambiguous. That needs that an unterminated quote is the last lexeme there is (`QuoteEnds`), as it is for
the scanner, and the comparison only holds as far as `fk_hi`: past it the cache does not answer (`FkCovers`).

`WholeProofs` and `EagerProofs` prove of both parsers together, from the same assumptions and that a caller sees an error
before it gives up:

* `CountedOnce`: `WholeSpec => []EventsCountedOnce`
* `WholeLimit`: `WholeSpec => []WholeEventLimit`
* `CleanBetween`: `WholeSpec => []CleanBetweenChunks`
* `WellFormedUntilFallback`: what `WholeWellFormed` says, of every event up to the fallback, and even after errors
* `WellFormedThroughout`: `WholeSpec => WholeWellFormed`
* `DepthAsAsked`: `EagerSpec => []EagerDepthLimit`
* `StreamComplete`: `WholeSpec => []WholeStream`

The first three are from `WholeInvariance`, the inductive invariant

```
WholeInv == Inv /\ CacheInv /\ History /\ EagerWaits
EagerWaits ==
  /\ AtRest(eager)
  /\ parser.incremental => eager = NewEager /\ Len(delivered) = parser.events_delivered
  /\ errors = 0 => Healthy(eager)
  /\ ~parser.incremental /\ errors = 0 =>
       /\ Len(delivered) = Counted(eager)
       /\ MaxEvents > 0 => Len(delivered) <= MaxEvents
  /\ ~parser.incremental /\ result = "ERR_LIMIT" /\ MaxDepth = 0 => OverLimit(eager)
```

What is counted is the easy part of it. That the eager parser's contexts are gone when a document is over
depends on every function of the recursive descent, which pushes one in one step and pops it many tokens later, in
a step of its own or in `unroll_all`. So the invariant says what the stack of calls looks like between any two tokens: `Stack`, that
the stream's function is at the bottom, a document's above it and those of nodes above that, each waiting where it may
be waiting, with the place at which it may still insert an event within the list; and `Matched`, that there is a context
for every function that is inside of a collection, and no other. `DocLaw` is about `doc_open`: it is the
same as a `DOC_START` in the list without its `DOC_END`, but for a document that the last call left open, whose end is the first
event of the next list. `AtRest` and `Healthy` are these between steps, with what the limits need (`Steady`).
There is one lemma for each of the functions, `ASSUME Ready(p, at) PROVE Stepped(p, H(p))`; in between, `AtWork(p, q, d)`
says how far the function is that began its step with `p` and has made `q` of it: `d` contexts of its own are open, or the
parser is stopped. What holds after an error is little, and is said of the first error only (finding 6).
`CacheInv` (see `CacheAnswersAlike`) comes with the lemma that a step of the incremental parser delivers nothing of its own.

`WellFormedThroughout` is about the list itself, and is what `EagerProofs` is for. The eager parser does not queue its events in the
order of the grammar: a node is queued before the `:` that makes it a key is seen, and then `insert_event` puts a
`MAPPING_START` in front of it, behind which everything moves by one. So it is not enough to know where the list has led to:

```
HeardInv ==
  /\ parser.incremental => Delivered
  /\ ~parser.incremental /\ errors = 0 => Known(eager, open)
Known(q, levels) ==
  /\ \E a : Heard(a, q) /\ Joins(q, levels, a)
  /\ q.calls = <<>> /\ q.skip_n > 0 => ~q.stream_ended
```

`Laid(a, calls, w, m)`, of which `Heard` is made, divides the list `w` among the functions on the stack: function `j` has queued the
events from `m[j]` to `m[j + 1]`, from the levels `a` on each was accepted by what the ones before led to (`Leads`), and together they lead
to where `j` waits (`NodeWaits`, `Standing`). A function that may still insert an event begins with nothing but
a whole node behind that place (`Splits`), and a whole node may be read as the key of a mapping that starts in front of
it (`ToInserted`). Each function's lemma follows the list through its helpers (`Puts`, `Splits`) to `Told`. `Joins` is the
fallback: what is produced again and was compared (`skip_got`) leads from the checkpoint (`Delivered`) to where the list begins, and
the whole signature (`skip_sig`) to where the caller is, so that when they are equal the two are the same place.

`DepthAsAsked` rests on it. `check_eager_depth` counts starts and ends in the finished list, and the property is about what a caller
has open, which are the same only because the list is a stream: an event the grammar accepts adds to the open collections or closes one
as it is a start or an end (`RisesBy`), as the count does (`CountedDepth`), and the list begins with none open. `DepthInv` says
of every place in the list that what the caller has open is what was counted up to it; while a document is parsed, nothing is
delivered and nothing open.

`StreamComplete` says that a caller told that there are no more events, and of no error, has had the whole stream. `EndInv`
adds to the invariants above that once the incremental parser is in `DONE`, without an error, the way from what is open through
what is still queued leads to the stream's end, so an empty queue means that it was delivered. It has to hold when the state is entered:
`StepGoes` (at the end of `StreamProofs`) goes through every handler to show that none but the stream's end comes to `DONE`, which is
a matter of there always being a frame to return to, and that one either queues its event, or meets the event limit or a scanner
error, which the caller is told of. For the eager parser it is where the list leads (`EagerEndHeard`).

`ExpansionProofs` proves, for every set of documents, every `MaxEvents`, `MaxDepth` and `MaxPasses`:

* `ExpansionWithinLimitAlways`: `Spec => []ExpansionWithinLimit`
* `ExpansionEndsAlways`: `Spec => ExpansionEnds`

from `ExpansionInvariant`, `IInv == Lists /\ Passes /\ Search`: the list is within what the
stream has left and so is what a pass may make of it; the number of passes is within its bound; and
in the search every anchor of the list has a colour.
The measure is the phase, then the passes left, or twice the white anchors plus the length of the
search's stack: entering an anchor lengthens the stack by one and makes one anchor fewer white.

`EmitterProofs` proves, for every set of nodes, styles and indents and streams of any length:

* `EmitterTypes`: `Spec => []TypeOK`
* `ContextsAlways`: `Spec => []ContextsFollowEvents`
* `FlagsAlways`: `Spec => []FlagsMatchPlace`
* `LexemesAlwaysApart`: `Spec => []LexemesStayApart`

The first three follow from `EInv == TypeOK /\ Settled(emitter) /\ Shape`. `Shape` says that the contexts are the levels
of the event grammar, one for one; `Settled` that a flag is set only where the next node is
the one it is about. Within a call neither holds: `emit_pre_node` clears flags before the event has moved the
context on, and a collection's start pushes its own context and then advances the one below. So the
lemmas follow a call: `Ready` is what holds once the text in front of a node
is written, `Begun` relates the contexts then to those before, and every kind of event leads from `Ready` to `Settled`.

`LexemesStayApart` needs more, since it says nothing of the last symbol, next to which the next call will write:

```
AInv == EInv /\ Apart(emitter) /\ FirstLine
Apart(e) ==
  /\ Separated(e.out)
  /\ Nested(e.stack)
  /\ InContext(e, FlowTypes) => Ends(e, Closable)
  /\ ValueDue(e) => Ends(e, Colonable)
  /\ FirstDue(e) => Ends(e, {"[", "{"})
```

In a flow context the text ends with what a `,` or a bracket may follow; where the value of an ordinary key is
due, with what a `:` may follow, which the name of an alias is not: that is why `key_was_alias` is part of it; and before
the first entry with the bracket itself. `FirstLine` is for the first document, which begins without a new line:
nothing has been written by then. `Nested` is what makes the ends of collections
inductive, for what an end leaves is asked of the context *below*, whose own key may have
been the collection that has just ended: a block collection that is a key has made its parent's
`complex_key`, so that no `:` follows it on its line, and everything inside a flow collection is flow. The
invariant was checked by TLC on streams of mixed styles and settings before it was proved.

`ArenaProofs` proves, for every width, header size, set of sizes and alignments, and every place `malloc` may choose:

* `MemoryApartAlways`: `Spec => []MemoryApart`
* `PointersAlignedAlways`: `Spec => []PointersAligned`

from `ArenaInvariant`: blocks are apart and end within the address space, and what was given
out lies in the *used* part of a block (`MemoryApart` alone is not inductive: a block could give out
again what lies beyond its mark). That the next aligned address does not wrap around rests on
`PowersDivide`, an assumption of `Arena` that TLC evaluates: an alignment divides the size of the address space.

Model-checked and not proved: `NoMissedFlowKey` (no field of the parser says which bracket of the text a frame
was opened at), `ParsersAgree` and `ReadsBack` (they compare with `ParseText`, which is recursive), what
says which events the eager parser queues and not only how many (`FallbackRepeats`, `PropertiesInOrder`), `LimitsExact`, `ExpansionMeaning`,
`NamesUnique` and `FlagsAreTheEndless` (what folds over trees compute needs induction over data), and the liveness properties.

## What could come next

1. Allocation failures: the parser's `oom` flag and the growth of the scanner's buffers (`oyl_scanner.c:1609`).
2. Plain scalars over several lines, and tabs, in `Scanner`.

## Not modelled, and why

* Byte classification and SIMD searches are stateless.
* The schema: matching a scalar against a rule is a function of its characters, which the
  models do not have; the builder only appends.
* Tag and version directives only rewrite tags; the setters only set what is a constant
  or a choice of the initial state here.
* Allocation failures in the parsers, the expansion and the emitter; `oyl_read_file`, the library's only I/O.
* The benchmarks, the packaging and the tests are not part of the library; the tests and the
  fuzz target were read for what the code is meant to do.
