---------------------------- MODULE StreamProofs ----------------------------
(***************************************************************************)
(* The incremental parser keeps its promise: for every vocabulary, text    *)
(* length, limit and spacing, what it delivers implements EventStream, and *)
(* its frames, state and return state tell what is open in it.  Then the   *)
(* scanner below it, which counts brackets on its own, and the cache of    *)
(* what the text ahead of the scanner says.                                *)
(***************************************************************************)
EXTENDS EventProofs

-----------------------------------------------------------------------------
(***************************************************************************)
(* The inductive invariant.  Inv knows types and limits; here the events   *)
(* queued are a way on from what is open in those delivered, and while     *)
(* nothing has gone wrong the record says where it ends.                   *)
(***************************************************************************)

OnWay(q, levels) ==
  /\ \E b : Path(levels, q.out_buf, b)
  /\ q.status = "OK"
  /\ Sound(q) =>
       /\ Placed(q)
       /\ q.state \notin AwayStates => Path(levels, q.out_buf, Expected(q))
  /\ q.stop_status = "ERR_LIMIT" /\ ~q.scan_error => Reached(q)

\* A limit is only returned once what was queued before it is delivered.
LimitReturned ==
  result = "ERR_LIMIT" =>
    parser.stop_status = "ERR_LIMIT" /\ ~parser.scan_error /\ parser.out_buf = <<>>

StreamInv == Inv /\ OnWay(parser, open) /\ LimitReturned

\* A new parser is on its way.
LEMMA InitOnWay == Init => StreamInv
<1> SUFFICES ASSUME Init PROVE StreamInv
  OBVIOUS
<1> DEFINE a == <<"BEGIN">>
<1>1. /\ parser.out_buf = <<>> /\ parser.status = "OK" /\ parser.stop_status = "NONE"
      /\ parser.state = "STREAM_START" /\ parser.frames = <<>> /\ ~parser.doc_open
      /\ ~parser.has_anchor /\ ~parser.has_tag /\ open = a /\ result = "READY"
  BY DEF Init, NewParser
<1>2. a \in Room
  <2>1. "BEGIN" \in Stream!Level
    BY DEF Stream!Level
  <2>2. a \in Seq(Stream!Level) /\ a # <<>> /\ a[1] = "BEGIN" /\ Len(a) = 1
    BY <2>1
  <2>3. MaxDepth > 0 => 1 <= 2 * MaxDepth + 2
    BY LimitsAssumption
  <2> HIDE DEF a
  <2> QED BY <2>2, <2>3 DEF Room
<1> HIDE DEF a
<1>3. Path(a, <<>>, a)
  BY <1>2, PathNone
<1>4. Placed(parser)
  <2>1. FramesPlaced(<<>>)
    BY DEF FramesPlaced
  <2>2. parser.state \notin InnerStates /\ parser.state \notin NodeStates
    BY <1>1 DEF InnerStates, RootStates, NodeStates
  <2> QED BY <1>1, <2>1, <2>2 DEF Placed, StatePlaced, PropsPlaced, Bare
<1>5. Expected(parser) = a
  BY <1>1 DEF Expected, a
<1>6. OnWay(parser, open)
  BY <1>1, <1>3, <1>4, <1>5 DEF OnWay
<1> QED BY <1>1, <1>6, InitInv DEF StreamInv, LimitReturned

-----------------------------------------------------------------------------
(***************************************************************************)
(* The steps.                                                              *)
(***************************************************************************)

\* Only what the scanner knows changes.
LEMMA MoreTextOnWay ==
  ASSUME StreamInv, MoreText
  PROVE  StreamInv'
<1>1. parser \in ParserRecord
  BY DEF StreamInv, Inv, Kept
<1>2. /\ \E t : parser' = [parser EXCEPT !.scanner = t]
      /\ open' = open /\ result' = result
  BY DEF MoreText
<1>3. PICK t : parser' = [parser EXCEPT !.scanner = t]
  BY <1>2
<1>4. /\ parser'.out_buf = parser.out_buf /\ parser'.status = parser.status
      /\ parser'.incremental = parser.incremental /\ parser'.scan_error = parser.scan_error
      /\ parser'.stop_status = parser.stop_status /\ parser'.frames = parser.frames
      /\ parser'.state = parser.state /\ parser'.node_return = parser.node_return
      /\ parser'.doc_open = parser.doc_open /\ parser'.have_token = parser.have_token
      /\ parser'.current = parser.current
      /\ parser'.has_anchor = parser.has_anchor /\ parser'.has_tag = parser.has_tag
      /\ parser'.events_delivered = parser.events_delivered
  BY <1>1, <1>3 DEF ParserRecord
<1>5. Placed(parser') <=> Placed(parser)
  BY <1>4 DEF Placed, StatePlaced, NodePlaced, PropsPlaced, Bare, Tok
<1>6. Expected(parser') = Expected(parser)
  BY <1>4 DEF Expected, OpenAt
<1>7. Reached(parser') <=> Reached(parser)
  BY <1>4 DEF Reached, AtEventLimit
<1>8. Sound(parser') <=> Sound(parser)
  BY <1>4 DEF Sound
<1>9. OnWay(parser', open')
  BY <1>2, <1>4, <1>5, <1>6, <1>7, <1>8 DEF OnWay, StreamInv
<1>10. LimitReturned'
  BY <1>2, <1>4 DEF LimitReturned, StreamInv
<1> QED BY <1>9, <1>10, MoreTextInv DEF StreamInv

\* The first event queued is accepted, and the rest is a way on from it.
LEMMA DeliverOnWay ==
  ASSUME StreamInv, Deliver
  PROVE  /\ StreamInv'
         /\ Head(parser.out_buf) \in Stream!Event
         /\ Head(parser.out_buf) \in Stream!Accepts(open)
<1> DEFINE out == parser.out_buf
           rest == Tail(out)
           d == parser.events_delivered
           next == Stream!After(open, Head(out))
<1>1. /\ parser \in ParserRecord /\ out \in Seq(Stream!Event) /\ out # <<>> /\ d \in Nat
      /\ parser' = [parser EXCEPT !.out_buf = rest, !.events_delivered = d + 1]
      /\ open' = next /\ result' = "OK"
  BY DEF StreamInv, Inv, Kept, Deliver, ParserRecord
<1>2. Head(out) \in Stream!Event /\ Len(rest) = Len(out) - 1 /\ Len(out) \in Nat
  BY <1>1
<1> HIDE DEF out, rest, next, d
<1>3. /\ parser'.out_buf = rest /\ parser'.events_delivered = d + 1
      /\ parser'.status = parser.status
      /\ parser'.incremental = parser.incremental /\ parser'.scan_error = parser.scan_error
      /\ parser'.stop_status = parser.stop_status /\ parser'.frames = parser.frames
      /\ parser'.state = parser.state /\ parser'.node_return = parser.node_return
      /\ parser'.doc_open = parser.doc_open /\ parser'.have_token = parser.have_token
      /\ parser'.current = parser.current
      /\ parser'.has_anchor = parser.has_anchor /\ parser'.has_tag = parser.has_tag
  BY <1>1 DEF ParserRecord
<1>4. ASSUME NEW b, Path(open, out, b)
      PROVE  Head(out) \in Stream!Accepts(open) /\ Path(next, rest, b)
  BY <1>1, <1>4, PathTail DEF next, rest
<1>5. PICK b : Path(open, out, b)
  BY DEF StreamInv, OnWay, out
<1>6. Placed(parser') <=> Placed(parser)
  BY <1>3 DEF Placed, StatePlaced, NodePlaced, PropsPlaced, Bare, Tok
<1>7. Expected(parser') = Expected(parser)
  BY <1>3 DEF Expected, OpenAt
<1>8. Reached(parser') <=> Reached(parser)
  <2>1. d + 1 + Len(rest) = d + Len(out)
    BY <1>1, <1>2
  <2> QED BY <1>3, <2>1 DEF Reached, AtEventLimit, d, out
<1>9. Sound(parser') <=> Sound(parser)
  BY <1>3 DEF Sound
<1>10. OnWay(parser, open)
  BY DEF StreamInv
<1>11. OnWay(parser', open')
  <2>1. \E c : Path(open', parser'.out_buf, c)
    BY <1>1, <1>3, <1>4, <1>5
  <2>2. ASSUME Sound(parser'), parser'.state \notin AwayStates
        PROVE  Path(open', parser'.out_buf, Expected(parser'))
    BY <1>1, <1>3, <1>4, <1>7, <1>9, <1>10, <2>2 DEF OnWay, out
  <2>3. parser'.status = "OK" /\ (Sound(parser') => Placed(parser'))
    BY <1>3, <1>6, <1>9, <1>10 DEF OnWay
  <2>4. parser'.stop_status = "ERR_LIMIT" /\ ~parser'.scan_error => Reached(parser')
    BY <1>3, <1>8, <1>10 DEF OnWay
  <2> QED BY <2>1, <2>2, <2>3, <2>4 DEF OnWay
<1>12. LimitReturned'
  BY <1>1 DEF LimitReturned
<1> QED BY <1>2, <1>4, <1>5, <1>11, <1>12, DeliverInv DEF StreamInv, out

\* A state is entered as its handler expects.
LEMMA StartStep ==
  ASSUME StreamInv, NEW s, Stepping(s), s \notin AwayStates
  PROVE  AtStart(open, parser) /\ parser.state = s
<1>1. /\ Good(parser) /\ ~parser.scan_error /\ parser.state = s
      /\ s \in TokenStates => parser.have_token
  BY SteppingGood DEF StreamInv
<1>2. Sound(parser) /\ parser.stop_status = "NONE" /\ parser.out_buf = <<>>
  BY DEF Stepping, Sound
<1>3. Placed(parser) /\ parser.status = "OK" /\ Path(open, parser.out_buf, Expected(parser))
  BY <1>1, <1>2 DEF StreamInv, OnWay
<1>4. open = Expected(parser)
  <2>1. parser.out_buf \in Seq(Stream!Event)
    BY <1>1, FieldTypes
  <2>2. parser.out_buf = <<>> => Expected(parser) = open
    BY <1>3, <2>1, PathEnds
  <2> QED BY <1>2, <2>2
<1> QED BY <1>1, <1>2, <1>3, <1>4 DEF AtStart

\* What next_event makes of a step that has gone on with the stream.
LEMMA FinishOnWay ==
  ASSUME StreamInv, Inv', result = "BUSY", NEW q, Done(open, q), Finish(q)
  PROVE  StreamInv'
<1>1. CASE q.starved
  BY <1>1, MoreTextOnWay DEF Finish
<1>2. CASE ~q.starved
  <2> DEFINE kept == KeepEvents(q)
             r == [kept EXCEPT !.status = "OK"]
  <2>1. parser' = r /\ result' = Outcome(kept) /\ open' = open
    BY <1>2 DEF Finish
  <2>2. Good(q) /\ q.out_buf \in Seq(Stream!Event)
    BY FieldTypes DEF Done
  <2>3. Good(kept) /\ kept \in ParserRecord
    BY <2>2, KeepEventsGood DEF Good
  <2>4. kept.scan_error = q.scan_error
    BY <2>2, KeepEventsFields
  <2>5. ~q.scan_error => kept = q
    BY DEF KeepEvents
  <2>6. \E b : Path(open, kept.out_buf, b)
    <3>1. CASE q.scan_error
      <4>1. kept.out_buf = SubSeq(q.out_buf, 1, q.scan_error_out)
        BY <2>2, <3>1 DEF KeepEvents, Good, ParserRecord
      <4>2. q.scan_error_out \in Nat /\ q.scan_error_out <= Len(q.out_buf)
        BY <2>2, <3>1 DEF Good, ParserRecord, Bounds
      <4>3. PICK b : Path(open, q.out_buf, b)
        BY DEF Done
      <4> HIDE DEF kept
      <4> QED BY <2>2, <4>1, <4>2, <4>3, PathPrefix
    <3>2. CASE ~q.scan_error
      BY <2>5, <3>2 DEF Done
    <3> QED BY <3>1, <3>2
  <2> HIDE DEF kept
  <2>7. /\ r.out_buf = kept.out_buf /\ r.status = "OK"
        /\ r.scan_error = kept.scan_error /\ r.stop_status = kept.stop_status
        /\ r.frames = kept.frames /\ r.state = kept.state /\ r.node_return = kept.node_return
        /\ r.doc_open = kept.doc_open /\ r.have_token = kept.have_token
        /\ r.current = kept.current /\ r.events_delivered = kept.events_delivered
        /\ r.has_anchor = kept.has_anchor /\ r.has_tag = kept.has_tag
    BY <2>3 DEF ParserRecord
  <2> HIDE DEF r
  <2>8. (Placed(r) <=> Placed(kept)) /\ Expected(r) = Expected(kept)
        /\ (Reached(r) <=> Reached(kept))
    BY <2>7 DEF Placed, StatePlaced, NodePlaced, PropsPlaced, Bare, Tok, Expected, OpenAt,
                Reached, AtEventLimit
  <2>9. ASSUME Sound(r)
        PROVE  Placed(r) /\ (r.state \notin AwayStates => Path(open, r.out_buf, Expected(r)))
    <3>1. ~q.scan_error /\ kept = q /\ q.stop_status = "NONE"
      BY <2>4, <2>5, <2>7, <2>9 DEF Sound
    <3> QED BY <1>2, <2>7, <2>8, <3>1 DEF Done
  <2>10. r.stop_status = "ERR_LIMIT" /\ ~r.scan_error => Reached(r)
    BY <2>4, <2>5, <2>7, <2>8 DEF Done
  <2>11. OnWay(parser', open')
    BY <2>1, <2>6, <2>7, <2>9, <2>10 DEF OnWay
  <2>12. LimitReturned'
    <3>1. Outcome(kept) = "ERR_LIMIT" =>
            kept.stop_status = "ERR_LIMIT" /\ ~kept.scan_error /\ kept.out_buf = <<>>
      BY <2>3 DEF Outcome, ParserRecord
    <3> QED BY <2>1, <2>7, <3>1 DEF LimitReturned
  <2> QED BY <2>11, <2>12 DEF StreamInv
<1> QED BY <1>1, <1>2

\* The eager parser has queued nothing yet.
LEMMA FallBackOnWay ==
  ASSUME StreamInv, FallBack
  PROVE  StreamInv'
<1>1. /\ parser \in ParserRecord /\ parser.out_buf = <<>> /\ parser.stop_status = "NONE"
      /\ parser.status = "OK" /\ result = "BUSY"
  BY DEF StreamInv, Inv, Kept, FallBack, Stepping, OnWay
<1>2. /\ parser'.out_buf = <<>> /\ parser'.stop_status = "NONE" /\ parser'.status = "OK"
      /\ ~parser'.incremental /\ result' = "BUSY" /\ open' = open
  BY <1>1 DEF FallBack, ParserRecord
<1>3. Path(open, parser'.out_buf, open)
  <2>1. PICK b : Path(open, <<>>, b)
    BY <1>1 DEF StreamInv, OnWay
  <2> DEFINE none == <<>>
  <2>2. none \in Seq(Stream!Event) /\ Path(open, none, b)
    BY <2>1
  <2> HIDE DEF none
  <2>3. none = <<>> => b = open
    BY <2>2, PathEnds
  <2> QED BY <1>2, <2>2, <2>3 DEF none
<1>4. OnWay(parser', open')
  BY <1>2, <1>3 DEF OnWay, Sound
<1>5. LimitReturned'
  BY <1>2 DEF LimitReturned
<1> QED BY <1>4, <1>5, FallBackInv DEF StreamInv

\* One step of a state: its handler goes on with the stream.
LEMMA StepOnWay ==
  ASSUME StreamInv, Inv', NEW s, Stepping(s), s \notin AwayStates,
         NEW q, AtStart(open, parser) /\ parser.state = s => Done(open, q), Finish(q)
  PROVE  StreamInv'
<1>1. Done(open, q)
  BY StartStep
<1>2. result = "BUSY"
  BY DEF Stepping
<1> QED BY <1>1, <1>2, FinishOnWay

\* Every step of the stream's and the documents' states goes on with it.
LEMMA DocumentStepOnWay ==
  ASSUME StreamInv, Inv', DocumentStep
  PROVE  StreamInv'
<1> USE DEF AwayStates
<1>1. CASE DoStreamStart
  BY <1>1, StepOnWay, StreamStartDone DEF DoStreamStart
<1>2. CASE DoStreamDocLoop
  BY <1>2, StepOnWay, StreamDocLoopDone DEF DoStreamDocLoop
<1>3. CASE DoStreamEnd
  BY <1>3, StepOnWay, StreamEndDone DEF DoStreamEnd
<1>4. CASE DoDocDirectives
  BY <1>4, StepOnWay, DocDirectivesDone DEF DoDocDirectives
<1>5. CASE DoDocStartExplicit
  BY <1>5, StepOnWay, DocStartExplicitDone DEF DoDocStartExplicit
<1>6. CASE DoDocStartImplicit
  BY <1>6, StepOnWay, DocStartImplicitDone DEF DoDocStartImplicit
<1>7. CASE DoDocContent
  BY <1>7, StepOnWay, DocContentDone DEF DoDocContent
<1>8. CASE DoDocEndExplicit
  BY <1>8, StepOnWay, DocEndDone DEF DoDocEndExplicit
<1> QED BY <1>1, <1>2, <1>3, <1>4, <1>5, <1>6, <1>7, <1>8 DEF DocumentStep

\* Every step of the block states does.
LEMMA BlockStepOnWay ==
  ASSUME StreamInv, Inv', BlockStep
  PROVE  StreamInv'
<1> USE DEF AwayStates
<1>1. CASE DoBlockNode
  BY <1>1, StepOnWay, BlockNodeDone DEF DoBlockNode
<1>2. CASE DoBlockNodeScalar
  BY <1>2, StepOnWay, BlockNodeLeafDone DEF DoBlockNodeScalar, BlockNodeScalar, Stream!Leaf
<1>3. CASE DoBlockNodeScalarKey
  BY <1>3, StepOnWay, BlockNodeKeyDone DEF DoBlockNodeScalarKey
<1>4. CASE DoBlockNodeAlias
  BY <1>4, StepOnWay, BlockNodeLeafDone DEF DoBlockNodeAlias, BlockNodeAlias, Stream!Leaf
<1>5. CASE DoBlockNodeAliasKey
  BY <1>5, StepOnWay, BlockNodeKeyDone DEF DoBlockNodeAliasKey
<1>6. CASE DoBlockNodeSeq
  BY <1>6, StepOnWay, BlockOpenDone DEF DoBlockNodeSeq
<1>7. CASE DoBlockNodeExplicitKey
  BY <1>7, StepOnWay, BlockOpenDone DEF DoBlockNodeExplicitKey
<1>8. CASE DoBlockNodeBareValue
  BY <1>8, StepOnWay, BlockNodeBareValueDone DEF DoBlockNodeBareValue
<1>9. CASE DoBlockMapLoop
  BY <1>9, StepOnWay, BlockMapLoopDone DEF DoBlockMapLoop
<1>10. CASE DoBlockMapExplicitKey
  BY <1>10, StepOnWay, BlockMapExplicitKeyDone DEF DoBlockMapExplicitKey
<1>11. CASE DoBlockMapSimpleKey
  BY <1>11, StepOnWay, BlockMapSimpleKeyDone DEF DoBlockMapSimpleKey
<1>12. CASE DoBlockMapPostKey
  BY <1>12, StepOnWay, BlockMapPostKeyDone DEF DoBlockMapPostKey
<1>13. CASE DoBlockMapValue
  BY <1>13, StepOnWay, BlockMapValueDone DEF DoBlockMapValue
<1>14. CASE DoBlockMapEnd
  BY <1>14, StepOnWay, BlockEndsDone DEF DoBlockMapEnd
<1>15. CASE DoBlockSeqLoop
  BY <1>15, StepOnWay, BlockSeqLoopDone DEF DoBlockSeqLoop
<1>16. CASE DoBlockSeqEntry
  BY <1>16, StepOnWay, BlockSeqEntryDone DEF DoBlockSeqEntry
<1>17. CASE DoBlockSeqEnd
  BY <1>17, StepOnWay, BlockEndsDone DEF DoBlockSeqEnd
<1> QED BY <1>1, <1>2, <1>3, <1>4, <1>5, <1>6, <1>7, <1>8, <1>9, <1>10, <1>11, <1>12,
           <1>13, <1>14, <1>15, <1>16, <1>17
        DEF BlockStep

\* Every step of the flow states does.
LEMMA FlowStepOnWay ==
  ASSUME StreamInv, Inv', FlowStep
  PROVE  StreamInv'
<1> USE DEF AwayStates
<1>1. CASE DoFlowNode
  BY <1>1, StepOnWay, FlowNodeDone DEF DoFlowNode
<1>2. CASE DoFlowMapLoop
  BY <1>2, StepOnWay, FlowMapLoopDone DEF DoFlowMapLoop
<1>3. CASE DoFlowMapValue
  BY <1>3, StepOnWay, FlowMapValueDone DEF DoFlowMapValue
<1>4. CASE DoFlowMapSep
  BY <1>4, StepOnWay, FlowSepStateDone DEF DoFlowMapSep
<1>5. CASE DoFlowMapEnd
  BY <1>5, StepOnWay, FlowEndsDone DEF DoFlowMapEnd
<1>6. CASE DoFlowSeqLoop
  BY <1>6, StepOnWay, FlowSeqLoopDone DEF DoFlowSeqLoop
<1>7. CASE DoFlowSeqEntryKey
  BY <1>7, StepOnWay, FlowSeqEntryKeyDone DEF DoFlowSeqEntryKey
<1>8. CASE DoFlowSeqImplicitEnd
  BY <1>8, StepOnWay, FlowSeqPairEndDone DEF DoFlowSeqImplicitEnd
<1>9. CASE DoFlowSeqExplicitKey
  BY <1>9, StepOnWay, FlowSeqExplicitKeyDone DEF DoFlowSeqExplicitKey
<1>10. CASE DoFlowSeqExplicitValue
  BY <1>10, StepOnWay, FlowSeqExplicitValueDone DEF DoFlowSeqExplicitValue
<1>11. CASE DoFlowSeqExplicitEnd
  BY <1>11, StepOnWay, FlowSeqPairEndDone DEF DoFlowSeqExplicitEnd
<1>12. CASE DoFlowSeqSep
  BY <1>12, StepOnWay, FlowSepStateDone DEF DoFlowSeqSep
<1>13. CASE DoFlowSeqEnd
  BY <1>13, StepOnWay, FlowEndsDone DEF DoFlowSeqEnd
<1> QED BY <1>1, <1>2, <1>3, <1>4, <1>5, <1>6, <1>7, <1>8, <1>9, <1>10, <1>11, <1>12,
           <1>13
        DEF FlowStep

\* A step delivers at most an event the stream accepts, and keeps the
\* invariant.
LEMMA NextOnWay ==
  ASSUME StreamInv, [Next]_vars
  PROVE  StreamInv' /\ [Grammar!Next]_open
<1>1. Inv'
  BY NextInv DEF StreamInv
<1>2. CASE Call
  <2>1. OnWay(parser', open') /\ LimitReturned'
    BY <1>2 DEF Call, StreamInv, LimitReturned
  <2> QED BY <1>1, <1>2, <2>1 DEF Call, StreamInv
<1>3. CASE Deliver
  <2>1. Grammar!Next
    <3> DEFINE e == Head(parser.out_buf)
    <3>1. e \in Stream!Event /\ e \in Stream!Accepts(open)
      BY <1>3, DeliverOnWay
    <3>2. open' = Stream!After(open, e)
      BY <1>3 DEF Deliver
    <3> HIDE DEF e
    <3>3. Grammar!Event = Stream!Event
      BY DEF Grammar!Event, Stream!Event
    <3>4. Grammar!Accepts(open) = Stream!Accepts(open)
      BY DEF Grammar!Accepts, Stream!Accepts, Grammar!Top, Stream!Top, Grammar!NodeStart,
             Stream!NodeStart, Grammar!Leaf, Stream!Leaf
    <3>5. Grammar!After(open, e) = Stream!After(open, e)
      <4>1. \A level : Grammar!AfterNode(level) = Stream!AfterNode(level)
        BY Zenon DEF Grammar!AfterNode, Stream!AfterNode
      <4>2. Grammar!AfterNode(open[Len(open)]) = Stream!AfterNode(open[Len(open)])
        BY <4>1
      <4>3. Grammar!Below(open) = Stream!Below(open) /\ Grammar!Leaf = Stream!Leaf
        BY DEF Grammar!Below, Stream!Below, Grammar!Leaf, Stream!Leaf
      <4> QED BY <4>2, <4>3 DEF Grammar!After, Stream!After
    <3> QED BY <3>1, <3>2, <3>3, <3>4, <3>5 DEF Grammar!Next, Grammar!Deliver
  <2> QED BY <1>3, <2>1, DeliverOnWay
<1>4. CASE ReturnNone \/ ReturnScanError \/ ReturnStopped
  <2>1. PICK status : /\ Return(status) /\ status \in {"NONE", "ERR_SCAN", parser.stop_status}
                      /\ status # "NONE" => parser.state # "DONE"
                      /\ status \notin {"NONE", "ERR_SCAN"} => ~parser.scan_error
    BY <1>4 DEF ReturnNone, ReturnScanError, ReturnStopped
  <2>2. /\ parser' = parser /\ open' = open /\ result' = status /\ parser.out_buf = <<>>
    BY <2>1 DEF Return
  <2>3. LimitReturned'
    BY <2>1, <2>2 DEF LimitReturned
  <2>4. OnWay(parser', open')
    BY <2>2 DEF StreamInv
  <2> QED BY <1>1, <2>2, <2>3, <2>4 DEF StreamInv
<1>5. CASE DocumentStep
  <2>1. open' = open
    BY <1>5
       DEF DocumentStep, DoStreamStart, DoStreamDocLoop, DoStreamEnd, DoDocDirectives,
           DoDocStartExplicit, DoDocStartImplicit, DoDocContent, DoDocEndExplicit,
           Finish, MoreText
  <2> QED BY <1>1, <1>5, <2>1, DocumentStepOnWay
<1>6. CASE BlockStep
  <2>1. open' = open
    BY <1>6
       DEF BlockStep, DoBlockNode, DoBlockNodeScalar, DoBlockNodeScalarKey,
           DoBlockNodeAlias, DoBlockNodeAliasKey, DoBlockNodeSeq, DoBlockNodeExplicitKey,
           DoBlockNodeBareValue, DoBlockMapLoop, DoBlockMapExplicitKey,
           DoBlockMapSimpleKey, DoBlockMapPostKey, DoBlockMapValue, DoBlockMapEnd,
           DoBlockSeqLoop, DoBlockSeqEntry, DoBlockSeqEnd, Finish, MoreText
  <2> QED BY <1>1, <1>6, <2>1, BlockStepOnWay
<1>7. CASE FlowStep
  <2>1. open' = open
    BY <1>7
       DEF FlowStep, DoFlowNode, DoFlowMapLoop, DoFlowMapValue, DoFlowMapSep,
           DoFlowMapEnd, DoFlowSeqLoop, DoFlowSeqEntryKey, DoFlowSeqImplicitEnd,
           DoFlowSeqExplicitKey, DoFlowSeqExplicitValue, DoFlowSeqExplicitEnd,
           DoFlowSeqSep, DoFlowSeqEnd, Finish, MoreText
  <2> QED BY <1>1, <1>7, <2>1, FlowStepOnWay
<1>8. CASE FallBack
  <2>1. open' = open
    BY <1>8 DEF FallBack
  <2> QED BY <1>8, <2>1, FallBackOnWay
<1>9. CASE EagerParser \/ UNCHANGED vars
  <2>1. parser' = parser /\ open' = open /\ result' = result
    BY <1>9 DEF EagerParser, vars
  <2>2. OnWay(parser', open') /\ LimitReturned'
    BY <2>1 DEF StreamInv, LimitReturned
  <2> QED BY <1>1, <2>1, <2>2 DEF StreamInv
<1> QED BY <1>2, <1>3, <1>4, <1>5, <1>6, <1>7, <1>8, <1>9 DEF Next, Work

\* The invariant holds in every behaviour.
THEOREM StreamInvariance == Spec => []StreamInv
<1>1. StreamInv /\ [Next]_vars => StreamInv'
  BY NextOnWay
<1> QED BY <1>1, InitOnWay, PTL DEF Spec

-----------------------------------------------------------------------------
(***************************************************************************)
(* The brackets.  The scanner counts the ones it has read, the parser has  *)
(* a frame for each it has acted on.  They can only agree if each state    *)
(* knows what its frames and its token are: a state of a flow collection   *)
(* has one on top, and so has a frame or a node that returns to one.       *)
(***************************************************************************)

FlowInner == FlowStates \ {"FLOW_NODE"}

BlockInner ==
  {"BLOCK_MAP_LOOP", "BLOCK_MAP_EXPLICIT_KEY", "BLOCK_MAP_SIMPLE_KEY", "BLOCK_MAP_POST_KEY",
   "BLOCK_MAP_VALUE", "BLOCK_MAP_END", "BLOCK_SEQ_LOOP", "BLOCK_SEQ_ENTRY", "BLOCK_SEQ_END"}

\* The first n frames suit a state.
Suit(frames, n, state) ==
  /\ state \in FlowInner => n > 0 /\ frames[n].type \in FlowContext
  /\ state \in BlockInner => n > 0 /\ frames[n].type \in BlockContext

\* Each frame's return state suits those below it.
Nested(frames) == \A i \in 1..Len(frames) : Suit(frames, i - 1, frames[i].return_state)

\* Frames that suit a state suit its kin.
Kin(state, other) ==
  /\ state \in FlowInner => other \in FlowInner
  /\ state \in BlockInner => other \in BlockInner

\* The collection a state belongs to; a node's is its parent.
Home(state, node_return) == IF state \in NodeStates THEN node_return ELSE state

\* States that consume a token they take to be no bracket.
PlainStates ==
  {"DOC_START_EXPLICIT", "BLOCK_NODE_SCALAR", "BLOCK_NODE_ALIAS", "BLOCK_MAP_EXPLICIT_KEY",
   "BLOCK_SEQ_ENTRY", "FLOW_SEQ_ENTRY_KEY", "FLOW_SEQ_EXPLICIT_KEY"}

\* The record has the token its next state goes by.
Prepared(q, state) ==
  /\ state \in PlainStates => q.have_token /\ Tok(q) \notin Opening \cup Closing
  /\ state \in {"FLOW_SEQ_END", "FLOW_MAP_END"} => q.have_token /\ Tok(q) \in Closing
  /\ state = "STREAM_START" => ~q.have_token /\ ~q.scanner.stream_started

\* Nothing has gone wrong.
Calm(q) == Sound(q) /\ ~q.starved /\ q.error_msg = "none"

\* Whether it has is told by five fields.
LEMMA SameCalm ==
  ASSUME NEW q, NEW r, r.incremental = q.incremental, r.scan_error = q.scan_error,
         r.stop_status = q.stop_status, r.starved = q.starved, r.error_msg = q.error_msg
  PROVE  Calm(r) <=> Calm(q)
BY DEF Calm, Sound

\* What r keeps of q.
SameFrames(r, q) ==
  /\ r.frames = q.frames /\ r.node_return = q.node_return /\ r.scanner = q.scanner
  /\ r.current = q.current /\ r.scan_error = q.scan_error

\* Consuming the token keeps all but the token.
LEMMA ConsumeFields ==
  ASSUME NEW q \in ParserRecord
  PROVE  /\ SameFrames(Consume(q), q) /\ ~Consume(q).have_token
         /\ Calm(Consume(q)) => Calm(q)
<1> DEFINE r == Consume(q)
<1>1. /\ SameFrames(r, q) /\ ~r.have_token
      /\ r.incremental = q.incremental /\ r.stop_status = q.stop_status
      /\ r.starved = q.starved /\ r.error_msg = q.error_msg
  BY DEF Consume, ParserRecord, SameFrames
<1> HIDE DEF r
<1>2. Calm(r) => Calm(q)
  BY <1>1, SameCalm DEF SameFrames
<1> QED BY <1>1, <1>2 DEF r

\* Attaching the properties keeps all but them.
LEMMA AttachFields ==
  ASSUME NEW q \in ParserRecord
  PROVE  /\ SameFrames(AttachProps(q), q) /\ AttachProps(q).have_token = q.have_token
         /\ Calm(AttachProps(q)) => Calm(q)
<1> DEFINE r == AttachProps(q)
<1>1. /\ SameFrames(r, q) /\ r.have_token = q.have_token
      /\ r.incremental = q.incremental /\ r.stop_status = q.stop_status
      /\ r.starved = q.starved /\ r.error_msg = q.error_msg
  BY DEF AttachProps, ParserRecord, SameFrames
<1> HIDE DEF r
<1>2. Calm(r) => Calm(q)
  BY <1>1, SameCalm DEF SameFrames
<1> QED BY <1>1, <1>2 DEF r

\* Stopping keeps frames and tokens.
LEMMA StopFields ==
  ASSUME NEW q \in ParserRecord, NEW status \in {"ERR_LIMIT", "ERR_PARSE"}
  PROVE  /\ SameFrames(StopWith(q, status), q)
         /\ StopWith(q, status).have_token = q.have_token
         /\ ~Calm(StopWith(q, status))
<1> DEFINE m == IF status = "ERR_LIMIT" THEN "limit" ELSE "parse"
           r == [q EXCEPT !.stop_status = status, !.error_msg = m]
<1> HIDE DEF m
<1>1. /\ SameFrames(r, q) /\ r.have_token = q.have_token /\ r.stop_status = status
  BY DEF ParserRecord, SameFrames
<1> HIDE DEF r
<1>2. ~Calm(r)
  BY <1>1 DEF Calm, Sound
<1>3. q.stop_status # "NONE" => ~Calm(q)
  BY DEF Calm, Sound
<1>4. StopWith(q, status) = IF q.stop_status # "NONE" THEN q ELSE r
  BY DEF StopWith, r, m
<1>5. SameFrames(q, q)
  BY DEF SameFrames
<1>6. CASE q.stop_status # "NONE"
  BY <1>3, <1>4, <1>5, <1>6
<1>7. CASE q.stop_status = "NONE"
  BY <1>1, <1>2, <1>4, <1>7
<1> QED BY <1>6, <1>7

\* Queuing an event keeps frames and tokens.
LEMMA EmitFields ==
  ASSUME NEW q \in ParserRecord, NEW e
  PROVE  /\ SameFrames(Emit(q, e), q) /\ Emit(q, e).have_token = q.have_token
         /\ Calm(Emit(q, e)) => Calm(q)
<1> DEFINE out == Append(q.out_buf, e)
           r == [q EXCEPT !.out_buf = out]
<1>1. CASE AtEventLimit(q)
  BY <1>1, StopFields DEF Emit
<1>2. CASE ~AtEventLimit(q) /\ Len(q.out_buf) < OutSize
  <2>1. Emit(q, e) = r
    BY <1>2 DEF Emit
  <2> HIDE DEF out
  <2>2. /\ SameFrames(r, q) /\ r.have_token = q.have_token
        /\ r.incremental = q.incremental /\ r.stop_status = q.stop_status
        /\ r.starved = q.starved /\ r.error_msg = q.error_msg
    BY DEF ParserRecord, SameFrames
  <2> HIDE DEF r
  <2>3. Calm(r) => Calm(q)
    BY <2>2, SameCalm DEF SameFrames
  <2> QED BY <2>1, <2>2, <2>3
<1>3. CASE ~AtEventLimit(q) /\ ~(Len(q.out_buf) < OutSize)
  BY <1>3 DEF Emit, SameFrames
<1> QED BY <1>1, <1>2, <1>3

\* The brackets agree.
Even(q) ==
  \/ FlowFrames(q.frames) = 0 /\ PendingBracket(q) = -1
  \/ Len(q.scanner.flows) = FlowFrames(q.frames) + PendingBracket(q)

\* The record some way into a step, at a node that returns to n, with frames
\* that suit the state s.
Suits(q, n, s) ==
  /\ Good(q) /\ q.node_return = n
  /\ Calm(q) => Even(q) /\ Nested(q.frames) /\ Suit(q.frames, Len(q.frames), s)

\* The record between two steps.
Aligned(q) ==
  Calm(q) /\ q.state # "DONE" =>
    /\ Even(q) /\ Nested(q.frames)
    /\ Suit(q.frames, Len(q.frames), Home(q.state, q.node_return))
    /\ Prepared(q, q.state)

\* A frame more, or less.
LEMMA FrameStep ==
  ASSUME NEW low \in Seq(Frame), NEW frames \in Seq(Frame), Len(frames) = Len(low) + 1,
         \A i \in 1..Len(low) : low[i] = frames[i]
  PROVE  LET top == frames[Len(frames)]
         IN  /\ FlowFrames(low) \in Nat
             /\ FlowFrames(frames) =
                  FlowFrames(low) + (IF top.type \in FlowContext THEN 1 ELSE 0)
             /\ Nested(frames) <=> Nested(low) /\ Suit(low, Len(low), top.return_state)
<1> DEFINE m == Len(low)
           top == frames[Len(frames)]
           below == {i \in 1..m : low[i].type \in FlowContext}
           all == {i \in 1..(m + 1) : frames[i].type \in FlowContext}
<1>1. m \in Nat /\ Len(frames) = m + 1
  OBVIOUS
<1>2. IsFiniteSet(1..m) /\ below \subseteq 1..m
  BY <1>1, FS_Interval
<1>3. IsFiniteSet(below) /\ Cardinality(below) \in Nat
  <2> HIDE DEF below
  <2> QED BY <1>2, FS_Subset, FS_CardinalityType
<1>4. all = IF top.type \in FlowContext THEN below \cup {m + 1} ELSE below
  <2>1. ASSUME NEW i PROVE i \in all <=> i \in below \/ (i = m + 1 /\ top.type \in FlowContext)
    BY <1>1
  <2> HIDE DEF all, below, top, m
  <2> QED BY <2>1
<1>5. m + 1 \notin below
  BY <1>1
<1>6. Cardinality(all) = Cardinality(below) + (IF top.type \in FlowContext THEN 1 ELSE 0)
  <2>1. Cardinality(below \cup {m + 1}) = Cardinality(below) + 1
    <3> HIDE DEF below
    <3> QED BY <1>3, <1>5, FS_AddElement
  <2> HIDE DEF below, all, top
  <2> QED BY <1>3, <1>4, <2>1
<1>7. FlowFrames(low) = Cardinality(below) /\ FlowFrames(frames) = Cardinality(all)
  BY <1>1 DEF FlowFrames
<1>8. ASSUME NEW i \in 1..m, NEW state
      PROVE  Suit(frames, i - 1, state) <=> Suit(low, i - 1, state)
  BY <1>1 DEF Suit
<1>9. ASSUME NEW state PROVE Suit(frames, m, state) <=> Suit(low, m, state)
  BY <1>1 DEF Suit
<1>10. Nested(frames) <=> Nested(low) /\ Suit(low, m, top.return_state)
  <2>1. ASSUME Nested(frames) PROVE Nested(low) /\ Suit(low, m, top.return_state)
    <3>1. ASSUME NEW i \in 1..m PROVE Suit(low, i - 1, low[i].return_state)
      <4>1. i \in 1..Len(frames)
        BY <1>1
      <4>2. Suit(frames, i - 1, frames[i].return_state)
        BY <2>1, <4>1 DEF Nested
      <4> QED BY <1>8, <4>2
    <3>2. Suit(frames, m, top.return_state)
      <4>1. m + 1 \in 1..Len(frames) /\ (m + 1) - 1 = m
        BY <1>1
      <4>2. Suit(frames, (m + 1) - 1, frames[m + 1].return_state)
        BY <2>1, <4>1 DEF Nested
      <4> QED BY <1>1, <4>1, <4>2
    <3> QED BY <1>9, <3>1, <3>2 DEF Nested
  <2>2. ASSUME Nested(low), Suit(low, m, top.return_state) PROVE Nested(frames)
    <3> SUFFICES ASSUME NEW i \in 1..Len(frames)
                 PROVE  Suit(frames, i - 1, frames[i].return_state)
      BY DEF Nested
    <3>1. CASE i \in 1..m
      <4>1. Suit(low, i - 1, low[i].return_state)
        BY <2>2, <3>1 DEF Nested
      <4> QED BY <1>8, <3>1, <4>1
    <3>2. CASE i = m + 1
      <4>1. i - 1 = m
        BY <1>1, <3>2
      <4> QED BY <1>1, <1>9, <2>2, <3>2, <4>1
    <3>3. i \in 1..m \/ i = m + 1
      BY <1>1
    <3> QED BY <3>1, <3>2, <3>3
  <2> QED BY <2>1, <2>2
<1> HIDE DEF below, all
<1> QED BY <1>3, <1>6, <1>7, <1>10

\* A stack's flow frames are finitely many.
LEMMA FlowFramesType ==
  ASSUME NEW frames \in Seq(Frame)
  PROVE  FlowFrames(frames) \in Nat
<1> DEFINE all == {i \in 1..Len(frames) : frames[i].type \in FlowContext}
<1>1. IsFiniteSet(1..Len(frames)) /\ all \subseteq 1..Len(frames)
  BY FS_Interval
<1> HIDE DEF all
<1> QED BY <1>1, FS_Subset, FS_CardinalityType DEF FlowFrames, all

-----------------------------------------------------------------------------
(***************************************************************************)
(* The brackets within a step.                                             *)
(***************************************************************************)

\* The lookahead token is no bracket.
NoBracket(q) == q.have_token => Tok(q) \notin Opening \cup Closing

\* What a pending bracket counts for.
LEMMA PendingType ==
  ASSUME NEW q
  PROVE  /\ NoBracket(q) => PendingBracket(q) = 0
         /\ q.have_token /\ Tok(q) \in Opening => PendingBracket(q) = 1
         /\ q.have_token /\ Tok(q) \in Closing => PendingBracket(q) = -1
         /\ PendingBracket(q) \in Int
BY DEF NoBracket, PendingBracket, Opening, Closing, FlowStarts

\* Neither the frames nor the token changes.
LEMMA SameSuits ==
  ASSUME NEW q, NEW n, NEW s, Suits(q, n, s), NEW r, Good(r),
         r.frames = q.frames, r.node_return = q.node_return,
         Calm(r) => /\ Calm(q) /\ r.have_token = q.have_token /\ Tok(r) = Tok(q)
                    /\ r.scanner = q.scanner
  PROVE  Suits(r, n, s)
BY DEF Suits, Even, PendingBracket

\* A peek counts the bracket it reads.
LEMMA PeekSuits ==
  ASSUME NEW q, NEW n, NEW s, Suits(q, n, s)
  PROVE  /\ Suits(Peek(q), n, s)
         /\ Calm(Peek(q)) => Calm(q) /\ Peek(q).have_token
         /\ q.have_token => Peek(q) = q
<1> DEFINE c == Scan(q.scanner)
           r == Peek(q)
<1>1. Good(q) /\ Good(r) /\ q.scanner \in ScannerState
  BY PeekGood, FieldTypes DEF Suits
<1>2. q.have_token => r = q
  BY DEF Peek
<1>3. c.res \in {"OK", "ERROR", "STARVED"} /\ FlowsFollow(q.scanner, c)
  BY <1>1, ScanType, ScanFollow DEF ScanResult
<1> HIDE DEF c
<1>4. r.frames = q.frames /\ r.node_return = q.node_return
  BY <1>1, PeekQuiet DEF Quiet
<1>5. ASSUME Calm(r), ~q.have_token
      PROVE  /\ c.res = "OK" /\ Calm(q) /\ r.have_token
             /\ Tok(r) = c.tok.type /\ r.scanner = c.s
  <2> DEFINE x == c.s
             tok == c.tok
             len == Len(q.out_buf)
  <2>1. q \in ParserRecord
    BY <1>1 DEF Good
  <2>2. r = Peeked(q, c)
    BY <1>5 DEF Peek, c
  <2>3. ~r.scan_error /\ ~r.starved
    BY <1>5 DEF Calm, Sound
  <2>4. c.res = "OK"
    <3>1. CASE c.res = "ERROR"
      <4>1. r = [q EXCEPT !.scanner = x, !.scan_error = TRUE, !.scan_error_out = len,
                          !.error_msg = "scan"]
        BY <2>2, <3>1 DEF Peeked
      <4> HIDE DEF x, len
      <4>2. r.scan_error
        BY <2>1, <4>1 DEF ParserRecord
      <4> QED BY <2>3, <4>2
    <3>2. CASE c.res = "STARVED"
      <4>1. r = [q EXCEPT !.starved = TRUE]
        BY <2>2, <3>2 DEF Peeked
      <4>2. r.starved
        BY <2>1, <4>1 DEF ParserRecord
      <4> QED BY <2>3, <4>2
    <3> QED BY <1>3, <3>1, <3>2
  <2>5. r = [q EXCEPT !.scanner = x, !.current = tok, !.have_token = TRUE]
    BY <2>2, <2>4 DEF Peeked
  <2> HIDE DEF x, tok
  <2>6. /\ r.scanner = x /\ r.current = tok /\ r.have_token
        /\ r.status = q.status /\ r.stop_status = q.stop_status
        /\ r.scan_error = q.scan_error /\ r.starved = q.starved /\ r.error_msg = q.error_msg
        /\ r.incremental = q.incremental
    BY <2>1, <2>5 DEF ParserRecord
  <2> QED BY <1>5, <2>4, <2>6 DEF Calm, Sound, Tok, x, tok
<1> HIDE DEF r
<1>6. ASSUME Calm(r), ~q.have_token PROVE Even(r)
  <2> DEFINE k == FlowFrames(q.frames)
             f == q.scanner.flows
  <2>1. k \in Nat /\ Len(f) \in Nat
    <3>1. q.frames \in Seq(Frame) /\ q.scanner \in ScannerState
      BY <1>1 DEF Good, ParserRecord
    <3>2. k \in Nat
      BY <3>1, FlowFramesType
    <3>3. f \in Seq(OpenBracket)
      BY <3>1 DEF ScannerState
    <3> QED BY <3>2, <3>3
  <2>2. Len(f) = k
    <3>1. PendingBracket(q) = 0
      BY <1>6, PendingType DEF NoBracket
    <3>2. Even(q)
      BY <1>5, <1>6 DEF Suits
    <3> QED BY <2>1, <3>1, <3>2 DEF Even
  <2>3. FlowFrames(r.frames) = k /\ r.have_token
    BY <1>4, <1>5, <1>6
  <2>4. FlowsFollow(q.scanner, c) /\ c.res = "OK" /\ Tok(r) = c.tok.type /\ r.scanner = c.s
    BY <1>3, <1>5, <1>6
  <2>5. (f = <<>>) => Len(f) = 0
    OBVIOUS
  <2>6. CASE Tok(r) \in Opening
    <3>1. Len(r.scanner.flows) = Len(f) + 1
      BY <2>4, <2>6 DEF FlowsFollow
    <3>2. PendingBracket(r) = 1
      BY <2>3, <2>6, PendingType
    <3> HIDE DEF f, k
    <3> QED BY <2>2, <2>3, <3>1, <3>2 DEF Even
  <2>7. CASE Tok(r) \in Closing
    <3>1. Len(r.scanner.flows) = IF f = <<>> THEN 0 ELSE Len(f) - 1
      BY <2>4, <2>7 DEF FlowsFollow
    <3>2. PendingBracket(r) = -1
      BY <2>3, <2>7, PendingType
    <3> HIDE DEF f, k
    <3> QED BY <2>1, <2>2, <2>3, <2>5, <3>1, <3>2 DEF Even
  <2>8. CASE Tok(r) \notin Opening \cup Closing
    <3>1. r.scanner.flows = f
      BY <2>4, <2>8 DEF FlowsFollow
    <3>2. PendingBracket(r) = 0
      BY <2>3, <2>8, PendingType DEF NoBracket
    <3> HIDE DEF f, k
    <3> QED BY <2>1, <2>2, <2>3, <3>1, <3>2 DEF Even
  <2> QED BY <2>6, <2>7, <2>8
<1>7. Suits(r, n, s)
  BY <1>1, <1>2, <1>4, <1>5, <1>6 DEF Suits
<1> QED BY <1>2, <1>5, <1>7 DEF r

\* Only a token that is no bracket may be consumed without a frame.
LEMMA ConsumeSuits ==
  ASSUME NEW q, NEW n, NEW s, Suits(q, n, s), Calm(q) => NoBracket(q)
  PROVE  /\ Suits(Consume(q), n, s)
         /\ Calm(Consume(q)) => Calm(q)
         /\ ~Consume(q).have_token /\ Tok(Consume(q)) = Tok(q)
<1> DEFINE r == Consume(q)
<1>1. Good(q) /\ Good(r)
  BY ConsumeGood DEF Suits
<1>2. /\ r.frames = q.frames /\ r.node_return = q.node_return /\ r.scanner = q.scanner
      /\ ~r.have_token /\ Tok(r) = Tok(q)
      /\ Calm(r) => Calm(q)
  <2>1. q \in ParserRecord
    BY <1>1 DEF Good
  <2> QED BY <2>1, ConsumeFields DEF SameFrames, Tok
<1> HIDE DEF r
<1>3. PendingBracket(r) = 0 /\ (Calm(r) => PendingBracket(q) = 0)
  BY <1>2, PendingType DEF NoBracket
<1>4. Calm(r) => Even(r)
  BY <1>2, <1>3 DEF Suits, Even
<1>5. Suits(r, n, s)
  BY <1>1, <1>2, <1>4 DEF Suits
<1> QED BY <1>2, <1>5 DEF r

\* Queuing an event is no matter of brackets.
LEMMA EmitSuits ==
  ASSUME NEW q, NEW n, NEW s, Suits(q, n, s), NEW e \in Stream!Event
  PROVE  /\ Suits(Emit(q, e), n, s)
         /\ Calm(Emit(q, e)) => Calm(q)
         /\ Emit(q, e).have_token = q.have_token /\ Tok(Emit(q, e)) = Tok(q)
<1> DEFINE r == Emit(q, e)
<1>1. Good(q) /\ Good(r)
  BY EmitGood DEF Suits
<1>2. /\ r.frames = q.frames /\ r.node_return = q.node_return /\ r.scanner = q.scanner
      /\ r.have_token = q.have_token /\ Tok(r) = Tok(q)
      /\ Calm(r) => Calm(q)
  <2>1. q \in ParserRecord
    BY <1>1 DEF Good
  <2> QED BY <2>1, EmitFields DEF SameFrames, Tok
<1> HIDE DEF r
<1>3. Suits(r, n, s)
  BY <1>1, <1>2, SameSuits
<1> QED BY <1>2, <1>3 DEF r

\* Nor is attaching properties.
LEMMA AttachSuits ==
  ASSUME NEW q, NEW n, NEW s, Suits(q, n, s)
  PROVE  /\ Suits(AttachProps(q), n, s)
         /\ Calm(AttachProps(q)) => Calm(q)
         /\ AttachProps(q).have_token = q.have_token /\ Tok(AttachProps(q)) = Tok(q)
<1> DEFINE r == AttachProps(q)
<1>1. Good(q) /\ Good(r)
  BY AttachPropsGood DEF Suits
<1>2. /\ r.frames = q.frames /\ r.node_return = q.node_return /\ r.scanner = q.scanner
      /\ r.have_token = q.have_token /\ Tok(r) = Tok(q)
      /\ Calm(r) => Calm(q)
  <2>1. q \in ParserRecord
    BY <1>1 DEF Good
  <2> QED BY <2>1, AttachFields DEF SameFrames, Tok
<1> HIDE DEF r
<1>3. Suits(r, n, s)
  BY <1>1, <1>2, SameSuits
<1> QED BY <1>2, <1>3 DEF r

\* A scalar's token is no bracket.
LEMMA ScalarTokenSuits ==
  ASSUME NEW q, NEW n, NEW s, Suits(q, n, s), Tok(q) = "SCALAR"
  PROVE  Suits(EmitScalarToken(q), n, s) /\ (Calm(EmitScalarToken(q)) => Calm(q))
<1> DEFINE p == AttachProps(q)
           r == Emit(p, "SCALAR")
           stop == StopWith(q, "ERR_LIMIT")
<1>1. Good(q) /\ "SCALAR" \in Stream!Event
  BY EventNames DEF Suits
<1>2. Suits(p, n, s) /\ (Calm(p) => Calm(q)) /\ Tok(p) = "SCALAR"
  BY AttachSuits
<1> HIDE DEF p
<1>3. Suits(r, n, s) /\ (Calm(r) => Calm(q)) /\ Tok(r) = "SCALAR"
  BY <1>1, <1>2, EmitSuits
<1> HIDE DEF r
<1>4. NoBracket(r)
  BY <1>3 DEF NoBracket, Opening, Closing
<1>5. Suits(Consume(r), n, s) /\ (Calm(Consume(r)) => Calm(q))
  BY <1>3, <1>4, ConsumeSuits
<1>6. /\ Good(stop) /\ stop.frames = q.frames /\ stop.node_return = q.node_return
      /\ ~Calm(stop)
  <2>1. q \in ParserRecord
    BY <1>1 DEF Good
  <2> QED BY <1>1, <2>1, StopWithGood, StopFields DEF SameFrames
<1> HIDE DEF stop
<1>7. Suits(stop, n, s)
  BY <1>6, SameSuits
<1>8. EmitScalarToken(q) \in {stop, Consume(r)}
  BY DEF EmitScalarToken, stop, r, p
<1> QED BY <1>5, <1>6, <1>7, <1>8

\* An error is no matter of brackets any more.
LEMMA ErrorAligned ==
  ASSUME NEW q, Good(q)
  PROVE  ~Calm(ParseError(q)) /\ Aligned(ParseError(q))
BY DEF ParseError, Good, ParserRecord, Calm, Aligned

\* Looking ahead for a flow key only fills the cache.
LEMMA LookAheadSuits ==
  ASSUME NEW q, NEW n, NEW s, Suits(q, n, s)
  PROVE  LET r == LookAhead(q, q.current.pos)
         IN  /\ Suits(r, n, s)
             /\ Calm(r) => Calm(q)
             /\ r.have_token = q.have_token /\ Tok(r) = Tok(q)
<1> DEFINE r == LookAhead(q, q.current.pos)
<1>1. Good(q) /\ Good(r)
  BY LookAheadGood DEF Suits
<1>2. /\ r.frames = q.frames /\ r.node_return = q.node_return /\ r.scanner = q.scanner
      /\ r.have_token = q.have_token /\ Tok(r) = Tok(q)
      /\ Calm(r) => Calm(q)
  BY <1>1 DEF LookAhead, Good, ParserRecord, Calm, Sound, Tok
<1> HIDE DEF r
<1>3. Suits(r, n, s)
  BY <1>1, <1>2, SameSuits
<1> QED BY <1>2, <1>3 DEF r

\* A checkpoint is only noted.
LEMMA TakeCheckpointSuits ==
  ASSUME NEW q, NEW n, NEW s, Suits(q, n, s)
  PROVE  LET r == TakeCheckpoint(q)
         IN  /\ Suits(r, n, s)
             /\ Calm(r) => Calm(q)
             /\ r.have_token = q.have_token /\ Tok(r) = Tok(q)
<1> DEFINE r == TakeCheckpoint(q)
<1>1. Good(q) /\ Good(r)
  BY TakeCheckpointGood DEF Suits
<1>2. /\ r.frames = q.frames /\ r.node_return = q.node_return /\ r.scanner = q.scanner
      /\ r.have_token = q.have_token /\ Tok(r) = Tok(q)
      /\ Calm(r) => Calm(q)
  BY <1>1 DEF TakeCheckpoint, Good, ParserRecord, Calm, Sound, Tok
<1> HIDE DEF r
<1>3. Suits(r, n, s)
  BY <1>1, <1>2, SameSuits
<1> QED BY <1>2, <1>3 DEF r

\* One property at most is taken, and it is no bracket.
LEMMA TakePropSuits ==
  ASSUME NEW q, NEW n, NEW s, Suits(q, n, s)
  PROVE  Suits(TakePropIfAny(q), n, s) /\ (Calm(TakePropIfAny(q)) => Calm(q))
<1> DEFINE b == [q EXCEPT !.has_anchor = TRUE]
           t == [q EXCEPT !.has_tag = TRUE]
<1>1. Good(q)
  BY DEF Suits
<1>2. ASSUME NEW p \in {b, t}
      PROVE  /\ Good(p) /\ p.frames = q.frames /\ p.node_return = q.node_return
             /\ p.scanner = q.scanner /\ p.have_token = q.have_token /\ Tok(p) = Tok(q)
             /\ Calm(p) => Calm(q)
  <2>1. CASE p = b
    BY <1>1, <2>1 DEF Good, ParserRecord, Bounds, Calm, Sound, Tok
  <2>2. CASE p = t
    BY <1>1, <2>2 DEF Good, ParserRecord, Bounds, Calm, Sound, Tok
  <2> QED BY <1>2, <2>1, <2>2
<1>3. TakeProp(q) \in {Consume(b), Consume(t)}
  BY DEF TakeProp
<1> HIDE DEF b, t
<1>4. ASSUME NEW p \in {b, t}, IsNewProp(q)
      PROVE  /\ Suits(Peek(Consume(p)), n, s)
             /\ Calm(Peek(Consume(p))) => Calm(q)
  <2>1. Suits(p, n, s) /\ (Calm(p) => Calm(q))
    BY <1>2, SameSuits
  <2>2. NoBracket(p)
    BY <1>2, <1>4 DEF NoBracket, IsNewProp, Opening, Closing
  <2> DEFINE c == Consume(p)
  <2>3. Suits(c, n, s) /\ (Calm(c) => Calm(q))
    BY <2>1, <2>2, ConsumeSuits
  <2> HIDE DEF c
  <2> QED BY <2>3, PeekSuits DEF c
<1>5. ASSUME IsNewProp(q)
      PROVE  Suits(Peek(TakeProp(q)), n, s) /\ (Calm(Peek(TakeProp(q))) => Calm(q))
  BY <1>3, <1>4, <1>5
<1>6. \/ TakePropIfAny(q) = q
      \/ IsNewProp(q) /\ TakePropIfAny(q) = Peek(TakeProp(q))
  BY DEF TakePropIfAny
<1> QED BY <1>5, <1>6

\* Reading properties.
LEMMA ConsumePropsSuits ==
  ASSUME NEW q, NEW n, NEW s, Suits(q, n, s)
  PROVE  LET r == ConsumeProps(q)
         IN  Suits(r, n, s) /\ (Calm(r) => Calm(q))
<1> DEFINE p == Peek(q)
           t == TakePropIfAny(p)
           u == TakePropIfAny(t)
<1>1. Suits(p, n, s) /\ (Calm(p) => Calm(q))
  BY PeekSuits
<1> HIDE DEF p
<1>2. Suits(t, n, s) /\ (Calm(t) => Calm(q))
  BY <1>1, TakePropSuits
<1> HIDE DEF t
<1>3. Suits(u, n, s) /\ (Calm(u) => Calm(q))
  BY <1>2, TakePropSuits
<1> HIDE DEF u
<1>4. Good(u)
  BY <1>3 DEF Suits
<1>5. /\ Good(ParseError(u)) /\ ~Calm(ParseError(u))
      /\ ParseError(u).frames = u.frames /\ ParseError(u).node_return = u.node_return
  BY <1>4, ErrorAligned, ParseErrorGood DEF ParseError, Good, ParserRecord
<1>6. Suits(ParseError(u), n, s)
  BY <1>3, <1>5, SameSuits
<1>7. ConsumeProps(q) \in {u, ParseError(u)}
  BY DEF ConsumeProps, RefuseAliasWithProps, u, t, p
<1> QED BY <1>3, <1>5, <1>6, <1>7

-----------------------------------------------------------------------------
(***************************************************************************)
(* The brackets at a step's ends.                                          *)
(***************************************************************************)

\* A step's first record.
Begun(q, s) == (\E a : AtStart(a, q)) /\ q.state = s /\ s # "DONE" /\ Aligned(q)

\* What a step starts from.
LEMMA BeginSuits ==
  ASSUME NEW q, NEW s, Begun(q, s)
  PROVE  /\ Suits(q, q.node_return, Home(s, q.node_return))
         /\ Calm(q) => Prepared(q, s)
         /\ s \in NodeStates => q.node_return \in ReturnState \ {"STREAM_START"}
         /\ FramesPlaced(q.frames) /\ ~q.scan_error
         /\ s \in TokenStates => q.have_token
<1>1. PICK a : AtStart(a, q)
  BY DEF Begun
<1>2. Good(q) /\ q.node_return \in ReturnState
  BY <1>1, FieldTypes DEF AtStart
<1>3. /\ FramesPlaced(q.frames) /\ ~q.scan_error
      /\ q.state \in TokenStates => q.have_token
      /\ q.state \in NodeStates => q.node_return # "STREAM_START"
  BY <1>1 DEF AtStart, Placed, StatePlaced, NodePlaced
<1> QED BY <1>2, <1>3 DEF Begun, Suits, Aligned

\* Frames that suit a state suit its kin.
LEMMA KinSuit ==
  ASSUME NEW frames, NEW n, NEW s, NEW t, Suit(frames, n, s), Kin(t, s)
  PROVE  Suit(frames, n, t)
BY DEF Suit, Kin

\* A step ends in a state that its frames and its token suit.
LEMMA StaysAligned ==
  ASSUME NEW q, NEW n, NEW s, Suits(q, n, s), Kin(Home(q.state, n), s),
         Calm(q) => Prepared(q, q.state)
  PROVE  Aligned(q)
BY KinSuit DEF Suits, Aligned

\* Going to a state keeps frames and token.
LEMMA GotoSuits ==
  ASSUME NEW q, NEW n, NEW s, Suits(q, n, s), NEW t \in State
  PROVE  /\ Suits(Goto(q, t), n, s) /\ Goto(q, t).state = t
         /\ Calm(Goto(q, t)) => Calm(q)
         /\ Goto(q, t).have_token = q.have_token /\ Tok(Goto(q, t)) = Tok(q)
         /\ Goto(q, t).scanner = q.scanner
<1> DEFINE r == Goto(q, t)
<1>1. Good(q)
  BY DEF Suits
<1>2. /\ Good(r) /\ r.frames = q.frames /\ r.node_return = q.node_return /\ r.state = t
      /\ r.scanner = q.scanner /\ r.have_token = q.have_token /\ Tok(r) = Tok(q)
      /\ Calm(r) => Calm(q)
  BY <1>1, GotoGood DEF Goto, Good, ParserRecord, Calm, Sound, Tok
<1> HIDE DEF r
<1>3. Suits(r, n, s)
  BY <1>2, SameSuits
<1> QED BY <1>2, <1>3 DEF r

\* Going to a state that they suit.
LEMMA GotoAligned ==
  ASSUME NEW q, NEW n, NEW s, Suits(q, n, s), NEW t \in State, Kin(Home(t, n), s),
         Calm(q) => Prepared(q, t)
  PROVE  Aligned(Goto(q, t))
<1> DEFINE r == Goto(q, t)
<1>1. /\ Suits(r, n, s) /\ r.state = t /\ (Calm(r) => Calm(q))
      /\ r.have_token = q.have_token /\ Tok(r) = Tok(q) /\ r.scanner = q.scanner
  BY GotoSuits
<1> HIDE DEF r
<1>2. Calm(r) => Prepared(r, r.state)
  BY <1>1 DEF Prepared
<1> QED BY <1>1, <1>2, StaysAligned DEF r

\* States that rely on no token of their own.
FreeStates == State \ (PlainStates \cup {"FLOW_SEQ_END", "FLOW_MAP_END", "STREAM_START"})

\* They are prepared for anything.
LEMMA FreePrepared ==
  ASSUME NEW q, NEW t \in FreeStates
  PROVE  t \in State /\ Prepared(q, t)
BY DEF FreeStates, Prepared

\* Going to a state that relies on no token.
LEMMA GotoFree ==
  ASSUME NEW q, NEW n, NEW s, Suits(q, n, s), NEW t \in FreeStates, Kin(Home(t, n), s)
  PROVE  Aligned(Goto(q, t))
BY FreePrepared, GotoAligned

\* What a node or a collection returns to is one of them.
LEMMA ReturnFree ==
  ASSUME NEW t \in ReturnState \ {"STREAM_START"}
  PROVE  t \in FreeStates /\ t \notin NodeStates /\ t # "DONE"
BY DEF ReturnState, FreeStates, State, BlockStates, FlowStates, PlainStates, NodeStates

\* Going back to where a node returns to.
LEMMA ReturnAligned ==
  ASSUME NEW q, NEW n \in ReturnState \ {"STREAM_START"}, Suits(q, n, n)
  PROVE  Aligned(Goto(q, q.node_return))
<1>1. n \in FreeStates /\ n \notin NodeStates
  BY ReturnFree
<1>2. q.node_return = n
  BY DEF Suits
<1>3. Kin(Home(n, n), n)
  BY DEF Kin, Home
<1> QED BY <1>1, <1>2, <1>3, GotoFree

\* Going to a node.
LEMMA GotoNodeAligned ==
  ASSUME NEW q, NEW n, NEW s, Suits(q, n, s), NEW t \in {"BLOCK_NODE", "FLOW_NODE"},
         NEW m \in ReturnState, Kin(m, s)
  PROVE  Aligned(GotoNode(q, t, m))
<1> DEFINE r == GotoNode(q, t, m)
<1>1. Good(q) /\ t \in State /\ t \in NodeStates /\ t \in FreeStates
  BY DEF Suits, State, BlockStates, FlowStates, NodeStates, FreeStates, PlainStates
<1>2. /\ Good(r) /\ r.frames = q.frames /\ r.node_return = m /\ r.state = t
  BY <1>1, GotoNodeFields
<1>3. /\ r.scanner = q.scanner /\ r.have_token = q.have_token /\ Tok(r) = Tok(q)
      /\ Calm(r) => Calm(q)
  BY <1>1 DEF GotoNode, Good, ParserRecord, Calm, Sound, Tok
<1> HIDE DEF r
<1>4. Home(r.state, r.node_return) = m
  BY <1>1, <1>2 DEF Home
<1>5. ASSUME Calm(r)
      PROVE  Even(r) /\ Nested(r.frames) /\ Suit(r.frames, Len(r.frames), m)
  BY <1>2, <1>3, <1>5, KinSuit DEF Suits, Even, PendingBracket
<1>6. Prepared(r, r.state)
  BY <1>1, <1>2, FreePrepared
<1> QED BY <1>4, <1>5, <1>6 DEF Aligned, r

\* A frame more: a flow collection's bracket is consumed before.
LEMMA PushSuits ==
  ASSUME NEW q, Good(q), ~q.scan_error, q.node_return \in ReturnState,
         NEW type \in BlockContext \cup FlowContext, NEW indent \in Nat,
         Calm(q) =>
           /\ Nested(q.frames) /\ Suit(q.frames, Len(q.frames), q.node_return)
           /\ type \in BlockContext => Even(q)
           /\ type \in FlowContext =>
                ~q.have_token /\ Len(q.scanner.flows) = FlowFrames(q.frames) + 1,
         NEW s, s \in FlowInner => type \in FlowContext, s \in BlockInner => type \in BlockContext
  PROVE  LET r == PushFrame(q, type, indent, q.node_return)
         IN  /\ Suits(r, q.node_return, s)
             /\ Calm(r) => Calm(q)
             /\ r.have_token = q.have_token /\ Tok(r) = Tok(q)
<1> DEFINE f == [type |-> type, indent |-> indent, return_state |-> q.node_return]
           frames == Append(q.frames, f)
           r == PushFrame(q, type, indent, q.node_return)
           k == IF type \in FlowContext THEN 1 ELSE 0
<1>1. Good(r)
  BY PushFrameGood
<1>2. f \in Frame /\ q.frames \in Seq(Frame)
  BY FieldTypes DEF Frame
<1>3. f.type = type /\ f.return_state = q.node_return
  OBVIOUS
<1> HIDE DEF f
<1>4. /\ frames \in Seq(Frame) /\ Len(frames) = Len(q.frames) + 1
      /\ frames[Len(frames)] = f /\ Len(q.frames) \in Nat
      /\ \A i \in 1..Len(q.frames) : q.frames[i] = frames[i]
  BY <1>2
<1>5. /\ r.node_return = q.node_return /\ r.scanner = q.scanner
      /\ r.have_token = q.have_token /\ Tok(r) = Tok(q)
      /\ Calm(r) => Calm(q) /\ r.frames = frames
  BY DEF PushFrame, StopWith, Good, ParserRecord, Calm, Sound, Tok, f
<1> HIDE DEF frames, r
<1>6. /\ FlowFrames(q.frames) \in Nat
      /\ FlowFrames(frames) = FlowFrames(q.frames) + k
      /\ Nested(frames) <=> Nested(q.frames) /\ Suit(q.frames, Len(q.frames), q.node_return)
  BY <1>2, <1>3, <1>4, FrameStep
<1>7. Suit(frames, Len(frames), s)
  BY <1>3, <1>4 DEF Suit
<1>8. ASSUME Calm(r) PROVE Even(r)
  <2>1. PendingBracket(r) = PendingBracket(q) /\ PendingBracket(q) \in Int
    BY <1>5, PendingType DEF PendingBracket
  <2>2. CASE type \in FlowContext
    <3>1. PendingBracket(q) = 0
      BY <1>5, <1>8, <2>2, PendingType DEF NoBracket
    <3>2. Len(r.scanner.flows) = FlowFrames(q.frames) + 1
      BY <1>5, <1>8, <2>2
    <3> QED BY <1>5, <1>6, <1>8, <2>1, <2>2, <3>1, <3>2 DEF Even
  <2>3. CASE type \in BlockContext
    <3>1. type \notin FlowContext
      BY <2>3 DEF BlockContext, FlowContext
    <3>2. FlowFrames(r.frames) = FlowFrames(q.frames)
      BY <1>5, <1>6, <1>8, <3>1
    <3> QED BY <1>5, <1>8, <2>1, <2>3, <3>2 DEF Even
  <2> QED BY <2>2, <2>3
<1>9. Suits(r, q.node_return, s)
  BY <1>1, <1>5, <1>6, <1>7, <1>8 DEF Suits
<1> QED BY <1>5, <1>9 DEF r

\* A frame less: what is below it suits where it returns to.
LEMMA PopSuits ==
  ASSUME NEW q, Good(q), FramesPlaced(q.frames), NEW s \in BlockInner \cup FlowInner,
         Calm(q) =>
           /\ Nested(q.frames) /\ Suit(q.frames, Len(q.frames), s)
           /\ s \in BlockInner => Even(q)
           /\ s \in FlowInner =>
                ~q.have_token /\ Len(q.scanner.flows) = FlowFrames(q.frames) - 1
  PROVE  LET r == PopFrame(q)
         IN  /\ Suits(r, q.node_return, r.state)
             /\ Calm(r) => Calm(q) /\ r.state \in ReturnState \ {"STREAM_START"}
             /\ r.have_token = q.have_token /\ Tok(r) = Tok(q)
<1> DEFINE r == PopFrame(q)
           m == Len(q.frames)
           low == SubSeq(q.frames, 1, m - 1)
           top == q.frames[m]
<1>1. Good(r) /\ q.frames \in Seq(Frame) /\ m \in Nat
  BY PopFrameGood, FieldTypes
<1>2. /\ r.node_return = q.node_return /\ r.scanner = q.scanner
      /\ r.have_token = q.have_token /\ Tok(r) = Tok(q)
      /\ Calm(r) => Calm(q)
      /\ q.frames # <<>> => r.state = top.return_state /\ r.frames = low
  BY DEF PopFrame, Goto, Good, ParserRecord, Calm, Sound, Tok
<1> HIDE DEF r
<1>3. ASSUME Calm(r)
      PROVE  /\ Even(r) /\ Nested(r.frames) /\ Suit(r.frames, Len(r.frames), r.state)
             /\ r.state \in ReturnState \ {"STREAM_START"}
  <2>1. Calm(q) /\ m > 0
    BY <1>2, <1>3 DEF Suit
  <2>2. q.frames # <<>> /\ m \in 1..Len(q.frames)
    BY <1>1, <2>1
  <2>3. /\ low \in Seq(Frame) /\ Len(low) = m - 1 /\ top \in Frame
        /\ \A i \in 1..Len(low) : low[i] = q.frames[i]
    BY <1>1, <2>1, <2>2
  <2>4. m = Len(low) + 1
    BY <1>1, <2>3
  <2> HIDE DEF low
  <2>5. /\ FlowFrames(low) \in Nat
        /\ FlowFrames(q.frames) =
             FlowFrames(low) + (IF top.type \in FlowContext THEN 1 ELSE 0)
        /\ Nested(low) /\ Suit(low, Len(low), top.return_state)
    BY <1>1, <2>1, <2>3, <2>4, FrameStep
  <2>6. top.return_state \in ReturnState \ {"STREAM_START"}
    BY <2>2, <2>3 DEF FramesPlaced, Frame
  <2>7. r.frames = low /\ r.state = top.return_state
    BY <1>2, <2>2
  <2> HIDE DEF m, top
  <2>8. PendingBracket(r) = PendingBracket(q) /\ PendingBracket(q) \in Int
    BY <1>2, PendingType DEF PendingBracket
  <2>9. CASE s \in FlowInner
    <3>1. top.type \in FlowContext
      BY <1>3, <1>2, <2>9 DEF Suit, top, m
    <3>2. PendingBracket(q) = 0
      BY <2>1, <2>9, PendingType DEF NoBracket
    <3>3. Len(r.scanner.flows) = FlowFrames(q.frames) - 1
      BY <1>2, <2>1, <2>9
    <3>4. Even(r)
      BY <2>5, <2>7, <2>8, <3>1, <3>2, <3>3 DEF Even
    <3> QED BY <2>5, <2>6, <2>7, <3>4
  <2>10. CASE s \in BlockInner
    <3>1. top.type \in BlockContext
      BY <1>3, <1>2, <2>10 DEF Suit, top, m
    <3>2. top.type \notin FlowContext
      BY <3>1 DEF BlockContext, FlowContext
    <3>3. FlowFrames(r.frames) = FlowFrames(q.frames)
      BY <2>5, <2>7, <3>2
    <3>4. Even(r)
      BY <1>2, <2>1, <2>8, <2>10, <3>3 DEF Even
    <3> QED BY <2>5, <2>6, <2>7, <3>4
  <2> QED BY <2>9, <2>10
<1>4. Suits(r, q.node_return, r.state)
  BY <1>1, <1>2, <1>3 DEF Suits
<1> QED BY <1>2, <1>3, <1>4 DEF r

\* Outside of collections.
OuterStates ==
  {"STREAM_DOC_LOOP", "STREAM_END", "DOC_DIRECTIVES", "DOC_START_IMPLICIT", "DOC_CONTENT",
   "DOC_END_EXPLICIT", "EAGER_DRAIN", "DONE"}

\* Going there suits any frames.
LEMMA GotoOuter ==
  ASSUME NEW q, NEW n, NEW s, Suits(q, n, s), NEW t \in OuterStates
  PROVE  Aligned(Goto(q, t))
<1>1. t \in FreeStates /\ t \notin NodeStates /\ t \notin FlowInner /\ t \notin BlockInner
  BY DEF OuterStates, FreeStates, State, BlockStates, FlowStates, PlainStates, NodeStates,
         FlowInner, BlockInner
<1>2. Kin(Home(t, n), s)
  BY <1>1 DEF Kin, Home
<1> QED BY <1>1, <1>2, GotoFree

-----------------------------------------------------------------------------
(***************************************************************************)
(* The brackets: the stream and its documents.                             *)
(***************************************************************************)

\* ST_STREAM_START: the scanner's first token is no bracket.
LEMMA StreamStartAligned ==
  ASSUME NEW q, Begun(q, "STREAM_START")
  PROVE  Aligned(StreamStart(q))
<1> DEFINE n == q.node_return
           s == Home("STREAM_START", n)
           p == Peek(q)
           c == Consume(p)
           e == Emit(c, "STREAM_START")
<1>1. Suits(q, n, s) /\ (Calm(q) => Prepared(q, "STREAM_START"))
  BY BeginSuits
<1> HIDE DEF s
<1>2. Suits(p, n, s) /\ (Calm(p) => Calm(q))
  BY <1>1, PeekSuits
<1>3. Calm(p) => NoBracket(p)
  <2> SUFFICES ASSUME Calm(p) PROVE NoBracket(p)
    OBVIOUS
  <2>1. ~q.have_token /\ ~q.scanner.stream_started /\ Good(q)
    BY <1>1, <1>2 DEF Prepared, Suits
  <2>2. Scan(q.scanner).res = "OK" /\ Scan(q.scanner).tok.type = "STREAM_START"
    BY <2>1, FieldTypes, ScanFollow
  <2>3. Tok(p) = "STREAM_START"
    BY <2>1, <2>2 DEF Peek, Peeked, Good, ParserRecord, Tok
  <2> QED BY <2>3 DEF NoBracket, Opening, Closing
<1> HIDE DEF p
<1>4. Suits(c, n, s)
  BY <1>2, <1>3, ConsumeSuits
<1> HIDE DEF c
<1>5. Suits(e, n, s)
  BY <1>4, EmitSuits, EventNames
<1> HIDE DEF e
<1>6. Aligned(Goto(e, "STREAM_DOC_LOOP"))
  BY <1>5, GotoOuter DEF OuterStates
<1> QED BY <1>6 DEF StreamStart, e, c, p

\* ST_STREAM_DOC_LOOP.
LEMMA StreamDocLoopAligned ==
  ASSUME NEW q, Begun(q, "STREAM_DOC_LOOP")
  PROVE  Aligned(StreamDocLoop(q))
<1> DEFINE n == q.node_return
           s == Home("STREAM_DOC_LOOP", n)
           p == Peek(q)
<1>1. Suits(q, n, s)
  BY BeginSuits
<1> HIDE DEF s
<1>2. Suits(p, n, s)
  BY <1>1, PeekSuits
<1> HIDE DEF p
<1>3. Aligned(Goto(p, "STREAM_END")) /\ Aligned(Goto(p, "DOC_DIRECTIVES"))
  BY <1>2, GotoOuter DEF OuterStates
<1> QED BY <1>3 DEF StreamDocLoop, p

\* ST_STREAM_END: nothing follows.
LEMMA StreamEndAligned ==
  ASSUME NEW q, Begun(q, "STREAM_END")
  PROVE  Aligned(StreamEnd(q))
<1> DEFINE e == Emit(Consume(Peek(q)), "STREAM_END")
<1>1. Good(q)
  BY DEF Begun, AtStart
<1>2. Good(e)
  BY <1>1, PeekGood, ConsumeGood, EmitGood, EventNames
<1> HIDE DEF e
<1>3. Goto(e, "DONE").state = "DONE"
  BY <1>2 DEF Goto, Good, ParserRecord
<1> QED BY <1>3 DEF StreamEnd, e, Aligned

\* ST_DOC_DIRECTIVES.
LEMMA DocDirectivesAligned ==
  ASSUME NEW q, Begun(q, "DOC_DIRECTIVES")
  PROVE  Aligned(DocDirectives(q))
<1> DEFINE n == q.node_return
           s == Home("DOC_DIRECTIVES", n)
           p == Peek(q)
           c == TakeCheckpoint(p)
<1>1. Suits(q, n, s)
  BY BeginSuits
<1> HIDE DEF s
<1>2. Suits(p, n, s) /\ (Calm(p) => p.have_token)
  BY <1>1, PeekSuits
<1> HIDE DEF p
<1>3. Suits(c, n, s) /\ (Calm(c) => c.have_token)
  BY <1>2, TakeCheckpointSuits
<1> HIDE DEF c
<1>4. \A t \in {"EAGER_DRAIN", "STREAM_END", "DOC_START_IMPLICIT"} : Aligned(Goto(c, t))
  BY <1>3, GotoOuter DEF OuterStates
<1>5. ASSUME Tok(c) = "DOC_START" PROVE Aligned(Goto(c, "DOC_START_EXPLICIT"))
  <2>1. Calm(c) => Prepared(c, "DOC_START_EXPLICIT")
    BY <1>3, <1>5 DEF Prepared, Opening, Closing
  <2>2. /\ "DOC_START_EXPLICIT" \in State
        /\ Kin(Home("DOC_START_EXPLICIT", n), s)
    BY DEF State, BlockStates, FlowStates, Kin, Home, NodeStates, FlowInner, BlockInner
  <2> QED BY <1>3, <2>1, <2>2, GotoAligned
<1>6. ASSUME Tok(c) = "DOC_END" PROVE Aligned(Goto(Consume(c), "STREAM_DOC_LOOP"))
  <2>1. NoBracket(c)
    BY <1>6 DEF NoBracket, Opening, Closing
  <2>2. Suits(Consume(c), n, s)
    BY <1>3, <2>1, ConsumeSuits
  <2> QED BY <2>2, GotoOuter DEF OuterStates
<1>7. \/ DocDirectives(q) \in {Goto(c, t) : t \in {"EAGER_DRAIN", "STREAM_END", "DOC_START_IMPLICIT"}}
      \/ Tok(c) = "DOC_START" /\ DocDirectives(q) = Goto(c, "DOC_START_EXPLICIT")
      \/ Tok(c) = "DOC_END" /\ DocDirectives(q) = Goto(Consume(c), "STREAM_DOC_LOOP")
  BY DEF DocDirectives, c, p
<1> QED BY <1>4, <1>5, <1>6, <1>7

\* A document's start.
LEMMA DocStartAligned ==
  ASSUME NEW q, NEW n, NEW s, Suits(q, n, s), NEW line \in Nat
  PROVE  Aligned(DocStart(q, line))
<1> DEFINE e == Emit(q, "DOC_START")
           r == [e EXCEPT !.doc_start_line = line, !.doc_open = TRUE]
<1>1. Suits(e, n, s)
  BY EmitSuits, EventNames
<1> HIDE DEF e
<1>2. Good(e)
  BY <1>1 DEF Suits
<1>3. /\ Good(r) /\ r.frames = e.frames /\ r.node_return = e.node_return
      /\ Calm(r) => /\ Calm(e) /\ r.have_token = e.have_token /\ Tok(r) = Tok(e)
                    /\ r.scanner = e.scanner
  <2>1. e \in ParserRecord
    BY <1>2 DEF Good
  <2>2. /\ r \in ParserRecord /\ r.frames = e.frames /\ r.node_return = e.node_return
        /\ r.ckpt = e.ckpt /\ r.events_delivered = e.events_delivered
        /\ r.out_buf = e.out_buf /\ r.status = e.status
        /\ r.have_token = e.have_token /\ r.current = e.current /\ r.scanner = e.scanner
        /\ r.stop_status = e.stop_status /\ r.error_msg = e.error_msg
        /\ r.scan_error = e.scan_error /\ r.scan_error_out = e.scan_error_out
        /\ r.incremental = e.incremental /\ r.starved = e.starved
    BY <2>1 DEF ParserRecord
  <2> HIDE DEF r
  <2>3. Bounds(r)
    BY <1>2, <2>2 DEF Good, Bounds
  <2> QED BY <1>2, <2>2, <2>3 DEF Good, Calm, Sound, Tok
<1> HIDE DEF r
<1>4. Suits(r, n, s)
  BY <1>1, <1>3, SameSuits
<1> QED BY <1>4, GotoOuter DEF DocStart, OuterStates, r, e

\* ST_DOC_START_EXPLICIT and ST_DOC_START_IMPLICIT.
LEMMA DocStartsAligned ==
  ASSUME NEW q
  PROVE  /\ Begun(q, "DOC_START_EXPLICIT") => Aligned(DocStartExplicit(q))
         /\ Begun(q, "DOC_START_IMPLICIT") => Aligned(DocStartImplicit(q))
<1> DEFINE p == Peek(q)
<1>1. ASSUME NEW n, NEW s, Suits(q, n, s), Calm(q) => Prepared(q, "DOC_START_EXPLICIT")
      PROVE  Aligned(DocStartExplicit(q))
  <2>1. /\ Suits(p, n, s) /\ (Calm(p) => Calm(q))
        /\ q.have_token => p = q
    BY <1>1, PeekSuits
  <2>2. Calm(p) => NoBracket(p)
    BY <1>1, <2>1 DEF Prepared, PlainStates, NoBracket
  <2> HIDE DEF p
  <2>3. Suits(Consume(p), n, s)
    BY <2>1, <2>2, ConsumeSuits
  <2>4. p.current.line \in Nat
    BY <2>1, FieldTypes DEF Suits
  <2> QED BY <2>3, <2>4, DocStartAligned DEF DocStartExplicit, p
<1>2. ASSUME NEW n, NEW s, Suits(q, n, s) PROVE Aligned(DocStartImplicit(q))
  <2>1. Suits(p, n, s)
    BY <1>2, PeekSuits
  <2> QED BY <2>1, DocStartAligned DEF DocStartImplicit
<1> QED BY <1>1, <1>2, BeginSuits

\* Closing a document.
LEMMA CloseSuits ==
  ASSUME NEW q, NEW n, NEW s, Suits(q, n, s)
  PROVE  Suits([Emit(q, "DOC_END") EXCEPT !.doc_open = FALSE], n, s)
<1> DEFINE e == Emit(q, "DOC_END")
           r == [e EXCEPT !.doc_open = FALSE]
<1>1. Suits(e, n, s)
  BY EmitSuits, EventNames
<1> HIDE DEF e
<1>2. Good(e)
  BY <1>1 DEF Suits
<1>3. /\ Good(r) /\ r.frames = e.frames /\ r.node_return = e.node_return
      /\ Calm(r) => /\ Calm(e) /\ r.have_token = e.have_token /\ Tok(r) = Tok(e)
                    /\ r.scanner = e.scanner
  <2>1. e \in ParserRecord
    BY <1>2 DEF Good
  <2>2. /\ r \in ParserRecord /\ r.frames = e.frames /\ r.node_return = e.node_return
        /\ r.ckpt = e.ckpt /\ r.events_delivered = e.events_delivered
        /\ r.out_buf = e.out_buf /\ r.status = e.status
        /\ r.have_token = e.have_token /\ r.current = e.current /\ r.scanner = e.scanner
        /\ r.stop_status = e.stop_status /\ r.error_msg = e.error_msg
        /\ r.scan_error = e.scan_error /\ r.scan_error_out = e.scan_error_out
        /\ r.incremental = e.incremental /\ r.starved = e.starved
    BY <2>1 DEF ParserRecord
  <2> HIDE DEF r
  <2>3. Bounds(r)
    BY <1>2, <2>2 DEF Good, Bounds
  <2> QED BY <1>2, <2>2, <2>3 DEF Good, Calm, Sound, Tok
<1> HIDE DEF r
<1>4. Suits(r, n, s)
  BY <1>1, <1>3, SameSuits
<1> QED BY <1>4 DEF r, e

\* ST_DOC_CONTENT.
LEMMA DocContentAligned ==
  ASSUME NEW q, Begun(q, "DOC_CONTENT")
  PROVE  Aligned(DocContent(q))
<1> DEFINE n == q.node_return
           s == Home("DOC_CONTENT", n)
           p == Peek(q)
           e == Emit(p, "SCALAR")
           d == [Emit(e, "DOC_END") EXCEPT !.doc_open = FALSE]
<1>1. Suits(q, n, s)
  BY BeginSuits
<1> HIDE DEF s
<1>2. Suits(p, n, s)
  BY <1>1, PeekSuits
<1> HIDE DEF p
<1>3. Suits(e, n, s)
  BY <1>2, EmitSuits, EventNames
<1> HIDE DEF e
<1>4. Suits(d, n, s)
  BY <1>3, CloseSuits
<1> HIDE DEF d
<1>5. /\ Aligned(Goto(e, "DOC_END_EXPLICIT"))
      /\ Aligned(Goto(d, "STREAM_DOC_LOOP")) /\ Aligned(Goto(d, "STREAM_END"))
  BY <1>3, <1>4, GotoOuter DEF OuterStates
<1>6. Aligned(GotoNode(p, "BLOCK_NODE", "DOC_END_EXPLICIT"))
  <2>1. Kin("DOC_END_EXPLICIT", s) /\ "DOC_END_EXPLICIT" \in ReturnState
    BY DEF Kin, FlowInner, BlockInner, FlowStates, ReturnState
  <2> QED BY <1>2, <2>1, GotoNodeAligned
<1>7. DocContent(q) \in {Goto(e, "DOC_END_EXPLICIT"), Goto(d, "STREAM_DOC_LOOP"),
                         Goto(d, "STREAM_END"), GotoNode(p, "BLOCK_NODE", "DOC_END_EXPLICIT")}
  BY DEF DocContent, EmptyDocument, d, e, p
<1> QED BY <1>5, <1>6, <1>7

\* inc_end_document.
LEMMA EndDocumentAligned ==
  ASSUME NEW q, NEW n, NEW s, Suits(q, n, s)
  PROVE  Aligned(EndDocument(q))
<1> DEFINE p == Peek(q)
           c == Consume(p)
           r == IF Tok(p) = "DOC_END" THEN c ELSE p
           d == [Emit(r, "DOC_END") EXCEPT !.doc_open = FALSE]
<1>1. Suits(p, n, s) /\ (Calm(p) => p.have_token)
  BY PeekSuits
<1> HIDE DEF p
<1>2. Tok(p) = "DOC_END" => Suits(c, n, s)
  BY <1>1, ConsumeSuits DEF NoBracket, Opening, Closing
<1> HIDE DEF c
<1>3. Suits(r, n, s)
  BY <1>1, <1>2
<1> HIDE DEF r
<1>4. Suits(d, n, s)
  BY <1>3, CloseSuits
<1> HIDE DEF d
<1>5. Aligned(Goto(d, "STREAM_DOC_LOOP"))
  BY <1>4, GotoOuter DEF OuterStates
<1>6. Aligned(ParseError(p))
  BY <1>1, ErrorAligned DEF Suits
<1>7. ~p.have_token => Aligned(p)
  BY <1>1 DEF Aligned
<1>8. \/ ~p.have_token /\ EndDocument(q) = p
      \/ EndDocument(q) \in {ParseError(p), Goto(d, "STREAM_DOC_LOOP")}
  BY DEF EndDocument, d, r, c, p
<1> QED BY <1>5, <1>6, <1>7, <1>8

\* ST_DOC_END_EXPLICIT.
LEMMA DocEndAligned ==
  ASSUME NEW q, Begun(q, "DOC_END_EXPLICIT")
  PROVE  Aligned(EndDocument(q))
BY BeginSuits, EndDocumentAligned

-----------------------------------------------------------------------------
(***************************************************************************)
(* The brackets: block nodes.                                              *)
(***************************************************************************)

\* A node's step starts with frames that suit where it returns to.
LEMMA NodeSuits ==
  ASSUME NEW q, NEW s \in NodeStates, Begun(q, s)
  PROVE  /\ Suits(q, q.node_return, q.node_return)
         /\ q.node_return \in ReturnState \ {"STREAM_START"}
         /\ Calm(q) => Prepared(q, s)
         /\ ~q.scan_error /\ (s \in TokenStates => q.have_token)
BY BeginSuits DEF Home

\* From one state of a node to another.
LEMMA GotoSameNode ==
  ASSUME NEW q, NEW n, Suits(q, n, n), NEW t \in NodeStates,
         t \in {"BLOCK_NODE_SCALAR", "BLOCK_NODE_ALIAS"} => Tok(q) \in {"SCALAR", "ALIAS"},
         Calm(q) => q.have_token
  PROVE  Aligned(Goto(q, t))
<1>1. t \in State /\ Kin(Home(t, n), n)
  BY DEF NodeStates, State, BlockStates, FlowStates, Kin, Home
<1>2. Calm(q) => Prepared(q, t)
  BY DEF Prepared, PlainStates, NodeStates, Opening, Closing
<1> QED BY <1>1, <1>2, GotoAligned

\* ST_BLOCK_NODE.
LEMMA BlockNodeAligned ==
  ASSUME NEW q, Begun(q, "BLOCK_NODE")
  PROVE  Aligned(BlockNode(q))
<1> DEFINE n == q.node_return
           p == Peek(q)
           ahead == LookAhead(p, p.current.pos)
           inner == {"BLOCK_NODE_SEQ", "BLOCK_NODE_EXPLICIT_KEY", "BLOCK_NODE_BARE_VALUE",
                     "BLOCK_NODE_EMPTY", "FLOW_NODE"}
<1>1. Suits(q, n, n)
  BY NodeSuits DEF NodeStates
<1>2. Suits(p, n, n) /\ (Calm(p) => p.have_token)
  BY <1>1, PeekSuits
<1> HIDE DEF p
<1>3. Suits(ahead, n, n) /\ (Calm(ahead) => ahead.have_token)
  BY <1>2, LookAheadSuits
<1> HIDE DEF ahead, n
<1>4. Aligned(Goto(p, "EAGER_DRAIN")) /\ Aligned(Goto(ahead, "EAGER_DRAIN"))
  BY <1>2, <1>3, GotoOuter DEF OuterStates
<1>5. \A t \in inner : Aligned(Goto(p, t)) /\ Aligned(Goto(ahead, t))
  <2>1. inner \subseteq NodeStates
    BY DEF NodeStates
  <2> QED BY <1>2, <1>3, <2>1, GotoSameNode
<1>6. /\ Tok(p) = "ALIAS" => Aligned(Goto(p, "BLOCK_NODE_ALIAS"))
      /\ Tok(p) = "SCALAR" => Aligned(Goto(p, "BLOCK_NODE_SCALAR"))
  <2>1. {"BLOCK_NODE_ALIAS", "BLOCK_NODE_SCALAR"} \subseteq NodeStates
    BY DEF NodeStates
  <2> QED BY <1>2, <2>1, GotoSameNode
<1>7. Aligned(ParseError(p))
  BY <1>2, ErrorAligned DEF Suits
<1>8. BlockNodeFlow(p) \in {Goto(p, "FLOW_NODE"), Goto(ahead, "EAGER_DRAIN"), Goto(ahead, "FLOW_NODE")}
  BY DEF BlockNodeFlow, ahead
<1>9. Aligned(BlockNodeFlow(p))
  BY <1>4, <1>5, <1>8
<1>10. \/ BlockNode(q) \in {Goto(p, "EAGER_DRAIN"), BlockNodeFlow(p), ParseError(p)}
       \/ \E t \in inner : BlockNode(q) = Goto(p, t)
       \/ Tok(p) = "ALIAS" /\ BlockNode(q) = Goto(p, "BLOCK_NODE_ALIAS")
       \/ Tok(p) = "SCALAR" /\ BlockNode(q) = Goto(p, "BLOCK_NODE_SCALAR")
  BY DEF BlockNode, PropTokens, FlowStarts, p
<1> QED BY <1>4, <1>5, <1>6, <1>7, <1>9, <1>10

\* ST_BLOCK_NODE_SCALAR and ST_BLOCK_NODE_ALIAS.
LEMMA BlockNodeLeafAligned ==
  ASSUME NEW q, NEW s \in {"BLOCK_NODE_SCALAR", "BLOCK_NODE_ALIAS"}, Begun(q, s),
         NEW e \in Stream!Leaf, NEW key_state \in {"BLOCK_NODE_SCALAR_KEY", "BLOCK_NODE_ALIAS_KEY"}
  PROVE  Aligned(BlockNodeLeaf(q, e, key_state))
<1> DEFINE n == q.node_return
           p == Peek(q)
           c == Consume(p)
           r == Peek(c)
           k == [r EXCEPT !.saved_node = e, !.saved_node_col = Col(p)]
<1>1. /\ Suits(q, n, n) /\ n \in ReturnState \ {"STREAM_START"}
      /\ Calm(q) => q.have_token /\ Tok(q) \notin Opening \cup Closing
  <2>1. s \in NodeStates /\ s \in PlainStates
    BY DEF NodeStates, PlainStates
  <2> QED BY <2>1, NodeSuits DEF Prepared
<1>2. /\ Suits(p, n, n) /\ (Calm(p) => Calm(q))
      /\ q.have_token => p = q
  BY <1>1, PeekSuits
<1>3. Calm(p) => NoBracket(p)
  BY <1>1, <1>2 DEF NoBracket
<1> HIDE DEF p, n
<1>4. Suits(c, n, n)
  BY <1>2, <1>3, ConsumeSuits
<1> HIDE DEF c
<1>5. Suits(r, n, n) /\ (Calm(r) => r.have_token)
  BY <1>4, PeekSuits
<1> HIDE DEF r
<1>6. Good(r) /\ Col(p) \in Nat
  BY <1>2, <1>5, FieldTypes DEF Suits
<1>7. /\ Good(k) /\ k.frames = r.frames /\ k.node_return = r.node_return
      /\ Calm(k) => /\ Calm(r) /\ k.have_token = r.have_token /\ Tok(k) = Tok(r)
                    /\ k.scanner = r.scanner
  <2> DEFINE col == Col(p)
  <2> HIDE DEF col
  <2>1. r \in ParserRecord /\ Bounds(r)
    BY <1>6 DEF Good
  <2>2. k = [r EXCEPT !.saved_node = e, !.saved_node_col = col]
    BY DEF k, col
  <2>3. col \in Nat
    BY <1>6 DEF col
  <2>4. [r EXCEPT !.saved_node = e, !.saved_node_col = col] \in ParserRecord
    BY <2>1, <2>3 DEF ParserRecord
  <2> HIDE DEF k
  <2>5. /\ k.frames = r.frames /\ k.node_return = r.node_return /\ k.scanner = r.scanner
        /\ k.have_token = r.have_token /\ k.current = r.current
        /\ k.incremental = r.incremental /\ k.scan_error = r.scan_error
        /\ k.stop_status = r.stop_status /\ k.starved = r.starved
        /\ k.error_msg = r.error_msg
        /\ k.out_buf = r.out_buf /\ k.events_delivered = r.events_delivered
        /\ k.scan_error_out = r.scan_error_out /\ k.ckpt = r.ckpt
    BY <2>1, <2>2 DEF ParserRecord
  <2>6. Bounds(k)
    BY <2>1, <2>5 DEF Bounds
  <2>7. Calm(k) <=> Calm(r)
    BY <2>5, SameCalm
  <2> QED BY <2>2, <2>4, <2>5, <2>6, <2>7 DEF Good, Tok
<1> HIDE DEF k
<1>8. Suits(k, n, n) /\ (Calm(k) => k.have_token)
  BY <1>5, <1>7, SameSuits
<1>9. Aligned(Goto(k, key_state))
  <2>1. key_state \in NodeStates
    BY DEF NodeStates
  <2> QED BY <1>8, <2>1, GotoSameNode
<1>10. Aligned(Goto(Emit(r, e), r.node_return))
  <2>1. Suits(Emit(r, e), n, n)
    <3>1. e \in Stream!Event
      BY DEF Stream!Event, Stream!Leaf
    <3> QED BY <1>5, <3>1, EmitSuits
  <2>2. Emit(r, e).node_return = n /\ r.node_return = n
    BY <1>5, <2>1 DEF Suits
  <2> QED BY <1>1, <2>1, <2>2, ReturnAligned
<1>11. BlockNodeLeaf(q, e, key_state) \in {Goto(k, key_state), Goto(Emit(r, e), r.node_return)}
  BY DEF BlockNodeLeaf, k, r, c, p
<1> QED BY <1>9, <1>10, <1>11

\* Pushing a block collection's frame.
LEMMA BlockPushSuits ==
  ASSUME NEW q, NEW n \in ReturnState, Suits(q, n, n), ~q.scan_error,
         NEW type \in BlockContext, NEW indent \in Nat, NEW s \in BlockInner
  PROVE  Suits(PushFrame(q, type, indent, n), n, s)
<1>1. s \notin FlowInner /\ type \notin FlowContext
  BY DEF FlowInner, FlowStates, BlockInner, BlockContext, FlowContext
<1>2. q.node_return = n
  BY DEF Suits
<1>3. Calm(q) => Nested(q.frames) /\ Suit(q.frames, Len(q.frames), n) /\ Even(q)
  BY DEF Suits
<1> QED BY <1>1, <1>2, <1>3, PushSuits DEF Suits

\* Going to a state of the block collection on top.
LEMMA GotoBlock ==
  ASSUME NEW q, NEW n, NEW s \in BlockInner, Suits(q, n, s), NEW t \in BlockInner \cap FreeStates
  PROVE  Aligned(Goto(q, t))
<1>1. t \in FreeStates /\ t \notin NodeStates /\ t \notin FlowInner
  BY DEF BlockInner, NodeStates, FlowInner, FlowStates
<1>2. Kin(Home(t, n), s)
  BY <1>1 DEF Kin, Home
<1> QED BY <1>1, <1>2, GotoFree

\* The states of a block collection that rely on no token.
LEMMA BlockNamesFree ==
  {"BLOCK_MAP_LOOP", "BLOCK_MAP_SIMPLE_KEY", "BLOCK_MAP_POST_KEY", "BLOCK_MAP_VALUE",
   "BLOCK_MAP_END", "BLOCK_SEQ_LOOP", "BLOCK_SEQ_END"} \subseteq BlockInner \cap FreeStates
BY DEF BlockInner, FreeStates, State, BlockStates, FlowStates, PlainStates

\* ST_BLOCK_NODE_SCALAR_KEY and ST_BLOCK_NODE_ALIAS_KEY.
LEMMA BlockNodeKeyAligned ==
  ASSUME NEW q, NEW s \in {"BLOCK_NODE_SCALAR_KEY", "BLOCK_NODE_ALIAS_KEY"}, Begun(q, s)
  PROVE  Aligned(BlockNodeKey(q))
<1> DEFINE n == q.node_return
           e == Emit(q, "MAPPING_START")
           k == Emit(e, q.saved_node)
           r == PushFrame(k, "BLOCK_MAP", q.saved_node_col, n)
<1>1. Suits(q, n, n) /\ n \in ReturnState /\ ~q.scan_error
  BY NodeSuits DEF NodeStates
<1>2. Good(q) /\ q.saved_node \in Stream!Event /\ q.saved_node_col \in Nat
  BY <1>1, FieldTypes DEF Suits, Stream!Event, Stream!Leaf
<1>3. Suits(e, n, n) /\ ~e.scan_error
  BY <1>1, <1>2, EmitSuits, EmitScanError, EventNames
<1> HIDE DEF e
<1>4. Suits(k, n, n) /\ ~k.scan_error
  <2>1. Good(e)
    BY <1>3 DEF Suits
  <2> QED BY <1>2, <1>3, <2>1, EmitSuits, EmitScanError
<1> HIDE DEF k
<1>5. "BLOCK_MAP" \in BlockContext /\ "BLOCK_MAP_VALUE" \in BlockInner \cap FreeStates
  BY BlockNamesFree DEF BlockContext
<1>6. Suits(r, n, "BLOCK_MAP_VALUE")
  BY <1>1, <1>2, <1>4, <1>5, BlockPushSuits
<1> HIDE DEF r
<1>7. Aligned(Goto(r, "BLOCK_MAP_VALUE"))
  BY <1>5, <1>6, GotoBlock
<1> QED BY <1>7 DEF BlockNodeKey, r, k, e

\* Starting a collection at its indicator.
LEMMA BlockOpenSuits ==
  ASSUME NEW q, NEW s \in {"BLOCK_NODE_SEQ", "BLOCK_NODE_EXPLICIT_KEY", "BLOCK_NODE_BARE_VALUE"},
         Begun(q, s), NEW e \in Stream!Event, NEW type \in BlockContext, NEW t \in BlockInner
  PROVE  Suits(BlockOpen(q, e, type), q.node_return, t)
<1> DEFINE n == q.node_return
           r == Emit(q, e)
<1>1. /\ Suits(q, n, n) /\ n \in ReturnState /\ ~q.scan_error
      /\ q.have_token
  BY NodeSuits DEF NodeStates, TokenStates
<1>2. Peek(q) = q /\ Good(q) /\ Col(q) \in Nat
  BY <1>1, FieldTypes DEF Peek, Suits
<1>3. Suits(r, n, n) /\ ~r.scan_error
  BY <1>1, <1>2, EmitSuits, EmitScanError
<1> HIDE DEF r
<1>4. Suits(PushFrame(r, type, Col(q), n), n, t)
  BY <1>1, <1>2, <1>3, BlockPushSuits
<1> QED BY <1>2, <1>4 DEF BlockOpen, r

\* ST_BLOCK_NODE_SEQ, ST_BLOCK_NODE_EXPLICIT_KEY and ST_BLOCK_NODE_BARE_VALUE.
LEMMA BlockOpensAligned ==
  ASSUME NEW q
  PROVE  /\ Begun(q, "BLOCK_NODE_SEQ") => Aligned(BlockNodeSeq(q))
         /\ Begun(q, "BLOCK_NODE_EXPLICIT_KEY") => Aligned(BlockNodeExplicitKey(q))
         /\ Begun(q, "BLOCK_NODE_BARE_VALUE") => Aligned(BlockNodeBareValue(q))
<1> DEFINE n == q.node_return
           seq == BlockOpen(q, "SEQUENCE_START", "BLOCK_SEQ")
           map == BlockOpen(q, "MAPPING_START", "BLOCK_MAP")
           bare == Emit(map, "SCALAR")
<1>1. /\ "BLOCK_SEQ" \in BlockContext /\ "BLOCK_MAP" \in BlockContext
      /\ {"BLOCK_SEQ_LOOP", "BLOCK_MAP_LOOP", "BLOCK_MAP_VALUE"} \subseteq BlockInner \cap FreeStates
  BY BlockNamesFree DEF BlockContext
<1>2. ASSUME Begun(q, "BLOCK_NODE_SEQ") PROVE Aligned(Goto(seq, "BLOCK_SEQ_LOOP"))
  <2>1. Suits(seq, n, "BLOCK_SEQ_LOOP")
    BY <1>1, <1>2, BlockOpenSuits, EventNames
  <2> HIDE DEF seq
  <2> QED BY <1>1, <2>1, GotoBlock
<1>3. ASSUME Begun(q, "BLOCK_NODE_EXPLICIT_KEY") PROVE Aligned(Goto(map, "BLOCK_MAP_LOOP"))
  <2>1. Suits(map, n, "BLOCK_MAP_LOOP")
    BY <1>1, <1>3, BlockOpenSuits, EventNames
  <2> HIDE DEF map
  <2> QED BY <1>1, <2>1, GotoBlock
<1>4. ASSUME Begun(q, "BLOCK_NODE_BARE_VALUE") PROVE Aligned(Goto(bare, "BLOCK_MAP_VALUE"))
  <2>1. Suits(map, n, "BLOCK_MAP_VALUE")
    BY <1>1, <1>4, BlockOpenSuits, EventNames
  <2> HIDE DEF map
  <2>2. Suits(bare, n, "BLOCK_MAP_VALUE")
    BY <2>1, EmitSuits, EventNames
  <2> HIDE DEF bare
  <2> QED BY <1>1, <2>2, GotoBlock
<1> QED BY <1>2, <1>3, <1>4 DEF BlockNodeSeq, BlockNodeExplicitKey, BlockNodeBareValue

-----------------------------------------------------------------------------
(***************************************************************************)
(* The brackets: block collections.                                        *)
(***************************************************************************)

\* A collection's step starts with a frame of its kind on top.
LEMMA InnerSuits ==
  ASSUME NEW q, NEW s \in BlockInner \cup FlowInner, Begun(q, s)
  PROVE  /\ Suits(q, q.node_return, s)
         /\ Calm(q) => Prepared(q, s)
         /\ FramesPlaced(q.frames)
<1>1. s \notin NodeStates
  BY DEF BlockInner, FlowInner, FlowStates, NodeStates
<1> QED BY <1>1, BeginSuits DEF Home

\* Going to a node of the block collection on top.
LEMMA GotoBlockNode ==
  ASSUME NEW q, NEW n, NEW s \in BlockInner, Suits(q, n, s),
         NEW m \in {"BLOCK_MAP_POST_KEY", "BLOCK_MAP_LOOP", "BLOCK_SEQ_LOOP"}
  PROVE  Aligned(GotoNode(q, "BLOCK_NODE", m))
<1>1. m \in ReturnState /\ Kin(m, s)
  BY DEF ReturnState, Kin, FlowInner, FlowStates
<1> QED BY <1>1, GotoNodeAligned

\* Consuming a token that the state takes to be no bracket, and the next one.
LEMMA NextSuits ==
  ASSUME NEW q, NEW n, NEW s, Suits(q, n, s), Calm(q) => NoBracket(q)
  PROVE  LET r == Peek(Consume(q))
         IN  Suits(r, n, s) /\ (Calm(r) => r.have_token)
<1> DEFINE c == Consume(q)
<1>1. Suits(c, n, s)
  BY ConsumeSuits
<1> HIDE DEF c
<1> QED BY <1>1, PeekSuits DEF c

\* A state that relies on its token has it.
LEMMA PlainSuits ==
  ASSUME NEW q, NEW n, NEW s, Suits(q, n, s), NEW t \in PlainStates, Calm(q) => Prepared(q, t)
  PROVE  Suits(Peek(q), n, s) /\ (Calm(Peek(q)) => NoBracket(Peek(q)))
<1>1. /\ Suits(Peek(q), n, s) /\ (Calm(Peek(q)) => Calm(q))
      /\ q.have_token => Peek(q) = q
  BY PeekSuits
<1> QED BY <1>1 DEF Prepared, NoBracket

\* ST_BLOCK_MAP_LOOP.
LEMMA BlockMapLoopAligned ==
  ASSUME NEW q, Begun(q, "BLOCK_MAP_LOOP")
  PROVE  Aligned(BlockMapLoop(q))
<1> DEFINE n == q.node_return
           s == "BLOCK_MAP_LOOP"
           p == Peek(q)
           e == Emit(p, "SCALAR")
<1>1. s \in BlockInner
  BY DEF BlockInner
<1>2. Suits(q, n, s)
  BY <1>1, InnerSuits
<1>3. Suits(p, n, s) /\ (Calm(p) => p.have_token)
  BY <1>2, PeekSuits
<1> HIDE DEF p
<1>4. Suits(e, n, s)
  BY <1>3, EmitSuits, EventNames
<1> HIDE DEF e
<1>5. /\ Aligned(Goto(p, "BLOCK_MAP_SIMPLE_KEY")) /\ Aligned(Goto(p, "BLOCK_MAP_END"))
      /\ Aligned(Goto(e, "BLOCK_MAP_VALUE"))
  BY <1>1, <1>3, <1>4, GotoBlock, BlockNamesFree
<1>6. Aligned(Goto(p, "EAGER_DRAIN"))
  BY <1>3, GotoOuter DEF OuterStates
<1>7. ASSUME Tok(p) = "BLOCK_MAP_KEY" PROVE Aligned(Goto(p, "BLOCK_MAP_EXPLICIT_KEY"))
  <2>1. Calm(p) => Prepared(p, "BLOCK_MAP_EXPLICIT_KEY")
    BY <1>3, <1>7 DEF Prepared, Opening, Closing
  <2>2. "BLOCK_MAP_EXPLICIT_KEY" \in State /\ Kin(Home("BLOCK_MAP_EXPLICIT_KEY", n), s)
    BY <1>1 DEF State, BlockStates, FlowStates, Kin, Home, NodeStates, FlowInner, BlockInner
  <2> QED BY <1>3, <2>1, <2>2, GotoAligned
<1>8. \/ BlockMapLoop(q) \in {Goto(p, "BLOCK_MAP_SIMPLE_KEY"), Goto(e, "BLOCK_MAP_VALUE"),
                              Goto(p, "EAGER_DRAIN"), Goto(p, "BLOCK_MAP_END")}
      \/ Tok(p) = "BLOCK_MAP_KEY" /\ BlockMapLoop(q) = Goto(p, "BLOCK_MAP_EXPLICIT_KEY")
  BY DEF BlockMapLoop, PropTokens, FlowStarts, e, p
<1> QED BY <1>5, <1>6, <1>7, <1>8

\* ST_BLOCK_MAP_EXPLICIT_KEY.
LEMMA BlockMapExplicitKeyAligned ==
  ASSUME NEW q, Begun(q, "BLOCK_MAP_EXPLICIT_KEY")
  PROVE  Aligned(BlockMapExplicitKey(q))
<1> DEFINE n == q.node_return
           s == "BLOCK_MAP_EXPLICIT_KEY"
           p == Peek(q)
           r == Peek(Consume(p))
           e == Emit(r, "SCALAR")
<1>1. s \in BlockInner /\ s \in PlainStates
  BY DEF BlockInner, PlainStates
<1>2. Suits(q, n, s) /\ (Calm(q) => Prepared(q, s))
  BY <1>1, InnerSuits
<1>3. Suits(p, n, s) /\ (Calm(p) => NoBracket(p))
  BY <1>1, <1>2, PlainSuits
<1> HIDE DEF p
<1>4. Suits(r, n, s)
  BY <1>3, NextSuits
<1> HIDE DEF r
<1>5. Suits(e, n, s)
  BY <1>4, EmitSuits, EventNames
<1> HIDE DEF e
<1>6. Aligned(Goto(e, "BLOCK_MAP_POST_KEY"))
  BY <1>1, <1>5, GotoBlock, BlockNamesFree
<1>7. Aligned(GotoNode(r, "BLOCK_NODE", "BLOCK_MAP_POST_KEY"))
  BY <1>1, <1>4, GotoBlockNode
<1>8. BlockMapExplicitKey(q) \in {Goto(e, "BLOCK_MAP_POST_KEY"),
                                  GotoNode(r, "BLOCK_NODE", "BLOCK_MAP_POST_KEY")}
  BY DEF BlockMapExplicitKey, e, r, p
<1> QED BY <1>6, <1>7, <1>8

\* ST_BLOCK_MAP_SIMPLE_KEY.
LEMMA BlockMapSimpleKeyAligned ==
  ASSUME NEW q, Begun(q, "BLOCK_MAP_SIMPLE_KEY")
  PROVE  Aligned(BlockMapSimpleKey(q))
<1> DEFINE n == q.node_return
           s == "BLOCK_MAP_SIMPLE_KEY"
           p == Peek(q)
           r == Peek(Consume(p))
           e == Emit(r, Tok(p))
<1>1. s \in BlockInner
  BY DEF BlockInner
<1>2. Suits(q, n, s)
  BY <1>1, InnerSuits
<1>3. Suits(p, n, s)
  BY <1>2, PeekSuits
<1> HIDE DEF p
<1>4. Aligned(Goto(p, "EAGER_DRAIN"))
  BY <1>3, GotoOuter DEF OuterStates
<1>5. ASSUME Tok(p) \in {"SCALAR", "ALIAS"}
      PROVE  Aligned(Goto(e, "BLOCK_MAP_VALUE")) /\ Aligned(Goto(r, "EAGER_DRAIN"))
  <2>1. NoBracket(p) /\ Tok(p) \in Stream!Event
    BY <1>5, EventNames DEF NoBracket, Opening, Closing
  <2>2. Suits(r, n, s)
    BY <1>3, <2>1, NextSuits
  <2> HIDE DEF r
  <2>3. Suits(e, n, s)
    BY <2>1, <2>2, EmitSuits
  <2> HIDE DEF e
  <2>4. Aligned(Goto(e, "BLOCK_MAP_VALUE"))
    BY <1>1, <2>3, GotoBlock, BlockNamesFree
  <2>5. Aligned(Goto(r, "EAGER_DRAIN"))
    BY <2>2, GotoOuter DEF OuterStates
  <2> QED BY <2>4, <2>5
<1>6. \/ BlockMapSimpleKey(q) = Goto(p, "EAGER_DRAIN")
      \/ /\ Tok(p) \in {"SCALAR", "ALIAS"}
         /\ BlockMapSimpleKey(q) \in {Goto(e, "BLOCK_MAP_VALUE"), Goto(r, "EAGER_DRAIN")}
  BY DEF BlockMapSimpleKey, e, r, p
<1> QED BY <1>4, <1>5, <1>6

\* ST_BLOCK_MAP_POST_KEY.
LEMMA BlockMapPostKeyAligned ==
  ASSUME NEW q, Begun(q, "BLOCK_MAP_POST_KEY")
  PROVE  Aligned(BlockMapPostKey(q))
<1> DEFINE n == q.node_return
           s == "BLOCK_MAP_POST_KEY"
           p == Peek(q)
           e == Emit(p, "SCALAR")
<1>1. s \in BlockInner
  BY DEF BlockInner
<1>2. Suits(q, n, s)
  BY <1>1, InnerSuits
<1>3. Suits(p, n, s)
  BY <1>2, PeekSuits
<1> HIDE DEF p
<1>4. Suits(e, n, s)
  BY <1>3, EmitSuits, EventNames
<1> HIDE DEF e
<1>5. Aligned(Goto(p, "BLOCK_MAP_VALUE")) /\ Aligned(Goto(e, "BLOCK_MAP_LOOP"))
  BY <1>1, <1>3, <1>4, GotoBlock, BlockNamesFree
<1>6. Aligned(ParseError(p))
  BY <1>3, ErrorAligned DEF Suits
<1>7. BlockMapPostKey(q) \in {Goto(p, "BLOCK_MAP_VALUE"), ParseError(p),
                              Goto(e, "BLOCK_MAP_LOOP")}
  BY DEF BlockMapPostKey, e, p
<1> QED BY <1>5, <1>6, <1>7

\* ST_BLOCK_MAP_VALUE.
LEMMA BlockMapValueAligned ==
  ASSUME NEW q, Begun(q, "BLOCK_MAP_VALUE")
  PROVE  Aligned(BlockMapValue(q))
<1> DEFINE n == q.node_return
           s == "BLOCK_MAP_VALUE"
           p == Peek(q)
           r == Peek(Consume(p))
           v == [r EXCEPT !.value_colon_line = p.current.line,
                          !.value_colon_starts_line = p.current.first]
           e == Emit(p, "SCALAR")
           ev == Emit(v, "SCALAR")
<1>1. s \in BlockInner
  BY DEF BlockInner
<1>2. Suits(q, n, s)
  BY <1>1, InnerSuits
<1>3. Suits(p, n, s)
  BY <1>2, PeekSuits
<1> HIDE DEF p
<1>4. Suits(e, n, s)
  BY <1>3, EmitSuits, EventNames
<1> HIDE DEF e
<1>5. Aligned(Goto(e, "BLOCK_MAP_LOOP"))
  BY <1>1, <1>4, GotoBlock, BlockNamesFree
<1>6. ASSUME Tok(p) = "BLOCK_MAP_VALUE"
      PROVE  /\ Aligned(Goto(ev, "BLOCK_MAP_LOOP"))
             /\ Aligned(GotoNode(v, "BLOCK_NODE", "BLOCK_MAP_LOOP"))
  <2>1. NoBracket(p)
    BY <1>6 DEF NoBracket, Opening, Closing
  <2>2. Suits(r, n, s)
    BY <1>3, <2>1, NextSuits
  <2> HIDE DEF r
  <2>3. Good(r) /\ p.current.line \in Nat /\ p.current.first \in BOOLEAN
    BY <1>3, <2>2, FieldTypes DEF Suits
  <2>4. /\ Good(v) /\ v.frames = r.frames /\ v.node_return = r.node_return
        /\ Calm(v) => /\ Calm(r) /\ v.have_token = r.have_token /\ Tok(v) = Tok(r)
                      /\ v.scanner = r.scanner
    <3> DEFINE line == p.current.line
               first == p.current.first
    <3> HIDE DEF line, first
    <3>1. r \in ParserRecord /\ Bounds(r)
      BY <2>3 DEF Good
    <3>2. v = [r EXCEPT !.value_colon_line = line, !.value_colon_starts_line = first]
      BY DEF v, line, first
    <3>3. line \in Nat /\ first \in BOOLEAN
      BY <2>3 DEF line, first
    <3>4. [r EXCEPT !.value_colon_line = line, !.value_colon_starts_line = first]
          \in ParserRecord
      BY <3>1, <3>3 DEF ParserRecord
    <3> HIDE DEF v
    <3>5. /\ v.frames = r.frames /\ v.node_return = r.node_return /\ v.scanner = r.scanner
          /\ v.have_token = r.have_token /\ v.current = r.current
          /\ v.incremental = r.incremental /\ v.scan_error = r.scan_error
          /\ v.stop_status = r.stop_status /\ v.starved = r.starved
          /\ v.error_msg = r.error_msg
          /\ v.out_buf = r.out_buf /\ v.events_delivered = r.events_delivered
          /\ v.scan_error_out = r.scan_error_out /\ v.ckpt = r.ckpt
      BY <3>1, <3>2 DEF ParserRecord
    <3>6. Bounds(v)
      BY <3>1, <3>5 DEF Bounds
    <3>7. Calm(v) <=> Calm(r)
      BY <3>5, SameCalm
    <3> QED BY <3>2, <3>4, <3>5, <3>6, <3>7 DEF Good, Tok
  <2> HIDE DEF v
  <2>5. Suits(v, n, s)
    BY <2>2, <2>4, SameSuits
  <2>6. Suits(ev, n, s)
    BY <2>5, EmitSuits, EventNames
  <2> HIDE DEF ev
  <2>7. Aligned(Goto(ev, "BLOCK_MAP_LOOP"))
    BY <1>1, <2>6, GotoBlock, BlockNamesFree
  <2>8. Aligned(GotoNode(v, "BLOCK_NODE", "BLOCK_MAP_LOOP"))
    BY <1>1, <2>5, GotoBlockNode
  <2> QED BY <2>7, <2>8
<1>7. \/ BlockMapValue(q) = Goto(e, "BLOCK_MAP_LOOP")
      \/ /\ Tok(p) = "BLOCK_MAP_VALUE"
         /\ BlockMapValue(q) \in {Goto(ev, "BLOCK_MAP_LOOP"),
                                  GotoNode(v, "BLOCK_NODE", "BLOCK_MAP_LOOP")}
  BY DEF BlockMapValue, e, ev, v, r, p
<1> QED BY <1>5, <1>6, <1>7

\* A step may end where a collection returned to.
LEMMA ReturnedAligned ==
  ASSUME NEW q, NEW n, Suits(q, n, q.state),
         Calm(q) => q.state \in ReturnState \ {"STREAM_START"}
  PROVE  Aligned(q)
<1>1. CASE Calm(q)
  <2>1. q.state \in FreeStates /\ q.state \notin NodeStates
    BY <1>1, ReturnFree
  <2>2. Kin(Home(q.state, n), q.state)
    BY <2>1 DEF Kin, Home
  <2>3. Prepared(q, q.state)
    BY <2>1, FreePrepared
  <2> QED BY <2>2, <2>3, StaysAligned
<1>2. CASE ~Calm(q)
  BY <1>2 DEF Aligned
<1> QED BY <1>1, <1>2

\* Leaving a block collection.
LEMMA BlockEndAligned ==
  ASSUME NEW q, NEW s \in BlockInner, Begun(q, s), NEW e \in Stream!Event
  PROVE  Aligned(BlockEnd(q, e))
<1> DEFINE n == q.node_return
           r == PopFrame(q)
           p == Peek(r)
           o == Emit(p, e)
<1>1. Suits(q, n, s) /\ FramesPlaced(q.frames)
  BY InnerSuits
<1>2. /\ Suits(r, n, r.state)
      /\ Calm(r) => r.state \in ReturnState \ {"STREAM_START"}
  <2>1. Good(q)
    BY <1>1 DEF Suits
  <2>2. s \notin FlowInner
    BY DEF BlockInner, FlowInner, FlowStates
  <2>3. Calm(q) => Nested(q.frames) /\ Suit(q.frames, Len(q.frames), s) /\ Even(q)
    BY <1>1 DEF Suits
  <2> QED BY <1>1, <2>1, <2>2, <2>3, PopSuits
<1> HIDE DEF r
<1>3. Good(r)
  BY <1>2 DEF Suits
<1>4. /\ Suits(p, n, r.state) /\ (Calm(p) => Calm(r))
      /\ p.state = r.state /\ Good(p)
  <2>1. Suits(p, n, r.state) /\ (Calm(p) => Calm(r)) /\ p.state = r.state
    BY <1>2, <1>3, PeekSuits, PeekState
  <2> QED BY <2>1 DEF Suits
<1> HIDE DEF p
<1>5. Suits(o, n, r.state) /\ (Calm(o) => Calm(r)) /\ o.state = r.state
  BY <1>4, EmitSuits, EmitState
<1> HIDE DEF o
<1>6. Aligned(o)
  BY <1>2, <1>5, ReturnedAligned
<1>7. Aligned(EndDocument(o))
  BY <1>5, EndDocumentAligned
<1>8. BlockEnd(q, e) \in {EndDocument(o), o}
  BY DEF BlockEnd, o, p, r
<1> QED BY <1>6, <1>7, <1>8

\* ST_BLOCK_MAP_END and ST_BLOCK_SEQ_END.
LEMMA BlockEndsAligned ==
  ASSUME NEW q
  PROVE  /\ Begun(q, "BLOCK_MAP_END") => Aligned(BlockMapEnd(q))
         /\ Begun(q, "BLOCK_SEQ_END") => Aligned(BlockSeqEnd(q))
<1>1. "BLOCK_MAP_END" \in BlockInner /\ "BLOCK_SEQ_END" \in BlockInner
  BY DEF BlockInner
<1> QED BY <1>1, BlockEndAligned, EventNames DEF BlockMapEnd, BlockSeqEnd

\* ST_BLOCK_SEQ_LOOP.
LEMMA BlockSeqLoopAligned ==
  ASSUME NEW q, Begun(q, "BLOCK_SEQ_LOOP")
  PROVE  Aligned(BlockSeqLoop(q))
<1> DEFINE n == q.node_return
           s == "BLOCK_SEQ_LOOP"
           p == Peek(q)
<1>1. s \in BlockInner
  BY DEF BlockInner
<1>2. Suits(q, n, s)
  BY <1>1, InnerSuits
<1>3. Suits(p, n, s) /\ (Calm(p) => p.have_token)
  BY <1>2, PeekSuits
<1> HIDE DEF p
<1>4. Aligned(Goto(p, "BLOCK_SEQ_END"))
  BY <1>1, <1>3, GotoBlock, BlockNamesFree
<1>5. ASSUME Tok(p) = "BLOCK_SEQ_ENTRY" PROVE Aligned(Goto(p, "BLOCK_SEQ_ENTRY"))
  <2>1. Calm(p) => Prepared(p, "BLOCK_SEQ_ENTRY")
    BY <1>3, <1>5 DEF Prepared, Opening, Closing
  <2>2. "BLOCK_SEQ_ENTRY" \in State /\ Kin(Home("BLOCK_SEQ_ENTRY", n), s)
    BY <1>1 DEF State, BlockStates, FlowStates, Kin, Home, NodeStates, FlowInner, BlockInner
  <2> QED BY <1>3, <2>1, <2>2, GotoAligned
<1>6. \/ BlockSeqLoop(q) = Goto(p, "BLOCK_SEQ_END")
      \/ Tok(p) = "BLOCK_SEQ_ENTRY" /\ BlockSeqLoop(q) = Goto(p, "BLOCK_SEQ_ENTRY")
  BY DEF BlockSeqLoop, p
<1> QED BY <1>4, <1>5, <1>6

\* ST_BLOCK_SEQ_ENTRY.
LEMMA BlockSeqEntryAligned ==
  ASSUME NEW q, Begun(q, "BLOCK_SEQ_ENTRY")
  PROVE  Aligned(BlockSeqEntry(q))
<1> DEFINE n == q.node_return
           s == "BLOCK_SEQ_ENTRY"
           p == Peek(q)
           r == Peek(Consume(p))
           e == Emit(r, "SCALAR")
<1>1. s \in BlockInner /\ s \in PlainStates
  BY DEF BlockInner, PlainStates
<1>2. Suits(q, n, s) /\ (Calm(q) => Prepared(q, s))
  BY <1>1, InnerSuits
<1>3. Suits(p, n, s) /\ (Calm(p) => NoBracket(p))
  BY <1>1, <1>2, PlainSuits
<1> HIDE DEF p
<1>4. Suits(r, n, s)
  BY <1>3, NextSuits
<1> HIDE DEF r
<1>5. Suits(e, n, s)
  BY <1>4, EmitSuits, EventNames
<1> HIDE DEF e
<1>6. Aligned(Goto(e, "BLOCK_SEQ_LOOP"))
  BY <1>1, <1>5, GotoBlock, BlockNamesFree
<1>7. Aligned(GotoNode(r, "BLOCK_NODE", "BLOCK_SEQ_LOOP"))
  BY <1>1, <1>4, GotoBlockNode
<1>8. BlockSeqEntry(q) \in {Goto(e, "BLOCK_SEQ_LOOP"),
                            GotoNode(r, "BLOCK_NODE", "BLOCK_SEQ_LOOP")}
  BY DEF BlockSeqEntry, e, r, p
<1> QED BY <1>6, <1>7, <1>8

-----------------------------------------------------------------------------
(***************************************************************************)
(* The brackets: flow nodes and the parts of flow collections.             *)
(***************************************************************************)

\* The states of a flow collection that rely on no token.
LEMMA FlowNamesFree ==
  {"FLOW_MAP_LOOP", "FLOW_MAP_VALUE", "FLOW_MAP_SEP", "FLOW_SEQ_LOOP", "FLOW_SEQ_ENTRY",
   "FLOW_SEQ_IMPLICIT_END", "FLOW_SEQ_EXPLICIT_VALUE", "FLOW_SEQ_EXPLICIT_END",
   "FLOW_SEQ_SEP"} \subseteq FlowInner \cap FreeStates
BY DEF FlowInner, FreeStates, State, BlockStates, FlowStates, PlainStates

\* Going to a state of the flow collection on top.
LEMMA GotoFlow ==
  ASSUME NEW q, NEW n, NEW s \in FlowInner, Suits(q, n, s), NEW t \in FlowInner \cap FreeStates
  PROVE  Aligned(Goto(q, t))
<1>1. t \in FreeStates /\ t \notin NodeStates /\ t \notin BlockInner
  BY DEF BlockInner, NodeStates, FlowInner, FlowStates
<1>2. Kin(Home(t, n), s)
  BY <1>1 DEF Kin, Home
<1> QED BY <1>1, <1>2, GotoFree

\* Going to a state of it that relies on a token.
LEMMA GotoFlowToken ==
  ASSUME NEW q, NEW n, NEW s \in FlowInner, Suits(q, n, s), Calm(q) => q.have_token,
         NEW t \in {"FLOW_SEQ_END", "FLOW_MAP_END", "FLOW_SEQ_ENTRY_KEY", "FLOW_SEQ_EXPLICIT_KEY"},
         t \in {"FLOW_SEQ_END", "FLOW_MAP_END"} => Tok(q) \in Closing,
         t \notin {"FLOW_SEQ_END", "FLOW_MAP_END"} => Tok(q) \notin Opening \cup Closing
  PROVE  Aligned(Goto(q, t))
<1>1. t \in State /\ t \notin NodeStates /\ t \notin BlockInner /\ t # "STREAM_START"
  BY DEF State, FlowStates, BlockInner, NodeStates
<1>2. Kin(Home(t, n), s)
  BY <1>1 DEF Kin, Home
<1>3. t \in PlainStates => t \notin {"FLOW_SEQ_END", "FLOW_MAP_END"}
  BY DEF PlainStates
<1>4. Calm(q) => Prepared(q, t)
  BY <1>1, <1>3 DEF Prepared
<1> QED BY <1>1, <1>2, <1>4, GotoAligned

\* Going to a node of the flow collection on top.
LEMMA GotoFlowNode ==
  ASSUME NEW q, NEW n, NEW s \in FlowInner, Suits(q, n, s), NEW m \in ReturnState \cap FlowInner
  PROVE  Aligned(GotoNode(q, "FLOW_NODE", m))
<1>1. Kin(m, s)
  BY DEF Kin, BlockInner, FlowInner, FlowStates
<1> QED BY <1>1, GotoNodeAligned

\* inc_flow_sep.
LEMMA FlowSepAligned ==
  ASSUME NEW q, NEW n, NEW s \in FlowInner, Suits(q, n, s), NEW in_seq \in BOOLEAN
  PROVE  Aligned(FlowSep(q, in_seq))
<1> DEFINE r == Peek(q)
           c == Consume(r)
           loop == IF in_seq THEN "FLOW_SEQ_LOOP" ELSE "FLOW_MAP_LOOP"
           end == IF in_seq THEN "FLOW_SEQ_END" ELSE "FLOW_MAP_END"
           sep == IF in_seq THEN "FLOW_SEQ_SEP" ELSE "FLOW_MAP_SEP"
<1>1. Suits(r, n, s) /\ (Calm(r) => r.have_token)
  BY PeekSuits
<1> HIDE DEF r
<1>2. loop \in FlowInner \cap FreeStates /\ sep \in FlowInner \cap FreeStates
  BY FlowNamesFree
<1>3. end \in {"FLOW_SEQ_END", "FLOW_MAP_END"} /\ end \in Closing
  BY DEF Closing
<1> HIDE DEF loop, end, sep
<1>4. ASSUME Tok(r) = "FLOW_ENTRY" PROVE Aligned(Goto(c, loop))
  <2>1. NoBracket(r)
    BY <1>4 DEF NoBracket, Opening, Closing
  <2>2. Suits(c, n, s)
    BY <1>1, <2>1, ConsumeSuits
  <2> HIDE DEF c
  <2> QED BY <1>2, <2>2, GotoFlow
<1> HIDE DEF c
<1>5. ASSUME Tok(r) = end PROVE Aligned(Goto(r, end))
  BY <1>1, <1>3, <1>5, GotoFlowToken
<1>6. Aligned(Goto(r, sep))
  BY <1>1, <1>2, GotoFlow
<1>7. ~r.have_token => Aligned(r)
  BY <1>1 DEF Aligned
<1>8. \/ ~r.have_token /\ FlowSep(q, in_seq) = r
      \/ Tok(r) = "FLOW_ENTRY" /\ FlowSep(q, in_seq) = Goto(c, loop)
      \/ Tok(r) = end /\ FlowSep(q, in_seq) = Goto(r, end)
      \/ FlowSep(q, in_seq) = Goto(r, sep)
  BY DEF FlowSep, r, c, loop, end, sep
<1> QED BY <1>4, <1>5, <1>6, <1>7, <1>8

\* inc_flow_map_value, the ':' consumed.
LEMMA FlowMapValueNodeAligned ==
  ASSUME NEW q, NEW n, NEW s \in FlowInner, Suits(q, n, s)
  PROVE  Aligned(FlowMapValueNode(q))
<1> DEFINE r == Peek(q)
           v == EmitScalarToken(r)
           e == Emit(r, "SCALAR")
<1>1. Suits(r, n, s) /\ (Calm(r) => r.have_token)
  BY PeekSuits
<1> HIDE DEF r
<1>2. ASSUME Tok(r) = "SCALAR" PROVE Aligned(FlowSep(v, FALSE))
  <2>1. Suits(v, n, s)
    BY <1>1, <1>2, ScalarTokenSuits
  <2> HIDE DEF v
  <2> QED BY <2>1, FlowSepAligned
<1> HIDE DEF v
<1>3. Suits(e, n, s)
  BY <1>1, EmitSuits, EventNames
<1> HIDE DEF e
<1>4. Aligned(Goto(e, "FLOW_MAP_SEP"))
  BY <1>3, GotoFlow, FlowNamesFree
<1>5. Aligned(GotoNode(r, "FLOW_NODE", "FLOW_MAP_SEP"))
  BY <1>1, GotoFlowNode, FlowNamesFree DEF ReturnState
<1>6. ~r.have_token => Aligned(r)
  BY <1>1 DEF Aligned
<1>7. \/ ~r.have_token /\ FlowMapValueNode(q) = r
      \/ Tok(r) = "SCALAR" /\ FlowMapValueNode(q) = FlowSep(v, FALSE)
      \/ FlowMapValueNode(q) \in {Goto(e, "FLOW_MAP_SEP"),
                                  GotoNode(r, "FLOW_NODE", "FLOW_MAP_SEP")}
  BY DEF FlowMapValueNode, r, v, e
<1> QED BY <1>2, <1>4, <1>5, <1>6, <1>7

\* A part of a pair.
LEMMA PairNodeAligned ==
  ASSUME NEW q, NEW n, NEW s \in FlowInner, Suits(q, n, s), NEW ends,
         NEW next \in {"FLOW_MAP_VALUE", "FLOW_SEQ_IMPLICIT_END", "FLOW_SEQ_EXPLICIT_VALUE",
                       "FLOW_SEQ_EXPLICIT_END"}
  PROVE  Aligned(PairNode(q, ends, next))
<1> DEFINE r == Peek(q)
           e == Emit(r, "SCALAR")
<1>1. Suits(r, n, s)
  BY PeekSuits
<1> HIDE DEF r
<1>2. Suits(e, n, s)
  BY <1>1, EmitSuits, EventNames
<1> HIDE DEF e
<1>3. next \in FlowInner \cap FreeStates /\ next \in ReturnState
  BY FlowNamesFree DEF ReturnState
<1>4. Aligned(Goto(e, next))
  BY <1>2, <1>3, GotoFlow
<1>5. Aligned(GotoNode(r, "FLOW_NODE", next))
  BY <1>1, <1>3, GotoFlowNode
<1>6. PairNode(q, ends, next) \in {Goto(e, next), GotoNode(r, "FLOW_NODE", next)}
  BY DEF PairNode, e, r
<1> QED BY <1>4, <1>5, <1>6

\* A flow collection's bracket is acted on: its frame is pushed.
LEMMA FlowOpenAligned ==
  ASSUME NEW q, NEW n \in ReturnState, Suits(q, n, n), ~q.scan_error,
         Calm(q) => q.have_token, Tok(q) \in Opening,
         NEW e \in Stream!Event, NEW type \in FlowContext,
         NEW loop \in FlowInner \cap FreeStates
  PROVE  Aligned(FlowOpen(q, e, type, loop))
<1> DEFINE a == AttachProps(q)
           c == Consume(a)
           r == Emit(c, e)
           u == PushFrame(r, type, Col(q), r.node_return)
<1>1. Good(q) /\ q.node_return = n /\ Col(q) \in Nat
  BY FieldTypes DEF Suits
<1>2. /\ Good(a) /\ a.frames = q.frames /\ a.node_return = n /\ a.scanner = q.scanner
      /\ ~a.scan_error /\ (Calm(a) => Calm(q))
  <2>1. q \in ParserRecord
    BY <1>1 DEF Good
  <2> QED BY <1>1, <2>1, AttachPropsGood, AttachFields DEF SameFrames
<1> HIDE DEF a
<1>3. /\ Good(c) /\ c.frames = q.frames /\ c.node_return = n /\ c.scanner = q.scanner
      /\ ~c.scan_error /\ (Calm(c) => Calm(q)) /\ ~c.have_token
  <2>1. a \in ParserRecord
    BY <1>2 DEF Good
  <2> QED BY <1>2, <2>1, ConsumeGood, ConsumeFields DEF SameFrames
<1> HIDE DEF c
<1>4. /\ Good(r) /\ r.frames = q.frames /\ r.node_return = n /\ r.scanner = q.scanner
      /\ ~r.scan_error /\ (Calm(r) => Calm(q)) /\ ~r.have_token
  <2>1. c \in ParserRecord
    BY <1>3 DEF Good
  <2> QED BY <1>3, <2>1, EmitGood, EmitFields DEF SameFrames
<1> HIDE DEF r
<1>5. ASSUME Calm(r)
      PROVE  /\ Nested(r.frames) /\ Suit(r.frames, Len(r.frames), n)
             /\ Len(r.scanner.flows) = FlowFrames(r.frames) + 1
  <2>1. Even(q) /\ Nested(q.frames) /\ Suit(q.frames, Len(q.frames), n)
    BY <1>4, <1>5 DEF Suits
  <2>2. PendingBracket(q) = 1
    BY <1>4, <1>5, PendingType
  <2> QED BY <1>4, <2>1, <2>2 DEF Even
<1>6. type \notin BlockContext /\ loop \notin BlockInner
  BY DEF FlowContext, BlockContext, FlowInner, FlowStates, BlockInner
<1>7. Suits(u, n, loop)
  BY <1>1, <1>4, <1>5, <1>6, PushSuits
<1> HIDE DEF u
<1>8. Aligned(Goto(u, loop))
  BY <1>7, GotoFlow
<1>9. FlowOpen(q, e, type, loop) = Goto(u, loop)
  BY <1>1, <1>4 DEF FlowOpen, u, r, c, a
<1> QED BY <1>8, <1>9

\* A node, its properties read.
LEMMA FlowNodeAfterPropsAligned ==
  ASSUME NEW q, NEW n \in ReturnState \ {"STREAM_START"}, Suits(q, n, n), ~q.scan_error,
         Calm(q) => q.have_token
  PROVE  Aligned(FlowNodeAfterProps(q))
<1> DEFINE a == AttachProps(q)
           c == Consume(a)
           v == EmitScalarToken(q)
           x == Emit(c, "ALIAS")
           e == Emit(a, "SCALAR")
           seq == FlowOpen(q, "SEQUENCE_START", "FLOW_SEQ", "FLOW_SEQ_LOOP")
           map == FlowOpen(q, "MAPPING_START", "FLOW_MAP", "FLOW_MAP_LOOP")
<1>1. q.node_return = n
  BY DEF Suits
<1>2. Suits(a, n, n) /\ Tok(a) = Tok(q)
  BY AttachSuits
<1> HIDE DEF a
<1>3. ASSUME NEW p, Suits(p, n, n) PROVE Aligned(Goto(p, n))
  <2>1. p.node_return = n
    BY <1>3 DEF Suits
  <2> QED BY <1>3, <2>1, ReturnAligned
<1>4. Aligned(Goto(e, n))
  BY <1>2, <1>3, EmitSuits, EventNames
<1>5. ASSUME Tok(q) = "SCALAR" PROVE Aligned(Goto(v, n))
  BY <1>3, <1>5, ScalarTokenSuits
<1>6. ASSUME Tok(q) = "ALIAS" PROVE Aligned(Goto(x, n))
  <2>1. NoBracket(a)
    BY <1>2, <1>6 DEF NoBracket, Opening, Closing
  <2>2. Suits(c, n, n)
    BY <1>2, <2>1, ConsumeSuits
  <2> HIDE DEF c
  <2>3. Suits(x, n, n)
    BY <2>2, EmitSuits, EventNames
  <2> QED BY <1>3, <2>3
<1>7. ASSUME Tok(q) \in Opening PROVE Aligned(seq) /\ Aligned(map)
  <2>1. "FLOW_SEQ" \in FlowContext /\ "FLOW_MAP" \in FlowContext
    BY DEF FlowContext
  <2> QED BY <1>7, <2>1, FlowOpenAligned, FlowNamesFree, EventNames
<1> HIDE DEF seq, map, v, x, e, c
<1>8. \/ Tok(q) = "SCALAR" /\ FlowNodeAfterProps(q) = Goto(v, n)
      \/ Tok(q) = "ALIAS" /\ FlowNodeAfterProps(q) = Goto(x, n)
      \/ Tok(q) \in Opening /\ FlowNodeAfterProps(q) \in {seq, map}
      \/ FlowNodeAfterProps(q) = Goto(e, n)
  BY <1>1 DEF FlowNodeAfterProps, Opening, seq, map, v, x, e, c, a
<1> QED BY <1>4, <1>5, <1>6, <1>7, <1>8

\* ST_FLOW_NODE.
LEMMA FlowNodeAligned ==
  ASSUME NEW q, Begun(q, "FLOW_NODE")
  PROVE  Aligned(FlowNode(q))
<1> DEFINE n == q.node_return
           c == ConsumeProps(q)
<1>1. /\ Suits(q, n, n) /\ n \in ReturnState \ {"STREAM_START"}
      /\ ~q.scan_error /\ q.have_token /\ q.state = "FLOW_NODE"
  BY NodeSuits DEF NodeStates, TokenStates, Begun
<1>2. Good(q) /\ Peek(q) = q
  BY <1>1 DEF Suits, Peek
<1> HIDE DEF n
<1>3. Aligned(FlowNodeAfterProps(q))
  BY <1>1, FlowNodeAfterPropsAligned
<1>4. /\ Suits(c, n, n) /\ c.state = "FLOW_NODE"
      /\ c.have_token => ~c.scan_error
  BY <1>1, <1>2, ConsumePropsSuits, ConsumePropsQuiet, ConsumePropsGood DEF Quiet
<1> HIDE DEF c
<1>5. Aligned(c)
  <2>1. "FLOW_NODE" \in FreeStates /\ "FLOW_NODE" \in NodeStates
    BY DEF FreeStates, State, FlowStates, PlainStates, NodeStates
  <2>2. Kin(Home("FLOW_NODE", n), n)
    BY <2>1 DEF Kin, Home
  <2> QED BY <1>4, <2>1, <2>2, FreePrepared, StaysAligned
<1>6. ASSUME c.have_token PROVE Aligned(FlowNodeAfterProps(Peek(c)))
  <2>1. Peek(c) = c
    BY <1>6 DEF Peek
  <2> QED BY <1>1, <1>4, <1>6, <2>1, FlowNodeAfterPropsAligned
<1>7. \/ FlowNode(q) \in {FlowNodeAfterProps(q), c}
      \/ c.have_token /\ FlowNode(q) = FlowNodeAfterProps(Peek(c))
  BY <1>2 DEF FlowNode, PropsFailed, c
<1> QED BY <1>3, <1>5, <1>6, <1>7

-----------------------------------------------------------------------------
(***************************************************************************)
(* The brackets: flow mappings.                                            *)
(***************************************************************************)

\* A scalar key, with or without its value.
LEMMA FlowScalarKeyAligned ==
  ASSUME NEW q, NEW n, NEW s \in FlowInner, Suits(q, n, s), Tok(q) = "SCALAR"
  PROVE  Aligned(FlowScalarKey(q))
<1> DEFINE v == EmitScalarToken(q)
           g == Goto(v, "FLOW_MAP_VALUE")
           r == Peek(g)
           c == Consume(r)
<1>1. Suits(v, n, s)
  BY ScalarTokenSuits
<1> HIDE DEF v
<1>2. "FLOW_MAP_VALUE" \in FlowInner \cap FreeStates /\ "FLOW_MAP_VALUE" \in State
  BY FlowNamesFree DEF State, FlowStates
<1>3. Suits(g, n, s) /\ g.state = "FLOW_MAP_VALUE"
  BY <1>1, <1>2, GotoSuits
<1> HIDE DEF g
<1>4. Suits(r, n, s) /\ r.state = "FLOW_MAP_VALUE"
  <2>1. Good(g)
    BY <1>3 DEF Suits
  <2> QED BY <1>3, <2>1, PeekSuits, PeekState
<1> HIDE DEF r
<1>5. Aligned(r)
  <2>1. "FLOW_MAP_VALUE" \notin NodeStates /\ "FLOW_MAP_VALUE" \notin BlockInner
    BY DEF NodeStates, BlockInner
  <2>2. Kin(Home(r.state, n), s)
    BY <1>4, <2>1 DEF Kin, Home
  <2>3. Prepared(r, r.state)
    BY <1>2, <1>4, FreePrepared
  <2> QED BY <1>4, <2>2, <2>3, StaysAligned
<1>6. ASSUME Tok(r) = "BLOCK_MAP_VALUE" PROVE Aligned(FlowMapValueNode(c))
  <2>1. NoBracket(r)
    BY <1>6 DEF NoBracket, Opening, Closing
  <2>2. Suits(c, n, s)
    BY <1>4, <2>1, ConsumeSuits
  <2> HIDE DEF c
  <2> QED BY <2>2, FlowMapValueNodeAligned
<1> HIDE DEF c
<1>7. \/ FlowScalarKey(q) = r
      \/ Tok(r) = "BLOCK_MAP_VALUE" /\ FlowScalarKey(q) = FlowMapValueNode(c)
  BY DEF FlowScalarKey, c, r, g, v
<1> QED BY <1>5, <1>6, <1>7

\* ST_FLOW_MAP_LOOP.
LEMMA FlowMapLoopAligned ==
  ASSUME NEW q, Begun(q, "FLOW_MAP_LOOP")
  PROVE  Aligned(FlowMapLoop(q))
<1> DEFINE n == q.node_return
           s == "FLOW_MAP_LOOP"
           p == Peek(q)
           c == Consume(p)
           ends == {"BLOCK_MAP_VALUE", "FLOW_ENTRY", "FLOW_MAP_END"}
           pair == PairNode(c, ends, "FLOW_MAP_VALUE")
<1>1. s \in FlowInner
  BY FlowNamesFree
<1>2. Suits(q, n, s)
  BY <1>1, InnerSuits
<1>3. Suits(p, n, s) /\ Good(p) /\ (Calm(p) => p.have_token)
  <2>1. Suits(p, n, s) /\ (Calm(p) => p.have_token)
    BY <1>2, PeekSuits
  <2> QED BY <2>1 DEF Suits
<1> HIDE DEF p
<1>4. ASSUME Tok(p) = "FLOW_MAP_END" PROVE Aligned(Goto(p, "FLOW_MAP_END"))
  <2>1. Tok(p) \in Closing
    BY <1>4 DEF Closing
  <2> QED BY <1>1, <1>3, <2>1, GotoFlowToken
<1>5. Aligned(ParseError(p))
  BY <1>3, ErrorAligned
<1>6. ASSUME Tok(p) = "BLOCK_MAP_KEY" PROVE Aligned(pair)
  <2>1. NoBracket(p)
    BY <1>6 DEF NoBracket, Opening, Closing
  <2>2. Suits(c, n, s)
    BY <1>3, <2>1, ConsumeSuits
  <2> HIDE DEF c, ends
  <2> QED BY <1>1, <2>2, PairNodeAligned
<1> HIDE DEF pair
<1>7. ASSUME Tok(p) = "SCALAR" PROVE Aligned(FlowScalarKey(p))
  BY <1>1, <1>3, <1>7, FlowScalarKeyAligned
<1>8. Aligned(GotoNode(p, "FLOW_NODE", "FLOW_MAP_VALUE"))
  <2>1. "FLOW_MAP_VALUE" \in ReturnState \cap FlowInner
    BY FlowNamesFree DEF ReturnState
  <2> QED BY <1>1, <1>3, <2>1, GotoFlowNode
<1>9. \/ Tok(p) = "FLOW_MAP_END" /\ FlowMapLoop(q) = Goto(p, "FLOW_MAP_END")
      \/ FlowMapLoop(q) = ParseError(p)
      \/ Tok(p) = "BLOCK_MAP_KEY" /\ FlowMapLoop(q) = pair
      \/ Tok(p) = "SCALAR" /\ FlowMapLoop(q) = FlowScalarKey(p)
      \/ FlowMapLoop(q) = GotoNode(p, "FLOW_NODE", "FLOW_MAP_VALUE")
  BY DEF FlowMapLoop, pair, ends, c, p
<1> QED BY <1>4, <1>5, <1>6, <1>7, <1>8, <1>9

\* ST_FLOW_MAP_VALUE.
LEMMA FlowMapValueAligned ==
  ASSUME NEW q, Begun(q, "FLOW_MAP_VALUE")
  PROVE  Aligned(FlowMapValue(q))
<1> DEFINE n == q.node_return
           s == "FLOW_MAP_VALUE"
           p == Peek(q)
           c == Consume(p)
           e == Emit(p, "SCALAR")
<1>1. s \in FlowInner
  BY FlowNamesFree
<1>2. Suits(p, n, s)
  BY <1>1, InnerSuits, PeekSuits
<1> HIDE DEF p
<1>3. ASSUME Tok(p) = "BLOCK_MAP_VALUE" PROVE Aligned(FlowMapValueNode(c))
  <2>1. NoBracket(p)
    BY <1>3 DEF NoBracket, Opening, Closing
  <2>2. Suits(c, n, s)
    BY <1>2, <2>1, ConsumeSuits
  <2> HIDE DEF c
  <2> QED BY <1>1, <2>2, FlowMapValueNodeAligned
<1> HIDE DEF c
<1>4. Suits(e, n, s)
  BY <1>2, EmitSuits, EventNames
<1> HIDE DEF e
<1>5. Aligned(Goto(e, "FLOW_MAP_SEP"))
  BY <1>1, <1>4, GotoFlow, FlowNamesFree
<1>6. \/ Tok(p) = "BLOCK_MAP_VALUE" /\ FlowMapValue(q) = FlowMapValueNode(c)
      \/ FlowMapValue(q) = Goto(e, "FLOW_MAP_SEP")
  BY DEF FlowMapValue, c, e, p
<1> QED BY <1>3, <1>5, <1>6

\* ST_FLOW_MAP_SEP and ST_FLOW_SEQ_SEP.
LEMMA FlowSepsAligned ==
  ASSUME NEW q
  PROVE  /\ Begun(q, "FLOW_MAP_SEP") => Aligned(FlowMapSep(q))
         /\ Begun(q, "FLOW_SEQ_SEP") => Aligned(FlowSeqSep(q))
<1> DEFINE p == Peek(q)
           c == Consume(p)
<1>1. ASSUME NEW s \in FlowInner, Begun(q, s),
             NEW loop \in FlowInner \cap FreeStates
      PROVE  /\ Tok(p) = "FLOW_ENTRY" => Aligned(Goto(c, loop))
             /\ Aligned(Goto(p, loop))
             /\ Aligned(ParseError(p))
  <2> DEFINE n == q.node_return
  <2>1. Suits(p, n, s)
    BY <1>1, InnerSuits, PeekSuits
  <2> HIDE DEF p, n
  <2>2. Good(p)
    BY <2>1 DEF Suits
  <2>3. ASSUME Tok(p) = "FLOW_ENTRY" PROVE Aligned(Goto(c, loop))
    <3>1. NoBracket(p)
      BY <2>3 DEF NoBracket, Opening, Closing
    <3>2. Suits(c, n, s)
      BY <2>1, <3>1, ConsumeSuits
    <3> HIDE DEF c
    <3> QED BY <3>2, GotoFlow
  <2>4. Aligned(Goto(p, loop))
    BY <2>1, GotoFlow
  <2> HIDE DEF c
  <2> QED BY <2>2, <2>3, <2>4, ErrorAligned
<1> HIDE DEF p, c
<1>2. \/ Tok(p) = "FLOW_ENTRY" /\ FlowMapSep(q) = Goto(c, "FLOW_MAP_LOOP")
      \/ FlowMapSep(q) \in {Goto(p, "FLOW_MAP_LOOP"), ParseError(p)}
  BY DEF FlowMapSep, p, c
<1>3. \/ Tok(p) = "FLOW_ENTRY" /\ FlowSeqSep(q) = Goto(c, "FLOW_SEQ_LOOP")
      \/ FlowSeqSep(q) \in {Goto(p, "FLOW_SEQ_LOOP"), ParseError(p)}
  BY DEF FlowSeqSep, p, c
<1> QED BY <1>1, <1>2, <1>3, FlowNamesFree

\* A flow collection's closing bracket is acted on: its frame is popped.
LEMMA FlowEndAligned ==
  ASSUME NEW q, NEW s \in {"FLOW_MAP_END", "FLOW_SEQ_END"}, Begun(q, s),
         NEW e \in Stream!Event
  PROVE  Aligned(FlowEnd(q, e))
<1> DEFINE n == q.node_return
           c == Consume(q)
           o == Emit(c, e)
           r == PopFrame(o)
<1>1. s \in FlowInner
  BY DEF FlowInner, FlowStates
<1>2. Suits(q, n, s) /\ FramesPlaced(q.frames) /\ (Calm(q) => Prepared(q, s))
  BY <1>1, InnerSuits
<1>3. Good(q)
  BY <1>2 DEF Suits
<1>4. /\ Good(c) /\ c.frames = q.frames /\ c.node_return = n /\ c.scanner = q.scanner
      /\ (Calm(c) => Calm(q)) /\ ~c.have_token
  <2>1. q \in ParserRecord
    BY <1>3 DEF Good
  <2> QED BY <1>3, <2>1, ConsumeGood, ConsumeFields DEF SameFrames
<1> HIDE DEF c
<1>5. /\ Good(o) /\ o.frames = q.frames /\ o.node_return = n /\ o.scanner = q.scanner
      /\ (Calm(o) => Calm(q)) /\ ~o.have_token
  <2>1. c \in ParserRecord
    BY <1>4 DEF Good
  <2> QED BY <1>4, <2>1, EmitGood, EmitFields DEF SameFrames
<1> HIDE DEF o
<1>6. ASSUME Calm(o)
      PROVE  /\ Nested(o.frames) /\ Suit(o.frames, Len(o.frames), s)
             /\ Len(o.scanner.flows) = FlowFrames(o.frames) - 1
  <2>1. Even(q) /\ Nested(q.frames) /\ Suit(q.frames, Len(q.frames), s)
    BY <1>2, <1>5, <1>6 DEF Suits
  <2>2. PendingBracket(q) = -1
    BY <1>2, <1>5, <1>6, PendingType DEF Prepared
  <2>3. FlowFrames(q.frames) # 0
    <3> DEFINE fs == q.frames
               low == SubSeq(fs, 1, Len(fs) - 1)
    <3>1. fs \in Seq(Frame) /\ Len(fs) > 0 /\ fs[Len(fs)].type \in FlowContext
      BY <1>1, <1>3, <2>1, FieldTypes DEF Suit
    <3>2. /\ low \in Seq(Frame) /\ Len(fs) = Len(low) + 1
          /\ \A i \in 1..Len(low) : low[i] = fs[i]
      BY <3>1
    <3> HIDE DEF fs, low
    <3>3. /\ FlowFrames(low) \in Nat
          /\ FlowFrames(fs) = FlowFrames(low) + 1
      BY <3>1, <3>2, FrameStep
    <3>4. FlowFrames(fs) # 0
      BY <3>3
    <3> QED BY <3>4 DEF fs
  <2>4. Len(q.scanner.flows) = FlowFrames(q.frames) - 1
    <3>1. FlowFrames(q.frames) \in Nat
      BY <1>3, FieldTypes, FlowFramesType
    <3> QED BY <2>1, <2>2, <2>3, <3>1 DEF Even
  <2> QED BY <1>5, <2>1, <2>4
<1>7. s \notin BlockInner
  BY DEF BlockInner
<1>8. /\ Suits(r, n, r.state)
      /\ Calm(r) => r.state \in ReturnState \ {"STREAM_START"}
  BY <1>1, <1>2, <1>5, <1>6, <1>7, PopSuits
<1> HIDE DEF r
<1>9. Aligned(r)
  BY <1>8, ReturnedAligned
<1>10. ASSUME r.state \in {"FLOW_SEQ_SEP", "FLOW_MAP_SEP"}, NEW b \in BOOLEAN
       PROVE  Aligned(FlowSep(r, b))
  BY <1>8, <1>10, FlowSepAligned, FlowNamesFree
<1>11. \/ FlowEnd(q, e) = r
       \/ /\ r.state \in {"FLOW_SEQ_SEP", "FLOW_MAP_SEP"}
          /\ FlowEnd(q, e) \in {FlowSep(r, TRUE), FlowSep(r, FALSE)}
  BY DEF FlowEnd, r, o, c
<1> QED BY <1>9, <1>10, <1>11

\* ST_FLOW_MAP_END and ST_FLOW_SEQ_END.
LEMMA FlowEndsAligned ==
  ASSUME NEW q
  PROVE  /\ Begun(q, "FLOW_MAP_END") => Aligned(FlowMapEnd(q))
         /\ Begun(q, "FLOW_SEQ_END") => Aligned(FlowSeqEnd(q))
BY FlowEndAligned, EventNames DEF FlowMapEnd, FlowSeqEnd

-----------------------------------------------------------------------------
(***************************************************************************)
(* The brackets: flow sequences.                                           *)
(***************************************************************************)

\* ST_FLOW_SEQ_ENTRY.
LEMMA FlowSeqEntryAligned ==
  ASSUME NEW q, NEW n, NEW s \in FlowInner, Suits(q, n, s), Calm(q) => q.have_token,
         Tok(q) \in {"SCALAR", "ALIAS"}
  PROVE  Aligned(FlowSeqEntry(q))
<1> DEFINE e == IF Tok(q) = "SCALAR" THEN "SCALAR" ELSE "ALIAS"
           p == Peek(q)
           a == AttachProps(p)
           r == Peek(Consume(a))
           k == [r EXCEPT !.saved_node = e]
           o == Emit(r, e)
<1>1. e \in Stream!Leaf /\ e \in Stream!Event
  BY EventNames DEF Stream!Leaf
<1> HIDE DEF e
<1>2. Suits(p, n, s) /\ (Calm(p) => NoBracket(p))
  <2>1. q.have_token => p = q
    BY DEF Peek
  <2>2. Suits(p, n, s) /\ (Calm(p) => Calm(q))
    BY PeekSuits
  <2>3. NoBracket(q)
    BY DEF NoBracket, Opening, Closing
  <2> HIDE DEF p
  <2> QED BY <2>1, <2>2, <2>3
<1> HIDE DEF p
<1>3. Suits(a, n, s) /\ (Calm(a) => NoBracket(a))
  BY <1>2, AttachSuits DEF NoBracket
<1> HIDE DEF a
<1>4. Suits(r, n, s) /\ (Calm(r) => r.have_token)
  BY <1>3, NextSuits
<1> HIDE DEF r
<1>5. /\ Suits(k, n, s) /\ (Calm(k) => k.have_token) /\ Tok(k) = Tok(r)
  <2>1. Good(r)
    BY <1>4 DEF Suits
  <2>2. Good(k)
    BY <1>1, <2>1 DEF Good, ParserRecord, Bounds
  <2>3. /\ k.frames = r.frames /\ k.node_return = r.node_return
        /\ k.have_token = r.have_token /\ Tok(k) = Tok(r) /\ k.scanner = r.scanner
        /\ Calm(k) => Calm(r)
    BY <2>1 DEF Good, ParserRecord, Tok, Calm, Sound
  <2> HIDE DEF k
  <2>4. Suits(k, n, s)
    BY <1>4, <2>2, <2>3, SameSuits
  <2> QED BY <1>4, <2>3, <2>4
<1> HIDE DEF k
<1>6. ASSUME Tok(r) = "BLOCK_MAP_VALUE" PROVE Aligned(Goto(k, "FLOW_SEQ_ENTRY_KEY"))
  <2>1. Tok(k) \notin Opening \cup Closing
    BY <1>5, <1>6 DEF Opening, Closing
  <2> QED BY <1>5, <2>1, GotoFlowToken
<1>7. Suits(o, n, s)
  BY <1>1, <1>4, EmitSuits
<1> HIDE DEF o
<1>8. Aligned(FlowSep(o, TRUE))
  BY <1>7, FlowSepAligned
<1>9. \/ Tok(r) = "BLOCK_MAP_VALUE" /\ FlowSeqEntry(q) = Goto(k, "FLOW_SEQ_ENTRY_KEY")
      \/ FlowSeqEntry(q) = FlowSep(o, TRUE)
  BY DEF FlowSeqEntry, o, k, r, a, p, e
<1> QED BY <1>6, <1>8, <1>9

\* An entry's properties.
LEMMA FlowSeqPropsAligned ==
  ASSUME NEW q, NEW n, Suits(q, n, "FLOW_SEQ_LOOP"), q.state = "FLOW_SEQ_LOOP"
  PROVE  Aligned(FlowSeqProps(q))
<1> DEFINE s == "FLOW_SEQ_LOOP"
           r == ConsumeProps(q)
           a == AttachProps(r)
           e == Emit(a, "SCALAR")
<1>1. s \in FlowInner /\ s \in FreeStates /\ s \notin NodeStates
  BY FlowNamesFree DEF NodeStates
<1>2. Suits(r, n, s) /\ Good(r) /\ r.state = s
  <2>1. Good(q)
    BY DEF Suits
  <2> QED BY <2>1, ConsumePropsSuits, ConsumePropsQuiet DEF Quiet
<1> HIDE DEF r
<1>3. Aligned(r)
  <2>1. Kin(Home(r.state, n), s) /\ Prepared(r, r.state)
    BY <1>1, <1>2, FreePrepared DEF Kin, Home
  <2> QED BY <1>2, <2>1, StaysAligned
<1>4. Aligned(ParseError(r))
  BY <1>2, ErrorAligned
<1>5. Suits(a, n, s)
  BY <1>2, AttachSuits
<1> HIDE DEF a
<1>6. Suits(e, n, s)
  BY <1>5, EmitSuits, EventNames
<1> HIDE DEF e
<1>7. Aligned(FlowSep(e, TRUE))
  BY <1>1, <1>6, FlowSepAligned
<1>8. FlowSeqProps(q) \in {r, FlowSep(e, TRUE), ParseError(r)}
  BY DEF FlowSeqProps, e, a, r
<1> QED BY <1>3, <1>4, <1>7, <1>8

\* ST_FLOW_SEQ_LOOP.
LEMMA FlowSeqLoopAligned ==
  ASSUME NEW q, Begun(q, "FLOW_SEQ_LOOP")
  PROVE  Aligned(FlowSeqLoop(q))
<1> DEFINE n == q.node_return
           s == "FLOW_SEQ_LOOP"
           p == Peek(q)
           ahead == LookAhead(p, p.current.pos)
           g == Goto(p, "FLOW_SEQ_ENTRY")
           a == AttachProps(p)
           m == Emit(a, "MAPPING_START")
           e == Emit(m, "SCALAR")
           c == Consume(e)
           pair == PairNode(c, PairEnds, "FLOW_SEQ_IMPLICIT_END")
<1>1. s \in FlowInner /\ "FLOW_SEQ_ENTRY" \in State
  BY FlowNamesFree DEF State, FlowStates
<1>2. Suits(q, n, s) /\ q.state = s
  BY <1>1, InnerSuits DEF Begun
<1>3. /\ Suits(p, n, s) /\ (Calm(p) => p.have_token)
      /\ Good(p) /\ p.state = s
  <2>1. Suits(p, n, s) /\ (Calm(p) => p.have_token)
    BY <1>2, PeekSuits
  <2>2. Good(q) /\ p.state = s
    BY <1>2, PeekState DEF Suits
  <2> QED BY <2>1, <2>2 DEF Suits
<1> HIDE DEF p
<1>4. ASSUME Tok(p) = "FLOW_SEQ_END" PROVE Aligned(Goto(p, "FLOW_SEQ_END"))
  <2>1. Tok(p) \in Closing
    BY <1>4 DEF Closing
  <2> QED BY <1>1, <1>3, <2>1, GotoFlowToken
<1>5. Aligned(ParseError(p))
  BY <1>3, ErrorAligned
<1>6. ASSUME Tok(p) = "BLOCK_MAP_KEY" PROVE Aligned(Goto(p, "FLOW_SEQ_EXPLICIT_KEY"))
  <2>1. Tok(p) \notin Opening \cup Closing
    BY <1>6 DEF Opening, Closing
  <2> QED BY <1>1, <1>3, <2>1, GotoFlowToken
<1>7. ASSUME Tok(p) \in {"SCALAR", "ALIAS"} PROVE Aligned(FlowSeqEntry(g))
  <2>1. Suits(g, n, s) /\ (Calm(g) => g.have_token) /\ Tok(g) = Tok(p)
    BY <1>1, <1>3, GotoSuits
  <2> HIDE DEF g
  <2> QED BY <1>1, <1>7, <2>1, FlowSeqEntryAligned
<1> HIDE DEF g
<1>8. Aligned(Goto(ahead, "EAGER_DRAIN")) /\ Aligned(GotoNode(ahead, "FLOW_NODE", "FLOW_SEQ_SEP"))
  <2>1. Suits(ahead, n, s)
    BY <1>3, LookAheadSuits
  <2> HIDE DEF ahead
  <2>2. "FLOW_SEQ_SEP" \in ReturnState \cap FlowInner
    BY FlowNamesFree DEF ReturnState
  <2> QED BY <1>1, <2>1, <2>2, GotoOuter, GotoFlowNode DEF OuterStates
<1>9. ASSUME Tok(p) = "BLOCK_MAP_VALUE" PROVE Aligned(pair)
  <2>1. NoBracket(p)
    BY <1>9 DEF NoBracket, Opening, Closing
  <2>2. Suits(a, n, s) /\ NoBracket(a)
    BY <1>3, <2>1, AttachSuits DEF NoBracket
  <2> HIDE DEF a
  <2>3. Suits(m, n, s) /\ NoBracket(m)
    BY <2>2, EmitSuits, EventNames DEF NoBracket
  <2> HIDE DEF m
  <2>4. Suits(e, n, s) /\ NoBracket(e)
    BY <2>3, EmitSuits, EventNames DEF NoBracket
  <2> HIDE DEF e
  <2>5. Suits(c, n, s)
    BY <2>4, ConsumeSuits
  <2> HIDE DEF c
  <2> QED BY <1>1, <2>5, PairNodeAligned
<1> HIDE DEF pair
<1>10. Aligned(FlowSeqProps(p))
  BY <1>3, FlowSeqPropsAligned
<1> HIDE DEF ahead
<1>11. \/ Tok(p) = "FLOW_SEQ_END" /\ FlowSeqLoop(q) = Goto(p, "FLOW_SEQ_END")
       \/ Tok(p) = "BLOCK_MAP_KEY" /\ FlowSeqLoop(q) = Goto(p, "FLOW_SEQ_EXPLICIT_KEY")
       \/ Tok(p) \in {"SCALAR", "ALIAS"} /\ FlowSeqLoop(q) = FlowSeqEntry(g)
       \/ FlowSeqLoop(q) \in {Goto(ahead, "EAGER_DRAIN"),
                              GotoNode(ahead, "FLOW_NODE", "FLOW_SEQ_SEP")}
       \/ Tok(p) = "BLOCK_MAP_VALUE" /\ FlowSeqLoop(q) = pair
       \/ FlowSeqLoop(q) \in {FlowSeqProps(p), ParseError(p)}
  BY DEF FlowSeqLoop, PropTokens, FlowStarts, pair, c, e, m, a, g, ahead, p
<1> QED BY <1>4, <1>5, <1>6, <1>7, <1>8, <1>9, <1>10, <1>11

\* ST_FLOW_SEQ_ENTRY_KEY and ST_FLOW_SEQ_EXPLICIT_KEY.
LEMMA FlowSeqKeysAligned ==
  ASSUME NEW q
  PROVE  /\ Begun(q, "FLOW_SEQ_ENTRY_KEY") => Aligned(FlowSeqEntryKey(q))
         /\ Begun(q, "FLOW_SEQ_EXPLICIT_KEY") => Aligned(FlowSeqExplicitKey(q))
<1>1. "FLOW_SEQ_ENTRY_KEY" \in FlowInner /\ "FLOW_SEQ_EXPLICIT_KEY" \in FlowInner
  BY DEF FlowInner, FlowStates
<1> DEFINE m == Emit(q, "MAPPING_START")
           k == Emit(m, q.saved_node)
<1>2. ASSUME NEW s \in {"FLOW_SEQ_ENTRY_KEY", "FLOW_SEQ_EXPLICIT_KEY"}, Begun(q, s)
      PROVE  /\ Suits(m, q.node_return, s) /\ (Calm(m) => NoBracket(m))
             /\ Good(q)
  <2>1. Suits(q, q.node_return, s) /\ (Calm(q) => NoBracket(q))
    BY <1>1, <1>2, InnerSuits DEF Prepared, PlainStates, NoBracket
  <2>2. Suits(m, q.node_return, s) /\ (Calm(m) => NoBracket(m))
    BY <2>1, EmitSuits, EventNames DEF NoBracket
  <2> QED BY <2>1, <2>2 DEF Suits
<1>3. ASSUME Begun(q, "FLOW_SEQ_ENTRY_KEY") PROVE Aligned(FlowSeqEntryKey(q))
  <2> DEFINE n == q.node_return
             s == "FLOW_SEQ_ENTRY_KEY"
             c == Consume(k)
  <2>1. Suits(m, n, s) /\ (Calm(m) => NoBracket(m)) /\ q.saved_node \in Stream!Event
    <3>1. q.saved_node \in Stream!Leaf
      BY <1>2, <1>3, FieldTypes
    <3>2. q.saved_node \in Stream!Event
      BY <3>1 DEF Stream!Leaf, Stream!Event
    <3> QED BY <1>2, <1>3, <3>2
  <2> HIDE DEF m
  <2>2. Suits(k, n, s) /\ (Calm(k) => NoBracket(k))
    BY <2>1, EmitSuits DEF NoBracket
  <2> HIDE DEF k
  <2>3. Suits(c, n, s)
    BY <2>2, ConsumeSuits
  <2> HIDE DEF c
  <2>4. Aligned(PairNode(c, PairEnds, "FLOW_SEQ_IMPLICIT_END"))
    BY <1>1, <2>3, PairNodeAligned
  <2> QED BY <2>4 DEF FlowSeqEntryKey, c, k, m
<1>4. ASSUME Begun(q, "FLOW_SEQ_EXPLICIT_KEY") PROVE Aligned(FlowSeqExplicitKey(q))
  <2> DEFINE n == q.node_return
             s == "FLOW_SEQ_EXPLICIT_KEY"
             c == Consume(m)
  <2>1. Suits(m, n, s) /\ (Calm(m) => NoBracket(m))
    BY <1>2, <1>4
  <2> HIDE DEF m
  <2>2. Suits(c, n, s)
    BY <2>1, ConsumeSuits
  <2> HIDE DEF c
  <2>3. Aligned(PairNode(c, PairEnds \cup {"BLOCK_MAP_VALUE"}, "FLOW_SEQ_EXPLICIT_VALUE"))
    BY <1>1, <2>2, PairNodeAligned
  <2> QED BY <2>3 DEF FlowSeqExplicitKey, c, m
<1> QED BY <1>3, <1>4

\* ST_FLOW_SEQ_IMPLICIT_END and ST_FLOW_SEQ_EXPLICIT_END.
LEMMA FlowSeqPairEndAligned ==
  ASSUME NEW q, NEW s \in {"FLOW_SEQ_IMPLICIT_END", "FLOW_SEQ_EXPLICIT_END"}, Begun(q, s)
  PROVE  Aligned(FlowSeqPairEnd(q))
<1> DEFINE n == q.node_return
           p == Peek(q)
           e == Emit(p, "MAPPING_END")
<1>1. s \in FlowInner
  BY FlowNamesFree
<1>2. Suits(p, n, s)
  BY <1>1, InnerSuits, PeekSuits
<1> HIDE DEF p
<1>3. Suits(e, n, s)
  BY <1>2, EmitSuits, EventNames
<1> HIDE DEF e
<1>4. Aligned(Goto(e, "FLOW_SEQ_SEP"))
  BY <1>1, <1>3, GotoFlow, FlowNamesFree
<1> QED BY <1>4 DEF FlowSeqPairEnd, e, p

\* ST_FLOW_SEQ_EXPLICIT_VALUE.
LEMMA FlowSeqExplicitValueAligned ==
  ASSUME NEW q, Begun(q, "FLOW_SEQ_EXPLICIT_VALUE")
  PROVE  Aligned(FlowSeqExplicitValue(q))
<1> DEFINE n == q.node_return
           s == "FLOW_SEQ_EXPLICIT_VALUE"
           p == Peek(q)
           c == Consume(p)
           e == Emit(p, "SCALAR")
           pair == PairNode(c, PairEnds, "FLOW_SEQ_EXPLICIT_END")
<1>1. s \in FlowInner
  BY FlowNamesFree
<1>2. Suits(p, n, s)
  BY <1>1, InnerSuits, PeekSuits
<1> HIDE DEF p
<1>3. ASSUME Tok(p) = "BLOCK_MAP_VALUE" PROVE Aligned(pair)
  <2>1. NoBracket(p)
    BY <1>3 DEF NoBracket, Opening, Closing
  <2>2. Suits(c, n, s)
    BY <1>2, <2>1, ConsumeSuits
  <2> HIDE DEF c
  <2> QED BY <1>1, <2>2, PairNodeAligned
<1> HIDE DEF pair, c
<1>4. Suits(e, n, s)
  BY <1>2, EmitSuits, EventNames
<1> HIDE DEF e
<1>5. Aligned(Goto(e, "FLOW_SEQ_EXPLICIT_END"))
  BY <1>1, <1>4, GotoFlow, FlowNamesFree
<1>6. \/ Tok(p) = "BLOCK_MAP_VALUE" /\ FlowSeqExplicitValue(q) = pair
      \/ FlowSeqExplicitValue(q) = Goto(e, "FLOW_SEQ_EXPLICIT_END")
  BY DEF FlowSeqExplicitValue, pair, c, e, p
<1> QED BY <1>3, <1>5, <1>6

-----------------------------------------------------------------------------
(***************************************************************************)
(* The brackets: the steps.                                                *)
(***************************************************************************)

\* What Aligned reads has not changed.
LEMMA SameAligned ==
  ASSUME NEW q, Aligned(q), NEW r,
         r.incremental = q.incremental, r.scan_error = q.scan_error,
         r.stop_status = q.stop_status, r.starved = q.starved, r.error_msg = q.error_msg,
         r.state = q.state, r.node_return = q.node_return, r.frames = q.frames,
         r.have_token = q.have_token, r.current = q.current,
         r.scanner.flows = q.scanner.flows,
         r.scanner.stream_started = q.scanner.stream_started
  PROVE  Aligned(r)
<1>1. Calm(r) <=> Calm(q)
  BY DEF Calm, Sound
<1>2. Even(r) <=> Even(q)
  BY DEF Even, PendingBracket, Tok
<1>3. Prepared(r, r.state) <=> Prepared(q, q.state)
  BY DEF Prepared, Tok
<1> QED BY <1>1, <1>2, <1>3 DEF Aligned

\* A new parser has no bracket.
LEMMA InitAligned == Init => Aligned(parser)
<1> SUFFICES ASSUME Init PROVE Aligned(parser)
  OBVIOUS
<1>1. /\ parser.state = "STREAM_START" /\ parser.node_return = "STREAM_START"
      /\ parser.frames = <<>> /\ ~parser.have_token
      /\ parser.scanner.flows = <<>> /\ ~parser.scanner.stream_started
  BY DEF Init, NewParser, NewScanner
<1>2. FlowFrames(<<>>) = 0
  <2>1. {i \in 1..Len(<<>>) : <<>>[i].type \in FlowContext} = {}
    OBVIOUS
  <2> QED BY <2>1, FS_EmptySet DEF FlowFrames
<1>3. Even(parser)
  BY <1>1, <1>2 DEF Even, PendingBracket
<1>4. Nested(parser.frames)
  BY <1>1 DEF Nested
<1>5. Prepared(parser, parser.state)
  BY <1>1 DEF Prepared, PlainStates
<1>6. Home(parser.state, parser.node_return) \notin FlowInner \cup BlockInner
  BY <1>1 DEF Home, NodeStates, FlowInner, FlowStates, BlockInner
<1> QED BY <1>3, <1>4, <1>5, <1>6 DEF Aligned, Suit

\* More text is no bracket the scanner has read.
LEMMA MoreTextAligned ==
  ASSUME StreamInv, Aligned(parser), MoreText
  PROVE  Aligned(parser')
<1>1. parser \in ParserRecord /\ parser.scanner \in ScannerState
  BY DEF StreamInv, Inv, Kept, ParserRecord
<1>2. PICK t : /\ parser' = [parser EXCEPT !.scanner = t]
               /\ t.flows = parser.scanner.flows
               /\ t.stream_started = parser.scanner.stream_started
  <2> DEFINE s == parser.scanner
  <2>1. ASSUME NEW x PROVE AppendLexeme(s, x).flows = s.flows
                           /\ AppendLexeme(s, x).stream_started = s.stream_started
    BY <1>1 DEF AppendLexeme, ScannerState
  <2>2. EndText(s).flows = s.flows /\ EndText(s).stream_started = s.stream_started
    BY <1>1 DEF EndText, ScannerState
  <2>3. CASE parser' = [parser EXCEPT !.scanner = EndText(s)]
    BY <2>2, <2>3
  <2>4. CASE \E x \in Lexemes : parser' = [parser EXCEPT !.scanner = AppendLexeme(s, x)]
    BY <2>1, <2>4
  <2>5. \/ parser' = [parser EXCEPT !.scanner = EndText(s)]
        \/ \E x \in Lexemes : parser' = [parser EXCEPT !.scanner = AppendLexeme(s, x)]
    BY <1>1 DEF MoreText
  <2> QED BY <2>3, <2>4, <2>5
<1>3. /\ parser'.incremental = parser.incremental /\ parser'.scan_error = parser.scan_error
      /\ parser'.stop_status = parser.stop_status /\ parser'.starved = parser.starved
      /\ parser'.error_msg = parser.error_msg
      /\ parser'.state = parser.state /\ parser'.node_return = parser.node_return
      /\ parser'.frames = parser.frames
      /\ parser'.have_token = parser.have_token /\ parser'.current = parser.current
      /\ parser'.scanner = t
  BY <1>1, <1>2 DEF ParserRecord
<1> QED BY <1>2, <1>3, SameAligned

\* Nor does an event delivered change any.
LEMMA DeliverAligned ==
  ASSUME StreamInv, Aligned(parser), Deliver
  PROVE  Aligned(parser')
<1>1. parser \in ParserRecord
  BY DEF StreamInv, Inv, Kept
<1>2. /\ parser'.incremental = parser.incremental /\ parser'.scan_error = parser.scan_error
      /\ parser'.stop_status = parser.stop_status /\ parser'.starved = parser.starved
      /\ parser'.error_msg = parser.error_msg
      /\ parser'.state = parser.state /\ parser'.node_return = parser.node_return
      /\ parser'.frames = parser.frames
      /\ parser'.have_token = parser.have_token /\ parser'.current = parser.current
      /\ parser'.scanner = parser.scanner
  BY <1>1 DEF Deliver, ParserRecord
<1> QED BY <1>2, SameAligned

\* What next_event makes of a step keeps its frames and its token.
LEMMA FinishAligned ==
  ASSUME StreamInv, Aligned(parser), NEW q, Good(q), Aligned(q), Finish(q)
  PROVE  Aligned(parser')
<1>1. CASE q.starved
  BY <1>1, MoreTextAligned DEF Finish
<1>2. CASE ~q.starved
  <2> DEFINE kept == KeepEvents(q)
  <2>1. /\ kept.incremental = q.incremental /\ kept.scan_error = q.scan_error
        /\ kept.stop_status = q.stop_status /\ kept.starved = q.starved
        /\ kept.error_msg = q.error_msg
        /\ kept.state = q.state /\ kept.node_return = q.node_return
        /\ kept.frames = q.frames
        /\ kept.have_token = q.have_token /\ kept.current = q.current
        /\ kept.scanner = q.scanner
    BY DEF KeepEvents, Good, ParserRecord
  <2>2. kept \in ParserRecord
    BY KeepEventsGood DEF Good
  <2>3. parser' = [kept EXCEPT !.status = "OK"]
    BY <1>2 DEF Finish
  <2>4. /\ parser'.incremental = kept.incremental /\ parser'.scan_error = kept.scan_error
        /\ parser'.stop_status = kept.stop_status /\ parser'.starved = kept.starved
        /\ parser'.error_msg = kept.error_msg
        /\ parser'.state = kept.state /\ parser'.node_return = kept.node_return
        /\ parser'.frames = kept.frames
        /\ parser'.have_token = kept.have_token /\ parser'.current = kept.current
        /\ parser'.scanner = kept.scanner
    <3> HIDE DEF kept
    <3> QED BY <2>2, <2>3 DEF ParserRecord
  <2> HIDE DEF kept
  <2> QED BY <2>1, <2>4, SameAligned
<1> QED BY <1>1, <1>2

\* One step of a state: its handler's record is aligned.
LEMMA StepAligned ==
  ASSUME StreamInv, Aligned(parser), NEW s, Stepping(s), s \notin AwayStates,
         NEW q, AtStart(open, parser) /\ parser.state = s => Done(open, q),
         Begun(parser, s) => Aligned(q), Finish(q)
  PROVE  Aligned(parser')
<1>1. AtStart(open, parser) /\ parser.state = s
  BY StartStep
<1>2. Good(q)
  BY <1>1 DEF Done
<1>3. Begun(parser, s)
  BY <1>1 DEF Begun, AwayStates
<1> QED BY <1>2, <1>3, FinishAligned

\* Every step of the stream's and the documents' states.
LEMMA DocumentStepAligned ==
  ASSUME StreamInv, Aligned(parser), DocumentStep
  PROVE  Aligned(parser')
<1> USE DEF AwayStates
<1>1. CASE DoStreamStart
  BY <1>1, StepAligned, StreamStartDone, StreamStartAligned DEF DoStreamStart
<1>2. CASE DoStreamDocLoop
  BY <1>2, StepAligned, StreamDocLoopDone, StreamDocLoopAligned DEF DoStreamDocLoop
<1>3. CASE DoStreamEnd
  BY <1>3, StepAligned, StreamEndDone, StreamEndAligned DEF DoStreamEnd
<1>4. CASE DoDocDirectives
  BY <1>4, StepAligned, DocDirectivesDone, DocDirectivesAligned DEF DoDocDirectives
<1>5. CASE DoDocStartExplicit
  BY <1>5, StepAligned, DocStartExplicitDone, DocStartsAligned DEF DoDocStartExplicit
<1>6. CASE DoDocStartImplicit
  BY <1>6, StepAligned, DocStartImplicitDone, DocStartsAligned DEF DoDocStartImplicit
<1>7. CASE DoDocContent
  BY <1>7, StepAligned, DocContentDone, DocContentAligned DEF DoDocContent
<1>8. CASE DoDocEndExplicit
  BY <1>8, StepAligned, DocEndDone, DocEndAligned DEF DoDocEndExplicit
<1> QED BY <1>1, <1>2, <1>3, <1>4, <1>5, <1>6, <1>7, <1>8 DEF DocumentStep

\* Every step of the block states.
LEMMA BlockStepAligned ==
  ASSUME StreamInv, Aligned(parser), BlockStep
  PROVE  Aligned(parser')
<1> USE DEF AwayStates
<1>1. CASE DoBlockNode
  BY <1>1, StepAligned, BlockNodeDone, BlockNodeAligned DEF DoBlockNode
<1>2. CASE DoBlockNodeScalar
  BY <1>2, StepAligned, BlockNodeLeafDone, BlockNodeLeafAligned
     DEF DoBlockNodeScalar, BlockNodeScalar, Stream!Leaf
<1>3. CASE DoBlockNodeScalarKey
  BY <1>3, StepAligned, BlockNodeKeyDone, BlockNodeKeyAligned DEF DoBlockNodeScalarKey
<1>4. CASE DoBlockNodeAlias
  BY <1>4, StepAligned, BlockNodeLeafDone, BlockNodeLeafAligned
     DEF DoBlockNodeAlias, BlockNodeAlias, Stream!Leaf
<1>5. CASE DoBlockNodeAliasKey
  BY <1>5, StepAligned, BlockNodeKeyDone, BlockNodeKeyAligned DEF DoBlockNodeAliasKey
<1>6. CASE DoBlockNodeSeq
  BY <1>6, StepAligned, BlockOpenDone, BlockOpensAligned DEF DoBlockNodeSeq
<1>7. CASE DoBlockNodeExplicitKey
  BY <1>7, StepAligned, BlockOpenDone, BlockOpensAligned DEF DoBlockNodeExplicitKey
<1>8. CASE DoBlockNodeBareValue
  BY <1>8, StepAligned, BlockNodeBareValueDone, BlockOpensAligned DEF DoBlockNodeBareValue
<1>9. CASE DoBlockMapLoop
  BY <1>9, StepAligned, BlockMapLoopDone, BlockMapLoopAligned DEF DoBlockMapLoop
<1>10. CASE DoBlockMapExplicitKey
  BY <1>10, StepAligned, BlockMapExplicitKeyDone, BlockMapExplicitKeyAligned
     DEF DoBlockMapExplicitKey
<1>11. CASE DoBlockMapSimpleKey
  BY <1>11, StepAligned, BlockMapSimpleKeyDone, BlockMapSimpleKeyAligned
     DEF DoBlockMapSimpleKey
<1>12. CASE DoBlockMapPostKey
  BY <1>12, StepAligned, BlockMapPostKeyDone, BlockMapPostKeyAligned DEF DoBlockMapPostKey
<1>13. CASE DoBlockMapValue
  BY <1>13, StepAligned, BlockMapValueDone, BlockMapValueAligned DEF DoBlockMapValue
<1>14. CASE DoBlockMapEnd
  BY <1>14, StepAligned, BlockEndsDone, BlockEndsAligned DEF DoBlockMapEnd
<1>15. CASE DoBlockSeqLoop
  BY <1>15, StepAligned, BlockSeqLoopDone, BlockSeqLoopAligned DEF DoBlockSeqLoop
<1>16. CASE DoBlockSeqEntry
  BY <1>16, StepAligned, BlockSeqEntryDone, BlockSeqEntryAligned DEF DoBlockSeqEntry
<1>17. CASE DoBlockSeqEnd
  BY <1>17, StepAligned, BlockEndsDone, BlockEndsAligned DEF DoBlockSeqEnd
<1> QED BY <1>1, <1>2, <1>3, <1>4, <1>5, <1>6, <1>7, <1>8, <1>9, <1>10, <1>11, <1>12,
           <1>13, <1>14, <1>15, <1>16, <1>17
        DEF BlockStep

\* Every step of the flow states.
LEMMA FlowStepAligned ==
  ASSUME StreamInv, Aligned(parser), FlowStep
  PROVE  Aligned(parser')
<1> USE DEF AwayStates
<1>1. CASE DoFlowNode
  BY <1>1, StepAligned, FlowNodeDone, FlowNodeAligned DEF DoFlowNode
<1>2. CASE DoFlowMapLoop
  BY <1>2, StepAligned, FlowMapLoopDone, FlowMapLoopAligned DEF DoFlowMapLoop
<1>3. CASE DoFlowMapValue
  BY <1>3, StepAligned, FlowMapValueDone, FlowMapValueAligned DEF DoFlowMapValue
<1>4. CASE DoFlowMapSep
  BY <1>4, StepAligned, FlowSepStateDone, FlowSepsAligned DEF DoFlowMapSep
<1>5. CASE DoFlowMapEnd
  BY <1>5, StepAligned, FlowEndsDone, FlowEndsAligned DEF DoFlowMapEnd
<1>6. CASE DoFlowSeqLoop
  BY <1>6, StepAligned, FlowSeqLoopDone, FlowSeqLoopAligned DEF DoFlowSeqLoop
<1>7. CASE DoFlowSeqEntryKey
  BY <1>7, StepAligned, FlowSeqEntryKeyDone, FlowSeqKeysAligned DEF DoFlowSeqEntryKey
<1>8. CASE DoFlowSeqImplicitEnd
  BY <1>8, StepAligned, FlowSeqPairEndDone, FlowSeqPairEndAligned DEF DoFlowSeqImplicitEnd
<1>9. CASE DoFlowSeqExplicitKey
  BY <1>9, StepAligned, FlowSeqExplicitKeyDone, FlowSeqKeysAligned DEF DoFlowSeqExplicitKey
<1>10. CASE DoFlowSeqExplicitValue
  BY <1>10, StepAligned, FlowSeqExplicitValueDone, FlowSeqExplicitValueAligned
     DEF DoFlowSeqExplicitValue
<1>11. CASE DoFlowSeqExplicitEnd
  BY <1>11, StepAligned, FlowSeqPairEndDone, FlowSeqPairEndAligned DEF DoFlowSeqExplicitEnd
<1>12. CASE DoFlowSeqSep
  BY <1>12, StepAligned, FlowSepStateDone, FlowSepsAligned DEF DoFlowSeqSep
<1>13. CASE DoFlowSeqEnd
  BY <1>13, StepAligned, FlowEndsDone, FlowEndsAligned DEF DoFlowSeqEnd
<1> QED BY <1>1, <1>2, <1>3, <1>4, <1>5, <1>6, <1>7, <1>8, <1>9, <1>10, <1>11, <1>12,
           <1>13
        DEF FlowStep

\* No step parts the scanner's brackets from the parser's.
LEMMA NextAligned ==
  ASSUME StreamInv, Aligned(parser), [Next]_vars
  PROVE  Aligned(parser')
<1>1. CASE Deliver
  BY <1>1, DeliverAligned
<1>2. CASE Call \/ ReturnNone \/ ReturnScanError \/ ReturnStopped \/ EagerParser
           \/ UNCHANGED vars
  <2>1. parser' = parser
    BY <1>2
       DEF Call, ReturnNone, ReturnScanError, ReturnStopped, Return, EagerParser, vars
  <2> QED BY <2>1
<1>3. CASE FallBack
  <2>1. parser \in ParserRecord
    BY DEF StreamInv, Inv, Kept
  <2>2. ~parser'.incremental
    BY <1>3, <2>1 DEF FallBack, ParserRecord
  <2> QED BY <2>2 DEF Aligned, Calm, Sound
<1>4. CASE DocumentStep \/ BlockStep \/ FlowStep
  BY <1>4, DocumentStepAligned, BlockStepAligned, FlowStepAligned
<1> QED BY <1>1, <1>2, <1>3, <1>4 DEF Next, Work

-----------------------------------------------------------------------------
(***************************************************************************)
(* The lookahead cache.                                                    *)
(***************************************************************************)

\* The stepped parser remembers the text its cache was read from.
CacheInv == parser.incremental => Recalls(parser, parser)

\* A new parser has looked nowhere.
LEMMA InitRecalls == Init => CacheInv
<1> SUFFICES ASSUME Init PROVE Recalls(parser, parser)
  BY DEF CacheInv
<1>1. parser = NewParser /\ parser \in ParserRecord
  BY InitInv DEF Init, Inv, Kept
<1>2. /\ CacheFields \subseteq DOMAIN parser
      /\ parser.scanner \in ScannerState /\ parser.current \in Token
  BY <1>1 DEF ParserRecord, CacheFields
<1>3. /\ ~parser.starved /\ ~parser.fk.valid /\ ~parser.have_token
      /\ parser.scanner.buf = <<>>
  BY <1>1 DEF NewParser, NoFlowKeys, NewScanner
<1>4. QuoteEnds(parser.scanner.buf, parser.scanner.last)
  BY <1>3 DEF QuoteEnds
<1> QED BY <1>2, <1>3, <1>4 DEF Recalls, Marked, BracketRead, CacheKnown

\* One more lexeme leaves a text's rest as it was, up to that lexeme.
LEMMA RestGrows ==
  ASSUME NEW x \in Seq(Lexeme), NEW k \in 0..Len(x), NEW l \in Lexeme
  PROVE  /\ Append(x, l) \in Seq(Lexeme) /\ k \in 0..Len(Append(x, l))
         /\ SubSeq(Append(x, l), k + 1, Len(Append(x, l))) = Append(SubSeq(x, k + 1, Len(x)), l)
         /\ KindAt(Append(x, l), k) = KindAt(x, k)
<1> DEFINE n == Len(x)
           y == Append(x, l)
           u == SubSeq(x, k + 1, n)
           v == SubSeq(y, k + 1, n + 1)
<1>1. n \in Nat /\ k \in Nat /\ k <= n
  OBVIOUS
<1>2. y \in Seq(Lexeme) /\ Len(y) = n + 1 /\ y[n + 1] = l /\ \A j \in 1..n : y[j] = x[j]
  OBVIOUS
<1>3. u \in Seq(Lexeme) /\ Len(u) = n - k /\ \A j \in 1..(n - k) : u[j] = x[k + j]
  BY <1>1, SubText
<1> HIDE DEF y, u
<1>4. v \in Seq(Lexeme) /\ Len(v) = (n + 1) - k /\ \A j \in 1..((n + 1) - k) : v[j] = y[k + j]
  <2>1. LET t == SubSeq(y, k + 1, n + 1)
        IN  /\ t \in Seq(Lexeme) /\ Len(t) = (n + 1) - k
            /\ \A j \in 1..((n + 1) - k) : t[j] = y[k + j]
    <3>1. n + 1 \in Nat /\ k <= n + 1 /\ n + 1 <= Len(y)
      BY <1>1, <1>2
    <3> HIDE DEF n
    <3> QED BY <1>1, <1>2, <3>1, SubText
  <2> QED BY <2>1
<1> HIDE DEF v, n
<1>5. Append(u, l) \in Seq(Lexeme) /\ Len(Append(u, l)) = (n - k) + 1
      /\ Append(u, l)[(n - k) + 1] = l /\ \A j \in 1..(n - k) : Append(u, l)[j] = u[j]
  BY <1>1, <1>3
<1>6. ASSUME NEW j \in 1..Len(v) PROVE v[j] = Append(u, l)[j]
  <2>1. j \in 1..((n + 1) - k)
    BY <1>4
  <2>2. CASE j = (n - k) + 1
    <3>1. k + j = n + 1
      BY <1>1, <2>2
    <3> QED BY <1>2, <1>4, <1>5, <2>1, <2>2, <3>1
  <2>3. CASE j # (n - k) + 1
    <3>1. j \in 1..(n - k) /\ k + j \in 1..n
      BY <1>1, <2>1, <2>3
    <3> QED BY <1>2, <1>3, <1>4, <1>5, <2>1, <3>1
  <2> QED BY <2>2, <2>3
<1>7. Len(v) = Len(Append(u, l))
  BY <1>1, <1>4, <1>5
<1>8. v = Append(u, l)
  BY <1>4, <1>5, <1>6, <1>7, SeqEqual
<1>9. KindAt(y, k) = KindAt(x, k)
  <2>1. CASE k = 0
    BY <2>1 DEF KindAt
  <2>2. CASE k # 0
    <3>1. k \in 1..n
      BY <1>1, <2>2
    <3> QED BY <1>2, <2>2, <3>1 DEF KindAt
  <2> QED BY <2>1, <2>2
<1>10. k \in 0..Len(y)
  BY <1>1, <1>2
<1> QED BY <1>2, <1>8, <1>9, <1>10 DEF y, u, v, n

\* Nothing follows an unterminated quote.
LEMMA QuoteStays ==
  ASSUME NEW x \in Seq(Lexeme), NEW last, QuoteEnds(x, last), last # "OPENQUOTE", NEW l \in Lexeme
  PROVE  QuoteEnds(Append(x, l), l.kind)
<1> DEFINE n == Len(x)
           y == Append(x, l)
<1>1. n \in Nat /\ Len(y) = n + 1 /\ y[n + 1] = l /\ \A j \in 1..n : y[j] = x[j]
  OBVIOUS
<1>2. \A j \in 1..n : x[j].kind # "OPENQUOTE"
  BY DEF QuoteEnds
<1> HIDE DEF y, n
<1>3. ASSUME NEW i \in 1..Len(y), y[i].kind = "OPENQUOTE"
      PROVE  i = Len(y) /\ l.kind = "OPENQUOTE"
  <2>1. i \notin 1..n
    BY <1>1, <1>2, <1>3
  <2>2. i = n + 1
    BY <1>1, <2>1
  <2> QED BY <1>1, <1>3, <2>2
<1> QED BY <1>3 DEF QuoteEnds, y

\* More text is read on in, or the text is over.
LEMMA MoreTextRecalls ==
  ASSUME ~parser.starved, ~parser.scanner.text_ended, Recalls(parser, parser), MoreText
  PROVE  Recalls(parser', parser')
<1> DEFINE s == parser.scanner
<1>1. /\ CacheFields \subseteq DOMAIN parser /\ s \in ScannerState /\ parser.current \in Token
      /\ s.buf \in Seq(Lexeme) /\ ~s.text_ended
  BY DEF Recalls, ScannerState
<1>2. ASSUME NEW t, parser' = [parser EXCEPT !.scanner = t]
      PROVE  /\ CacheFields \subseteq DOMAIN parser' /\ parser'.scanner = t
             /\ parser'.current = parser.current /\ parser'.have_token = parser.have_token
             /\ parser'.fk = parser.fk /\ parser'.scan_error = parser.scan_error
             /\ parser'.starved = parser.starved
  BY <1>1, <1>2 DEF CacheFields
<1>3. CASE \E l \in Lexemes : MayFollow(s, l) /\ parser' = [parser EXCEPT !.scanner = AppendLexeme(s, l)]
  <2>1. PICK l \in Lexemes :
          MayFollow(s, l) /\ parser' = [parser EXCEPT !.scanner = AppendLexeme(s, l)]
    BY <1>3
  <2>2. l \in Lexeme
    BY KindsAssumption, ColumnsAssumption DEF Lexemes, Lexeme
  <2> DEFINE t == AppendLexeme(s, l)
  <2>3. /\ t \in ScannerState
        /\ t.buf = Append(s.buf, l) /\ t.last = l.kind /\ t.pos = s.pos
        /\ t.text_ended = FALSE
    <3>1. t \in ScannerState
      BY <1>1, AppendLexemeType
    <3> QED BY <1>1, <3>1 DEF AppendLexeme, ScannerState
  <2>4. s.last # "OPENQUOTE"
    BY <2>1 DEF MayFollow
  <2> HIDE DEF t, s
  <2>5. /\ CacheFields \subseteq DOMAIN parser' /\ parser'.scanner = t
        /\ parser'.current = parser.current /\ parser'.have_token = parser.have_token
        /\ parser'.fk = parser.fk /\ parser'.scan_error = parser.scan_error
        /\ parser'.starved = parser.starved
    BY <1>2, <2>1 DEF t
  <2>6. ASSUME ~parser'.scan_error, ~parser'.starved
        PROVE  /\ QuoteEnds(parser'.scanner.buf, parser'.scanner.last)
               /\ BracketRead(parser') /\ CacheKnown(parser')
    <3>1. QuoteEnds(s.buf, s.last) /\ BracketRead(parser) /\ CacheKnown(parser)
      BY <2>5, <2>6 DEF Recalls, s
    <3>2. QuoteEnds(t.buf, t.last)
      BY <1>1, <2>2, <2>3, <2>4, <3>1, QuoteStays
    <3>3. BracketRead(parser')
      BY <2>3, <2>5, <3>1 DEF BracketRead, Tok, s
    <3>4. ASSUME NEW x \in Seq(Lexeme), NEW lo \in Nat, NEW m \in 0..Len(x), NEW k \in 0..Len(x),
                 ReadFrom(parser, x, lo, m, k)
          PROVE  \E y \in Seq(Lexeme) : \E i \in 0..Len(y), j \in 0..Len(y) :
                   ReadFrom(parser', y, lo, i, j)
      <4> DEFINE y == Append(x, l)
      <4>1. /\ parser.fk = FkScan([buf |-> SubSeq(x, 1, m)], lo)
            /\ Settled(x, m, FALSE) /\ QuoteEnds(x, s.last)
            /\ s.pos = lo + k + 1 /\ s.buf = SubSeq(x, k + 1, Len(x))
            /\ parser.have_token /\ Tok(parser) \in FlowStarts => KindAt(x, k) \in Openers
        <5>1. s.text_ended = FALSE
          BY <1>1 DEF ScannerState
        <5> QED BY <3>4, <5>1 DEF ReadFrom, s
      <4>2. /\ y \in Seq(Lexeme) /\ k \in 0..Len(y)
            /\ SubSeq(y, k + 1, Len(y)) = Append(SubSeq(x, k + 1, Len(x)), l)
            /\ KindAt(y, k) = KindAt(x, k)
        BY <2>2, <3>4, RestGrows
      <4>3. m \in 0..Len(y)
        BY <2>2, <3>4, RestGrows
      <4>4. Settled(y, m, FALSE) /\ SubSeq(y, 1, m) = SubSeq(x, 1, m)
        BY <2>2, <3>4, <4>1, SettledStays
      <4>5. QuoteEnds(y, l.kind)
        BY <2>2, <2>4, <3>4, <4>1, QuoteStays
      <4> HIDE DEF y
      <4>6. ReadFrom(parser', y, lo, m, k)
        BY <2>3, <2>5, <4>1, <4>2, <4>4, <4>5 DEF ReadFrom, Tok
      <4> QED BY <4>2, <4>3, <4>6
    <3>5. CacheKnown(parser')
      BY <2>5, <3>1, <3>4 DEF CacheKnown
    <3> QED BY <2>5, <3>2, <3>3, <3>5
  <2>7. parser'.scanner.text_ended = FALSE /\ parser'.scanner \in ScannerState
        /\ parser'.current \in Token
    BY <1>1, <2>3, <2>5
  <2> QED BY <2>5, <2>6, <2>7 DEF Recalls, Marked
<1>4. CASE parser' = [parser EXCEPT !.scanner = EndText(s)]
  <2> DEFINE t == EndText(s)
  <2>1. /\ t \in ScannerState /\ t.buf = s.buf /\ t.last = s.last /\ t.pos = s.pos
        /\ t.text_ended = TRUE
    <3>1. t \in ScannerState
      BY <1>1, EndTextType
    <3> QED BY <1>1, <3>1 DEF EndText, ScannerState
  <2> HIDE DEF t, s
  <2>2. /\ CacheFields \subseteq DOMAIN parser' /\ parser'.scanner = t
        /\ parser'.current = parser.current /\ parser'.have_token = parser.have_token
        /\ parser'.fk = parser.fk /\ parser'.scan_error = parser.scan_error
        /\ parser'.starved = parser.starved
    BY <1>2, <1>4 DEF t
  <2>3. ASSUME ~parser'.scan_error, ~parser'.starved
        PROVE  /\ QuoteEnds(parser'.scanner.buf, parser'.scanner.last)
               /\ BracketRead(parser') /\ CacheKnown(parser')
    <3>1. QuoteEnds(s.buf, s.last) /\ BracketRead(parser) /\ CacheKnown(parser)
      BY <2>2, <2>3 DEF Recalls, s
    <3>2. BracketRead(parser')
      BY <2>1, <2>2, <3>1 DEF BracketRead, Tok, s
    <3>3. ASSUME NEW x \in Seq(Lexeme), NEW lo, NEW m \in 0..Len(x), NEW k,
                 ReadFrom(parser, x, lo, m, k)
          PROVE  ReadFrom(parser', x, lo, m, k)
      <4>1. Settled(x, m, FALSE) => Settled(x, m, TRUE)
        BY DEF Settled
      <4>2. s.text_ended = FALSE
        BY <1>1 DEF ScannerState
      <4> QED BY <2>1, <2>2, <3>3, <4>1, <4>2 DEF ReadFrom, Tok, s
    <3>4. CacheKnown(parser')
      BY <2>2, <3>1, <3>3 DEF CacheKnown
    <3> QED BY <2>1, <2>2, <3>1, <3>2, <3>4
  <2>4. parser'.scanner.text_ended = TRUE /\ parser'.scanner \in ScannerState
        /\ parser'.current \in Token
    BY <1>1, <2>1, <2>2
  <2> QED BY <2>2, <2>3, <2>4 DEF Recalls, Marked
<1> QED BY <1>3, <1>4 DEF MoreText

\* The end of a step leaves the cache as the handler did.
LEMMA FinishRecalls ==
  ASSUME ~parser.starved, Recalls(parser, parser),
         NEW q, Recalls(q, parser), Finish(q)
  PROVE  Recalls(parser', parser')
<1> DEFINE kept == KeepEvents(q)
           last == [kept EXCEPT !.status = "OK"]
<1>1. CASE q.starved
  <2>1. ~parser.scanner.text_ended
    BY <1>1 DEF Recalls
  <2>2. MoreText
    BY <1>1 DEF Finish
  <2> QED BY <2>1, <2>2, MoreTextRecalls
<1>2. CASE ~q.starved
  <2>1. parser' = last
    BY <1>2 DEF Finish
  <2>2. CacheFields \subseteq DOMAIN q /\ q.scanner.text_ended = parser.scanner.text_ended
    BY DEF Recalls
  <2>3. SameCache(kept, q)
    BY <2>2 DEF KeepEvents, SameCache, SameText, CacheFields
  <2> HIDE DEF kept
  <2>4. SameCache(last, kept)
    BY <2>2, <2>3 DEF SameCache, SameText, CacheFields
  <2>5. SameCache(last, q)
    <3> HIDE DEF last
    <3> QED BY <2>3, <2>4 DEF SameCache, SameText
  <2> HIDE DEF last
  <2>6. Recalls(last, parser)
    BY <2>5, SameRecalls
  <2>7. SameText(last, last) /\ last.scanner.text_ended = parser.scanner.text_ended
    BY <2>6 DEF SameText, Recalls
  <2>8. Marked(last, last)
    BY DEF Marked
  <2>9. Recalls(last, last)
    BY <2>6, <2>7, <2>8, TextRecalls
  <2> QED BY <2>1, <2>9
<1> QED BY <1>1, <1>2

\* A step ends with a record that remembers.
StepEnds == Stepping(parser.state) /\ \E q : Recalls(q, parser) /\ Finish(q)

\* One step of a state: its handler remembers.
LEMMA StepRecalls ==
  ASSUME CacheInv, NEW s, Stepping(s), NEW q,
         Recalls(parser, parser) /\ parser.state = s => Recalls(q, parser),
         Finish(q)
  PROVE  StepEnds
BY DEF CacheInv, Stepping, StepEnds

\* Every step of the stream's and the documents' states.
LEMMA DocumentStepRecalls ==
  ASSUME CacheInv, DocumentStep
  PROVE  StepEnds
<1>1. CASE DoStreamStart
  BY <1>1, StepRecalls, DocumentsRecall DEF DoStreamStart
<1>2. CASE DoStreamDocLoop
  BY <1>2, StepRecalls, DocumentsRecall DEF DoStreamDocLoop
<1>3. CASE DoStreamEnd
  BY <1>3, StepRecalls, DocumentsRecall DEF DoStreamEnd
<1>4. CASE DoDocDirectives
  BY <1>4, StepRecalls, DocumentsRecall DEF DoDocDirectives
<1>5. CASE DoDocStartExplicit
  BY <1>5, StepRecalls, DocumentsRecall DEF DoDocStartExplicit
<1>6. CASE DoDocStartImplicit
  BY <1>6, StepRecalls, DocumentsRecall DEF DoDocStartImplicit
<1>7. CASE DoDocContent
  BY <1>7, StepRecalls, DocumentsRecall DEF DoDocContent
<1>8. CASE DoDocEndExplicit
  BY <1>8, StepRecalls, DocumentsRecall DEF DoDocEndExplicit
<1> QED BY <1>1, <1>2, <1>3, <1>4, <1>5, <1>6, <1>7, <1>8 DEF DocumentStep

\* Every step of the block states.
LEMMA BlockStepRecalls ==
  ASSUME CacheInv, BlockStep
  PROVE  StepEnds
<1>1. CASE DoBlockNode
  BY <1>1, StepRecalls, NodesRecall DEF DoBlockNode
<1>2. CASE DoBlockNodeScalar
  BY <1>2, StepRecalls, NodesRecall DEF DoBlockNodeScalar
<1>3. CASE DoBlockNodeScalarKey
  BY <1>3, StepRecalls, NodesRecall DEF DoBlockNodeScalarKey
<1>4. CASE DoBlockNodeAlias
  BY <1>4, StepRecalls, NodesRecall DEF DoBlockNodeAlias
<1>5. CASE DoBlockNodeAliasKey
  BY <1>5, StepRecalls, NodesRecall DEF DoBlockNodeAliasKey
<1>6. CASE DoBlockNodeSeq
  BY <1>6, StepRecalls, NodesRecall DEF DoBlockNodeSeq
<1>7. CASE DoBlockNodeExplicitKey
  BY <1>7, StepRecalls, NodesRecall DEF DoBlockNodeExplicitKey
<1>8. CASE DoBlockNodeBareValue
  BY <1>8, StepRecalls, NodesRecall DEF DoBlockNodeBareValue
<1>9. CASE DoBlockMapLoop
  BY <1>9, StepRecalls, BlockRecalls DEF DoBlockMapLoop
<1>10. CASE DoBlockMapExplicitKey
  BY <1>10, StepRecalls, BlockRecalls DEF DoBlockMapExplicitKey
<1>11. CASE DoBlockMapSimpleKey
  BY <1>11, StepRecalls, BlockRecalls DEF DoBlockMapSimpleKey
<1>12. CASE DoBlockMapPostKey
  BY <1>12, StepRecalls, BlockRecalls DEF DoBlockMapPostKey
<1>13. CASE DoBlockMapValue
  BY <1>13, StepRecalls, BlockRecalls DEF DoBlockMapValue
<1>14. CASE DoBlockMapEnd
  BY <1>14, StepRecalls, BlockRecalls DEF DoBlockMapEnd
<1>15. CASE DoBlockSeqLoop
  BY <1>15, StepRecalls, BlockRecalls DEF DoBlockSeqLoop
<1>16. CASE DoBlockSeqEntry
  BY <1>16, StepRecalls, BlockRecalls DEF DoBlockSeqEntry
<1>17. CASE DoBlockSeqEnd
  BY <1>17, StepRecalls, BlockRecalls DEF DoBlockSeqEnd
<1> QED BY <1>1, <1>2, <1>3, <1>4, <1>5, <1>6, <1>7, <1>8, <1>9, <1>10, <1>11, <1>12,
           <1>13, <1>14, <1>15, <1>16, <1>17
        DEF BlockStep

\* Every step of the flow states.
LEMMA FlowStepRecalls ==
  ASSUME CacheInv, FlowStep
  PROVE  StepEnds
<1>1. CASE DoFlowNode
  BY <1>1, StepRecalls, FlowNodesRecall DEF DoFlowNode
<1>2. CASE DoFlowMapLoop
  BY <1>2, StepRecalls, FlowNodesRecall DEF DoFlowMapLoop
<1>3. CASE DoFlowMapValue
  BY <1>3, StepRecalls, FlowNodesRecall DEF DoFlowMapValue
<1>4. CASE DoFlowMapSep
  BY <1>4, StepRecalls, FlowNodesRecall DEF DoFlowMapSep
<1>5. CASE DoFlowMapEnd
  BY <1>5, StepRecalls, FlowNodesRecall DEF DoFlowMapEnd
<1>6. CASE DoFlowSeqLoop
  BY <1>6, StepRecalls, FlowSeqsRecall DEF DoFlowSeqLoop
<1>7. CASE DoFlowSeqEntryKey
  BY <1>7, StepRecalls, FlowSeqsRecall DEF DoFlowSeqEntryKey
<1>8. CASE DoFlowSeqImplicitEnd
  BY <1>8, StepRecalls, FlowSeqsRecall DEF DoFlowSeqImplicitEnd
<1>9. CASE DoFlowSeqExplicitKey
  BY <1>9, StepRecalls, FlowSeqsRecall DEF DoFlowSeqExplicitKey
<1>10. CASE DoFlowSeqExplicitValue
  BY <1>10, StepRecalls, FlowSeqsRecall DEF DoFlowSeqExplicitValue
<1>11. CASE DoFlowSeqExplicitEnd
  BY <1>11, StepRecalls, FlowSeqsRecall DEF DoFlowSeqExplicitEnd
<1>12. CASE DoFlowSeqSep
  BY <1>12, StepRecalls, FlowSeqsRecall DEF DoFlowSeqSep
<1>13. CASE DoFlowSeqEnd
  BY <1>13, StepRecalls, FlowNodesRecall DEF DoFlowSeqEnd
<1> QED BY <1>1, <1>2, <1>3, <1>4, <1>5, <1>6, <1>7, <1>8, <1>9, <1>10, <1>11, <1>12,
           <1>13
        DEF FlowStep

\* So the parser does.
LEMMA StepKeepsCache ==
  ASSUME Inv, CacheInv, DocumentStep \/ BlockStep \/ FlowStep
  PROVE  CacheInv'
<1>1. StepEnds
  BY DocumentStepRecalls, BlockStepRecalls, FlowStepRecalls
<1>2. ~parser.starved
  BY DEF Inv, Kept
<1>3. PICK q : Recalls(q, parser) /\ Finish(q)
  BY <1>1 DEF StepEnds
<1>4. Recalls(parser, parser)
  BY <1>1 DEF CacheInv, StepEnds, Stepping
<1>5. Recalls(parser', parser')
  BY <1>2, <1>3, <1>4, FinishRecalls
<1> QED BY <1>5 DEF CacheInv

\* And no step delivers an event, falls back, or moves the checkpoint but
\* between two documents.
LEMMA StepDeliversNothing ==
  ASSUME Inv, CacheInv, DocumentStep \/ BlockStep \/ FlowStep
  PROVE  /\ parser'.events_delivered = parser.events_delivered
         /\ parser'.incremental = parser.incremental
         /\ Marked(parser', parser)
<1>1. PICK q : Recalls(q, parser) /\ Finish(q)
  BY DocumentStepRecalls, BlockStepRecalls, FlowStepRecalls DEF StepEnds
<1>2. CASE q.starved
  <2>1. parser \in ParserRecord /\ MoreText
    BY <1>1, <1>2 DEF Inv, Kept, Finish
  <2> QED BY <2>1 DEF MoreText, ParserRecord, Marked
<1>3. CASE ~q.starved
  <2>1. /\ CacheFields \subseteq DOMAIN q /\ q.events_delivered = parser.events_delivered
        /\ q.incremental = parser.incremental /\ Marked(q, parser)
    BY <1>1 DEF Recalls
  <2>2. parser' = [KeepEvents(q) EXCEPT !.status = "OK"]
    BY <1>1, <1>3 DEF Finish
  <2>3. KeepEvents(q).events_delivered = q.events_delivered
        /\ KeepEvents(q).incremental = q.incremental /\ KeepEvents(q).ckpt = q.ckpt
    BY <2>1 DEF KeepEvents, CacheFields
  <2>4. {"events_delivered", "incremental", "ckpt"} \subseteq DOMAIN KeepEvents(q)
    BY <2>1 DEF KeepEvents, CacheFields
  <2>5. parser'.ckpt = q.ckpt /\ parser'.events_delivered = q.events_delivered
        /\ parser'.incremental = q.incremental
    BY <2>2, <2>3, <2>4
  <2> QED BY <2>1, <2>5 DEF Marked
<1> QED BY <1>2, <1>3

\* Delivering an event is none of the cache's concern.
LEMMA DeliverRecalls ==
  ASSUME CacheInv, Deliver
  PROVE  CacheInv'
<1>1. Recalls(parser, parser)
  BY DEF CacheInv, Deliver
<1>2. CacheFields \subseteq DOMAIN parser
  BY <1>1 DEF Recalls
<1>3. SameText(parser', parser)
  BY <1>2 DEF Deliver, SameText, CacheFields
<1>4. parser'.scanner.text_ended = parser.scanner.text_ended
  BY <1>3 DEF SameText
<1>5. Marked(parser', parser')
  BY DEF Marked
<1>6. Recalls(parser', parser')
  BY <1>1, <1>3, <1>4, <1>5, TextRecalls
<1> QED BY <1>6 DEF CacheInv

\* No step forgets where the cache is from.
LEMMA NextRecalls ==
  ASSUME StreamInv, CacheInv, [Next]_vars
  PROVE  CacheInv'
<1>1. CASE Deliver
  BY <1>1, DeliverRecalls
<1>2. CASE Call \/ ReturnNone \/ ReturnScanError \/ ReturnStopped \/ EagerParser
           \/ UNCHANGED vars
  <2>1. parser' = parser
    BY <1>2
       DEF Call, ReturnNone, ReturnScanError, ReturnStopped, Return, EagerParser, vars
  <2> QED BY <2>1 DEF CacheInv
<1>3. CASE FallBack
  <2>1. parser \in ParserRecord
    BY DEF StreamInv, Inv, Kept
  <2>2. ~parser'.incremental
    BY <1>3, <2>1 DEF FallBack, ParserRecord
  <2> QED BY <2>2 DEF CacheInv
<1>4. CASE DocumentStep \/ BlockStep \/ FlowStep
  BY <1>4, StepKeepsCache DEF StreamInv
<1> QED BY <1>1, <1>2, <1>3, <1>4 DEF Next, Work

-----------------------------------------------------------------------------
(***************************************************************************)
(* The theorems.                                                           *)
(***************************************************************************)

\* oyl.h's "well-formed stream of events" (WellFormed): for every text, every
\* limit and every error the caller goes on after, what the parser delivers is
\* the start of a stream EventStream allows; each delivery is one of its steps
\* and every other step leaves it alone.
THEOREM StreamWellFormed == Spec => WellFormed
<1>1. Init => Grammar!Init
  BY DEF Init, Grammar!Init
<1>2. StreamInv /\ [Next]_vars => [Grammar!Next]_open
  BY NextOnWay
<1> QED BY <1>1, <1>2, StreamInvariance, PTL DEF Spec, WellFormed, Grammar!Spec

\* The frames, the state and the return state always tell what is open in the
\* events produced: none is forgotten, dropped, repeated or closed twice
\* (FramesMatchEvents).
THEOREM FramesFollow == Spec => []FramesMatchEvents
<1>1. StreamInv => FramesMatchEvents
  <2> SUFFICES ASSUME StreamInv, Sound(parser),
                      parser.state \notin {"EAGER_DRAIN", "STREAM_START", "DONE"}
               PROVE  Produced(parser) = Levels(parser.frames) \o OpenAt(parser)
    BY DEF FramesMatchEvents
  <2>1. parser.out_buf \in Seq(Stream!Event)
    BY DEF StreamInv, Inv, Kept, ParserRecord
  <2>2. Path(open, parser.out_buf, Expected(parser))
    BY DEF StreamInv, OnWay, AwayStates
  <2>3. AfterAll(open, parser.out_buf) = Expected(parser)
    BY <2>1, <2>2, PathAfter
  <2> QED BY <2>3 DEF Produced, Expected
<1> QED BY <1>1, StreamInvariance, PTL

\* Between documents nothing of the last one is left, so the code that would
\* close one there has nothing to do and a checkpoint is of a clean parser
\* (CleanBetweenDocuments).
THEOREM DocumentsSeparate == Spec => []CleanBetweenDocuments
<1>1. StreamInv => CleanBetweenDocuments
  <2> SUFFICES ASSUME StreamInv, Sound(parser), parser.state \in BetweenDocuments
               PROVE  /\ parser.frames = <<>> /\ ~parser.doc_open
                      /\ ~parser.has_anchor /\ ~parser.has_tag
                      /\ Produced(parser) = <<"STREAM">>
    BY DEF CleanBetweenDocuments
  <2>1. parser.state \in RootStates /\ parser.state \notin NodeStates
        /\ parser.state \notin AwayStates /\ parser.state # "STREAM_START"
        /\ parser.state \notin {"FLOW_SEQ_LOOP", "FLOW_NODE", "EAGER_DRAIN"}
    BY DEF BetweenDocuments, RootStates, NodeStates, AwayStates
  <2>2. parser.frames = <<>> /\ ~parser.doc_open /\ Bare(parser)
    BY <2>1 DEF StreamInv, OnWay, Placed, StatePlaced, PropsPlaced
  <2>3. Levels(parser.frames) = <<"STREAM">> /\ OpenAt(parser) = <<>>
    BY <2>1, <2>2, LevelsEmpty, RootLevels DEF OpenAt
  <2>4. Expected(parser) = <<"STREAM">>
    BY <2>1, <2>3 DEF Expected
  <2>5. parser.out_buf \in Seq(Stream!Event)
    BY DEF StreamInv, Inv, Kept, ParserRecord
  <2>6. Path(open, parser.out_buf, Expected(parser))
    BY <2>1 DEF StreamInv, OnWay
  <2>7. AfterAll(open, parser.out_buf) = Expected(parser)
    BY <2>5, <2>6, PathAfter
  <2> QED BY <2>2, <2>4, <2>7 DEF Produced, Bare
<1> QED BY <1>1, StreamInvariance, PTL

\* An anchor or a tag read and not yet attached waits in front of its node in a
\* flow collection, or the fallback will read it again
\* (PropertiesReachTheirNode).
THEOREM PropertiesAttach == Spec => []PropertiesReachTheirNode
<1>1. StreamInv => PropertiesReachTheirNode
  BY DEF StreamInv, OnWay, Placed, PropsPlaced, Bare, PropertiesReachTheirNode
<1> QED BY <1>1, StreamInvariance, PTL

\* Levels there is room for nest at most twice as deep as the limit: the first
\* two are the stream's and the document's.
LEMMA RoomNesting ==
  ASSUME NEW levels \in Room, MaxDepth > 0
  PROVE  Stream!Nesting(levels) <= 2 * MaxDepth
<1> DEFINE n == Len(levels)
           collections == {i \in 1..n : levels[i] \in {"SEQ", "KEY", "VALUE"}}
           above == 3..n
<1>1. /\ n \in Nat /\ n > 0 /\ n <= 2 * MaxDepth + 2
      /\ levels[1] \in {"BEGIN", "STREAM", "END"}
      /\ n >= 2 => levels[2] \in {"DOC", "DOC_DONE"}
  BY DEF Room
<1>2. collections \subseteq above
  <2> SUFFICES ASSUME NEW i \in 1..n, levels[i] \in {"SEQ", "KEY", "VALUE"}
               PROVE  i \in 3..n
    OBVIOUS
  <2>1. i # 1
    BY <1>1
  <2>2. i # 2
    BY <1>1
  <2> QED BY <1>1, <2>1, <2>2
<1>3. IsFiniteSet(above) /\ Cardinality(above) = IF 3 > n THEN 0 ELSE n - 3 + 1
  BY <1>1, FS_Interval
<1>4. Cardinality(above) <= 2 * MaxDepth
  <2> HIDE DEF above, n
  <2> QED BY <1>1, <1>3, LimitsAssumption
<1>5. Cardinality(collections) <= Cardinality(above)
  <2> HIDE DEF collections, above
  <2> QED BY <1>2, <1>3, FS_Subset
<1>6. Cardinality(collections) \in Nat
  <2> HIDE DEF collections, above
  <2> QED BY <1>2, <1>3, FS_Subset, FS_CardinalityType
<1>7. Cardinality(collections) <= 2 * MaxDepth
  <2>1. Cardinality(above) \in Nat
    BY <1>3, FS_CardinalityType
  <2> HIDE DEF collections, above
  <2> QED BY <1>4, <1>5, <1>6, <2>1, LimitsAssumption
<1>8. Stream!Cardinality(collections) = Cardinality(collections)
  <2> HIDE DEF collections
  <2> QED BY DEF Stream!Cardinality, Cardinality
<1> QED BY <1>7, <1>8 DEF Stream!Nesting

\* oyl_parser_set_max_depth counts frames; so the collections open in the
\* events delivered nest at most twice as deep (NestingBound).
THEOREM NestingBounded == Spec => []NestingBound
<1>1. StreamInv => NestingBound
  <2> SUFFICES ASSUME StreamInv, MaxDepth > 0
               PROVE  Stream!Nesting(open) <= 2 * MaxDepth
    BY DEF NestingBound
  <2>1. parser.out_buf \in Seq(Stream!Event)
    BY DEF StreamInv, Inv, Kept, ParserRecord
  <2>2. open \in Room
    BY <2>1, PathEnds DEF StreamInv, OnWay
  <2> QED BY <2>2, RoomNesting
<1> QED BY <1>1, StreamInvariance, PTL

\* A call returns OYL_ERR_LIMIT only when as many events as allowed are
\* delivered, or as many frames as allowed are open (LimitsAreReached).
THEOREM LimitsMeant == Spec => []LimitsAreReached
<1>1. StreamInv => LimitsAreReached
  <2> SUFFICES ASSUME StreamInv, result = "ERR_LIMIT"
               PROVE  \/ MaxEvents > 0 /\ parser.events_delivered = MaxEvents
                      \/ MaxDepth > 0 /\ Len(parser.frames) = MaxDepth
    BY DEF LimitsAreReached
  <2>1. Reached(parser) /\ parser.out_buf = <<>>
    BY DEF StreamInv, LimitReturned, OnWay
  <2>2. /\ parser.events_delivered \in Nat /\ Len(parser.frames) \in Nat
        /\ MaxEvents \in Nat /\ MaxDepth \in Nat
    BY LimitsAssumption DEF StreamInv, Inv, Kept, ParserRecord
  <2>3. Len(parser.out_buf) = 0
    BY <2>1
  <2> QED BY <2>1, <2>2, <2>3 DEF Reached, AtEventLimit, StreamInv, Inv, Kept, Limits
<1> QED BY <1>1, StreamInvariance, PTL

\* The scanner's count of brackets, on which it depends whether a ':' or a '-'
\* is read as in flow or in block context, is the parser's stack of flow frames
\* up to the lookahead token, in every state of the stepped parser and until an
\* error (ScannerFollowsFrames).
THEOREM ScannerFollows == Spec => []ScannerFollowsFrames
<1>1. Init => StreamInv /\ Aligned(parser)
  BY InitOnWay, InitAligned
<1>2. (StreamInv /\ Aligned(parser)) /\ [Next]_vars => (StreamInv /\ Aligned(parser))'
  BY NextOnWay, NextAligned
<1>3. StreamInv /\ Aligned(parser) => ScannerFollowsFrames
  <2> SUFFICES ASSUME StreamInv, Aligned(parser) PROVE ScannerFollowsFrames
    OBVIOUS
  <2>1. ~parser.starved
    BY DEF StreamInv, Inv, Kept
  <2> QED BY <2>1 DEF Aligned, Calm, Even, ScannerFollowsFrames
<1> QED BY <1>1, <1>2, <1>3, PTL DEF Spec

\* The lookahead cache, wherever the scanner has read on to in it, answers as a
\* lookahead made there would, unless it is ambiguous, when every collection is
\* left to the eager parser (FlowKeyCacheAgrees).  So a collection inside one
\* that was looked ahead of is not read again, and nothing is lost by that.
THEOREM CacheAnswersAlike == Spec => []FlowKeyCacheAgrees
<1>1. Init => StreamInv /\ CacheInv
  BY InitOnWay, InitRecalls
<1>2. (StreamInv /\ CacheInv) /\ [Next]_vars => (StreamInv /\ CacheInv)'
  BY NextOnWay, NextRecalls
<1>3. StreamInv /\ CacheInv => FlowKeyCacheAgrees
  <2> DEFINE offset == parser.current.pos
             fresh == FkScan(parser.scanner, offset)
  <2> SUFFICES ASSUME StreamInv, CacheInv, Sound(parser), parser.have_token,
                      Tok(parser) \in FlowStarts, FkCovers(parser.fk, offset)
               PROVE  \/ FkIsKey(parser.fk, offset) = FkIsKey(fresh, offset)
                      \/ parser.fk.ambiguous
    BY DEF FlowKeyCacheAgrees
  <2>1. ~parser.starved /\ parser.current.pos \in Nat
    BY DEF StreamInv, Inv, Kept, ParserRecord, Token
  <2>2. BracketRead(parser) /\ CacheKnown(parser)
    BY <2>1 DEF CacheInv, Sound, Recalls
  <2>3. parser.fk.valid
    BY DEF FkCovers
  <2>4. PICK x \in Seq(Lexeme), lo \in Nat :
          \E m \in 0..Len(x), k \in 0..Len(x) : ReadFrom(parser, x, lo, m, k)
    BY <2>2, <2>3 DEF CacheKnown
  <2>5. PICK m \in 0..Len(x), k \in 0..Len(x) : ReadFrom(parser, x, lo, m, k)
    BY <2>4
  <2> DEFINE t == [buf |-> SubSeq(x, 1, m)]
  <2>6. /\ parser.fk = FkScan(t, lo) /\ t.buf = SubSeq(x, 1, m)
        /\ Settled(x, m, parser.scanner.text_ended)
        /\ parser.scanner.pos = lo + k + 1
        /\ parser.scanner.buf = SubSeq(x, k + 1, Len(x))
        /\ KindAt(x, k) \in Openers
    BY <2>5 DEF ReadFrom
  <2>7. QuoteLast(x)
    BY <2>5 DEF ReadFrom, QuoteEnds, QuoteLast
  <2>8. offset = lo + k
    <3>1. parser.scanner.pos = parser.current.pos + 1
      BY <2>2 DEF BracketRead
    <3>2. k \in Nat
      OBVIOUS
    <3> QED BY <2>1, <2>6, <3>1, <3>2
  <2> HIDE DEF t
  <2>9. LET fk == FkScan(t, lo)
        IN  fk.ambiguous
              \/ FkIsKey(fk, lo + k) = FkIsKey(FkScan(parser.scanner, lo + k), lo + k)
    <3> DEFINE s == parser.scanner
               ended == s.text_ended
    <3>1. FkCovers(FkScan(t, lo), lo + k)
      BY <2>6, <2>8
    <3>2. Settled(x, m, ended) /\ s.buf = SubSeq(x, k + 1, Len(x))
      BY <2>6
    <3> HIDE DEF s, ended
    <3>3. LET fk == FkScan(t, lo)
          IN  fk.ambiguous \/ FkIsKey(fk, lo + k) = FkIsKey(FkScan(s, lo + k), lo + k)
      BY <2>6, <2>7, <3>1, <3>2, CacheAnswers
    <3> QED BY <3>3 DEF s
  <2> QED BY <2>6, <2>8, <2>9
<1> QED BY <1>1, <1>2, <1>3, PTL DEF Spec

-----------------------------------------------------------------------------
(***************************************************************************)
(* The end of the stream: no step but its own comes to the state DONE.     *)
(***************************************************************************)

Unfinished == State \ {"DONE"}

\* The step has not come to the end of the stream.
Goes(q) == Good(q) /\ q.state \in Unfinished

\* The states a step may go on to.
LEMMA UnfinishedStates == OtherStates \ {"DONE"} \subseteq Unfinished /\ ReturnState \subseteq Unfinished
BY DEF Unfinished, OtherStates, ReturnState, State, BlockStates, FlowStates

\* Going to one of them.
LEMMA GotoGoes ==
  ASSUME NEW q, Good(q), NEW state \in Unfinished
  PROVE  Goes(Goto(q, state))
<1>1. state \in State
  BY DEF Unfinished
<1>2. Good(Goto(q, state)) /\ Goto(q, state).state = state
  BY <1>1, GotoFields
<1> QED BY <1>2 DEF Goes

\* Going on to a node.
LEMMA GotoNodeGoes ==
  ASSUME NEW q, Good(q), NEW state \in Unfinished, NEW node_return \in ReturnState
  PROVE  Goes(GotoNode(q, state, node_return))
<1>1. state \in State
  BY DEF Unfinished
<1>2. Good(GotoNode(q, state, node_return)) /\ GotoNode(q, state, node_return).state = state
  BY <1>1, GotoNodeFields
<1> QED BY <1>2 DEF Goes

\* What leaves the state alone.
LEMMA StillGoes ==
  ASSUME NEW q, Goes(q)
  PROVE  /\ Goes(Peek(q)) /\ Goes(Consume(q)) /\ Goes(AttachProps(q)) /\ Goes(ParseError(q))
         /\ Goes(ConsumeProps(q))
         /\ \A e \in Stream!Event : Goes(Emit(q, e))
<1>1. Good(q) /\ q.state \in Unfinished
  BY DEF Goes
<1>2. Goes(Peek(q))
  BY <1>1, PeekGood, PeekState DEF Goes
<1>3. Goes(Consume(q))
  <2>1. Good(Consume(q))
    BY <1>1, ConsumeGood
  <2>2. Consume(q).state = q.state
    BY <1>1 DEF Consume, Good, ParserRecord
  <2> QED BY <1>1, <2>1, <2>2 DEF Goes
<1>4. Goes(AttachProps(q))
  <2>1. Good(AttachProps(q))
    BY <1>1, AttachPropsGood
  <2>2. AttachProps(q).state = q.state
    BY <1>1 DEF AttachProps, Good, ParserRecord
  <2> QED BY <1>1, <2>1, <2>2 DEF Goes
<1>5. Goes(ParseError(q))
  <2>1. Good(ParseError(q))
    BY <1>1, ParseErrorGood
  <2>2. ParseError(q).state = q.state
    BY <1>1 DEF ParseError, Good, ParserRecord
  <2> QED BY <1>1, <2>1, <2>2 DEF Goes
<1>6. Goes(ConsumeProps(q))
  BY <1>1, ConsumePropsQuiet DEF Goes, Quiet
<1>7. ASSUME NEW e \in Stream!Event PROVE Goes(Emit(q, e))
  BY <1>1, <1>7, EmitGood, EmitState DEF Goes
<1> QED BY <1>2, <1>3, <1>4, <1>5, <1>6, <1>7

\* A frame that is popped says where to go on; without one the stream is over.
LEMMA PopFrameGoes ==
  ASSUME NEW q, Good(q), q.frames # <<>>
  PROVE  Goes(PopFrame(q))
<1> DEFINE n == Len(q.frames)
<1>1. q.frames \in Seq(Frame) /\ q \in ParserRecord
  BY DEF Good, ParserRecord
<1>2. q.frames[n] \in Frame
  BY <1>1
<1>3. q.frames[n].return_state \in ReturnState
  BY <1>2 DEF Frame
<1> DEFINE below == SubSeq(q.frames, 1, n - 1)
           state == q.frames[n].return_state
<1>4. PopFrame(q) = [q EXCEPT !.state = state, !.frames = below]
  BY DEF PopFrame
<1> HIDE DEF below, state
<1>5. PopFrame(q).state = state
  BY <1>1, <1>4 DEF ParserRecord
<1>6. state \in ReturnState
  BY <1>3 DEF state
<1> QED BY <1>5, <1>6, PopFrameGood, UnfinishedStates DEF Goes

-----------------------------------------------------------------------------
(***************************************************************************)
(* The handlers.                                                           *)
(***************************************************************************)

\* The names that follow.
LEMMA FlowNames ==
  /\ {"FLOW_SEQ_LOOP", "FLOW_MAP_LOOP", "FLOW_SEQ_END", "FLOW_MAP_END", "FLOW_SEQ_SEP",
      "FLOW_MAP_SEP", "FLOW_NODE", "FLOW_MAP_VALUE", "FLOW_SEQ_ENTRY", "FLOW_SEQ_ENTRY_KEY",
      "FLOW_SEQ_EXPLICIT_KEY", "FLOW_SEQ_EXPLICIT_VALUE", "FLOW_SEQ_EXPLICIT_END",
      "FLOW_SEQ_IMPLICIT_END", "EAGER_DRAIN"} \subseteq Unfinished
  /\ {"FLOW_MAP_VALUE", "FLOW_MAP_SEP", "FLOW_SEQ_SEP", "FLOW_SEQ_IMPLICIT_END",
      "FLOW_SEQ_EXPLICIT_VALUE", "FLOW_SEQ_EXPLICIT_END"} \subseteq ReturnState
BY DEF Unfinished, State, FlowStates, ReturnState

\* The separator after an entry (inc_flow_sep).
LEMMA FlowSepGoes ==
  ASSUME NEW q, Goes(q), NEW in_seq \in BOOLEAN
  PROVE  Goes(FlowSep(q, in_seq))
<1> DEFINE r == Peek(q)
<1>1. Goes(r) /\ Good(r) /\ Good(Consume(r))
  BY StillGoes, ConsumeGood DEF Goes
<1> HIDE DEF r
<1> QED BY <1>1, FlowNames, GotoGoes DEF FlowSep, r

\* A flow mapping's value (inc_flow_map_value).
LEMMA FlowMapValueNodeGoes ==
  ASSUME NEW q, Goes(q)
  PROVE  Goes(FlowMapValueNode(q))
<1> DEFINE r == Peek(q)
<1>1. Goes(r) /\ Good(r)
  BY StillGoes DEF Goes
<1> HIDE DEF r
<1>2. Good(Emit(r, "SCALAR")) /\ Good(EmitScalarToken(r))
  BY <1>1, EmitGood, EmitScalarTokenGood, EventNames
<1>3. Goes(EmitScalarToken(r))
  <2>1. StopWith(r, "ERR_LIMIT").state = r.state
    BY <1>1 DEF StopWith, Good, ParserRecord
  <2>2. Goes(Consume(Emit(AttachProps(r), "SCALAR")))
    BY <1>1, StillGoes, EventNames
  <2>3. EmitScalarToken(r).state \in {r.state, Consume(Emit(AttachProps(r), "SCALAR")).state}
    BY <2>1 DEF EmitScalarToken
  <2> QED BY <1>1, <1>2, <2>2, <2>3 DEF Goes
<1> QED BY <1>1, <1>2, <1>3, FlowNames, FlowSepGoes, GotoGoes, GotoNodeGoes
        DEF FlowMapValueNode, r

\* The node of a pair, or an empty one.
LEMMA PairNodeGoes ==
  ASSUME NEW q, Good(q), NEW ends, NEW next \in ReturnState
  PROVE  Goes(PairNode(q, ends, next))
<1> DEFINE r == Peek(q)
<1>1. Good(r) /\ Good(Emit(r, "SCALAR"))
  BY PeekGood, EmitGood, EventNames
<1> HIDE DEF r
<1> QED BY <1>1, FlowNames, UnfinishedStates, GotoGoes, GotoNodeGoes DEF PairNode, r

\* The start of a flow collection.
LEMMA FlowOpenGoes ==
  ASSUME NEW q, Good(q), ~q.scan_error, NEW e \in Stream!Event,
         NEW context \in FlowContext, NEW loop \in OtherStates \ {"DONE"}
  PROVE  Goes(FlowOpen(q, e, context, loop))
<1> DEFINE r == Emit(Consume(AttachProps(q)), e)
           p == PushFrame(r, context, Col(q), q.node_return)
<1>1. Good(r) /\ ~r.scan_error
  <2>1. ~AttachProps(q).scan_error
    BY DEF AttachProps, Good, ParserRecord
  <2>2. ~Consume(AttachProps(q)).scan_error
    BY <2>1, AttachPropsGood DEF Consume, Good, ParserRecord
  <2> QED BY <2>2, AttachPropsGood, ConsumeGood, EmitGood, EmitScanError
<1> HIDE DEF r
<1>2. Good(p)
  BY <1>1, FieldTypes, PushFrameGood
<1> HIDE DEF p
<1> QED BY <1>2, UnfinishedStates, GotoGoes DEF FlowOpen, r, p

\* ST_FLOW_NODE, entered with its token.
LEMMA FlowNodeGoes ==
  ASSUME NEW q, Goes(q), ~q.scan_error, q.have_token
  PROVE  Goes(FlowNode(q))
<1> DEFINE c == ConsumeProps(q)
           r == IF Tok(q) \in PropTokens THEN Peek(c) ELSE q
<1>1. Good(q) /\ Peek(q) = q
  BY DEF Goes, Peek
<1>2. Goes(c) /\ Good(c) /\ Good(r)
  BY <1>1, StillGoes, PeekGood DEF Goes
<1>3. CASE PropsFailed(c) /\ Tok(q) \in PropTokens
  BY <1>1, <1>2, <1>3 DEF FlowNode
<1>4. CASE ~(PropsFailed(c) /\ Tok(q) \in PropTokens)
  <2>1. ~r.scan_error
    <3>1. c.have_token => ~c.scan_error
      BY <1>1, ConsumePropsGood
    <3> HIDE DEF c
    <3> QED BY <1>4, <3>1 DEF PropsFailed, Peek
  <2>2. FlowNode(q) = FlowNodeAfterProps(r)
    BY <1>1, <1>4 DEF FlowNode
  <2> HIDE DEF c, r
  <2>3. r.node_return \in Unfinished
    BY <1>2, FieldTypes, UnfinishedStates
  <2>4. /\ Goes(Goto(EmitScalarToken(r), r.node_return))
        /\ Goes(Goto(Emit(Consume(AttachProps(r)), "ALIAS"), r.node_return))
        /\ Goes(Goto(Emit(AttachProps(r), "SCALAR"), r.node_return))
    BY <1>2, <2>3, EventNames, EmitScalarTokenGood, AttachPropsGood, ConsumeGood, EmitGood,
       GotoGoes
  <2>5. {"FLOW_SEQ_LOOP", "FLOW_MAP_LOOP"} \subseteq OtherStates \ {"DONE"}
    BY DEF OtherStates, TokenStates, State, FlowStates
  <2>6. /\ Goes(FlowOpen(r, "SEQUENCE_START", "FLOW_SEQ", "FLOW_SEQ_LOOP"))
        /\ Goes(FlowOpen(r, "MAPPING_START", "FLOW_MAP", "FLOW_MAP_LOOP"))
    BY <1>2, <2>1, <2>5, EventNames, FlowOpenGoes DEF FlowContext
  <2> QED BY <2>2, <2>4, <2>6 DEF FlowNodeAfterProps
<1> QED BY <1>3, <1>4

\* ST_FLOW_MAP_LOOP.
LEMMA FlowMapLoopGoes ==
  ASSUME NEW q, Goes(q)
  PROVE  Goes(FlowMapLoop(q))
<1> DEFINE r == Peek(q)
           k == Peek(Goto(EmitScalarToken(r), "FLOW_MAP_VALUE"))
<1>1. Goes(r) /\ Good(r) /\ Goes(ParseError(r))
  BY StillGoes DEF Goes
<1> HIDE DEF r
<1>2. Goes(k) /\ Goes(Consume(k))
  BY <1>1, FlowNames, EmitScalarTokenGood, GotoGoes, StillGoes
<1> HIDE DEF k
<1>3. Goes(FlowScalarKey(r))
  BY <1>2, FlowMapValueNodeGoes DEF FlowScalarKey, k
<1>4. Goes(PairNode(Consume(r), {"BLOCK_MAP_VALUE", "FLOW_ENTRY", "FLOW_MAP_END"},
                    "FLOW_MAP_VALUE"))
  BY <1>1, FlowNames, ConsumeGood, PairNodeGoes
<1> QED BY <1>1, <1>3, <1>4, FlowNames, GotoGoes, GotoNodeGoes DEF FlowMapLoop, r

\* ST_FLOW_MAP_VALUE.
LEMMA FlowMapValueGoes ==
  ASSUME NEW q, Goes(q)
  PROVE  Goes(FlowMapValue(q))
<1> DEFINE r == Peek(q)
<1>1. Goes(Consume(r)) /\ Good(Emit(r, "SCALAR"))
  BY StillGoes, EventNames DEF Goes
<1> HIDE DEF r
<1> QED BY <1>1, FlowNames, FlowMapValueNodeGoes, GotoGoes DEF FlowMapValue, r

\* ST_FLOW_MAP_SEP and ST_FLOW_SEQ_SEP.
LEMMA FlowSepStateGoes ==
  ASSUME NEW q, Goes(q)
  PROVE  Goes(FlowMapSep(q)) /\ Goes(FlowSeqSep(q))
<1> DEFINE r == Peek(q)
<1>1. Good(r) /\ Goes(ParseError(r)) /\ Good(Consume(r))
  BY StillGoes DEF Goes
<1> HIDE DEF r
<1> QED BY <1>1, FlowNames, GotoGoes DEF FlowMapSep, FlowSeqSep, r

\* ST_FLOW_MAP_END and ST_FLOW_SEQ_END.
LEMMA FlowEndGoes ==
  ASSUME NEW q, Goes(q), q.frames # <<>>
  PROVE  Goes(FlowMapEnd(q)) /\ Goes(FlowSeqEnd(q))
<1>1. ASSUME NEW e \in Stream!Event PROVE Goes(FlowEnd(q, e))
  <2> DEFINE c == Consume(q)
             p == Emit(c, e)
             r == PopFrame(p)
  <2>1. Good(c) /\ c.frames = q.frames
    BY ConsumeGood DEF Goes, Consume, Good, ParserRecord
  <2> HIDE DEF c
  <2>2. Good(p) /\ p.frames = q.frames
    BY <2>1, EmitGood, EmitQuiet
  <2> HIDE DEF p
  <2>3. Goes(r)
    BY <2>2, PopFrameGoes
  <2> HIDE DEF r
  <2>4. Goes(FlowSep(r, TRUE)) /\ Goes(FlowSep(r, FALSE))
    BY <2>3, FlowSepGoes
  <2> QED BY <2>3, <2>4 DEF FlowEnd, c, p, r
<1> QED BY <1>1, EventNames DEF FlowMapEnd, FlowSeqEnd

\* ST_FLOW_SEQ_ENTRY.
LEMMA FlowSeqEntryGoes ==
  ASSUME NEW q, Goes(q)
  PROVE  Goes(FlowSeqEntry(q))
<1> DEFINE e == IF Tok(q) = "SCALAR" THEN "SCALAR" ELSE "ALIAS"
           r == Peek(Consume(AttachProps(Peek(q))))
           k == [r EXCEPT !.saved_node = e]
<1>1. Goes(r) /\ Good(r)
  BY StillGoes DEF Goes
<1>2. e \in Stream!Leaf /\ e \in Stream!Event
  BY DEF Stream!Leaf, Stream!Event
<1>3. FlowSeqEntry(q) = IF Tok(r) = "BLOCK_MAP_VALUE"
                        THEN Goto(k, "FLOW_SEQ_ENTRY_KEY") ELSE FlowSep(Emit(r, e), TRUE)
  BY DEF FlowSeqEntry
<1> HIDE DEF e, r
<1>4. k \in ParserRecord
  BY <1>1, <1>2 DEF Good, ParserRecord
<1>5. Bounds(k)
  BY <1>1 DEF Good, ParserRecord, Bounds
<1>6. Good(k)
  BY <1>4, <1>5 DEF Good
<1> HIDE DEF k
<1>7. Goes(Emit(r, e))
  BY <1>1, <1>2, StillGoes
<1> QED BY <1>3, <1>6, <1>7, FlowNames, GotoGoes, FlowSepGoes

\* ST_FLOW_SEQ_LOOP.
LEMMA FlowSeqLoopGoes ==
  ASSUME NEW q, Goes(q)
  PROVE  Goes(FlowSeqLoop(q))
<1> DEFINE r == Peek(q)
           ahead == LookAhead(r, r.current.pos)
           c == ConsumeProps(r)
           m == Consume(Emit(Emit(AttachProps(r), "MAPPING_START"), "SCALAR"))
<1>1. Goes(r) /\ Good(r) /\ Goes(ParseError(r)) /\ Goes(c)
  BY StillGoes DEF Goes
<1> HIDE DEF r
<1>2. Good(ahead)
  BY <1>1, LookAheadGood
<1>3. Good(m)
  BY <1>1, EventNames, AttachPropsGood, EmitGood, ConsumeGood
<1> HIDE DEF ahead, m, c
<1>4. Goes(PairNode(m, PairEnds, "FLOW_SEQ_IMPLICIT_END"))
  BY <1>3, FlowNames, PairNodeGoes
<1>5. Goes(FlowSeqEntry(Goto(r, "FLOW_SEQ_ENTRY")))
  BY <1>1, FlowNames, GotoGoes, FlowSeqEntryGoes
<1>6. /\ Goes(Goto(ahead, "EAGER_DRAIN"))
      /\ Goes(GotoNode(ahead, "FLOW_NODE", "FLOW_SEQ_SEP"))
      /\ Goes(Goto(r, "FLOW_SEQ_END")) /\ Goes(Goto(r, "FLOW_SEQ_EXPLICIT_KEY"))
  BY <1>1, <1>2, FlowNames, GotoGoes, GotoNodeGoes
<1>7. Goes(FlowSeqProps(r))
  <2>1. Goes(ParseError(c)) /\ Goes(Emit(AttachProps(c), "SCALAR"))
    BY <1>1, EventNames, StillGoes
  <2> QED BY <1>1, <2>1, FlowSepGoes DEF FlowSeqProps, c
<1> QED BY <1>1, <1>4, <1>5, <1>6, <1>7 DEF FlowSeqLoop, r, ahead, m

\* The states of a pair in a flow sequence.
LEMMA FlowSeqPairGoes ==
  ASSUME NEW q, Good(q)
  PROVE  /\ Goes(FlowSeqEntryKey(q)) /\ Goes(FlowSeqPairEnd(q))
         /\ Goes(FlowSeqExplicitKey(q)) /\ Goes(FlowSeqExplicitValue(q))
<1>1. q.saved_node \in Stream!Event
  BY FieldTypes DEF Stream!Leaf, Stream!Event
<1>2. Good(Consume(Emit(Emit(q, "MAPPING_START"), q.saved_node)))
  BY <1>1, EventNames, EmitGood, ConsumeGood
<1>3. Goes(FlowSeqEntryKey(q))
  BY <1>2, FlowNames, PairNodeGoes DEF FlowSeqEntryKey
<1>4. Goes(FlowSeqPairEnd(q))
  BY FlowNames, EventNames, PeekGood, EmitGood, GotoGoes DEF FlowSeqPairEnd
<1>5. Goes(FlowSeqExplicitKey(q))
  BY FlowNames, EventNames, EmitGood, ConsumeGood, PairNodeGoes DEF FlowSeqExplicitKey
<1>6. Goes(FlowSeqExplicitValue(q))
  BY FlowNames, EventNames, PeekGood, ConsumeGood, PairNodeGoes, EmitGood, GotoGoes
     DEF FlowSeqExplicitValue
<1> QED BY <1>3, <1>4, <1>5, <1>6

\* The states of the stream and the documents.
LEMMA BlockNamesUnfinished ==
  /\ {"STREAM_DOC_LOOP", "STREAM_END", "DOC_DIRECTIVES", "DOC_START_EXPLICIT",
      "DOC_START_IMPLICIT", "DOC_CONTENT", "DOC_END_EXPLICIT", "EAGER_DRAIN"} \subseteq Unfinished
  /\ {"BLOCK_NODE", "BLOCK_NODE_SCALAR", "BLOCK_NODE_SCALAR_KEY", "BLOCK_NODE_ALIAS",
      "BLOCK_NODE_ALIAS_KEY", "BLOCK_NODE_EMPTY", "BLOCK_NODE_SEQ",
      "BLOCK_NODE_EXPLICIT_KEY", "BLOCK_NODE_BARE_VALUE", "FLOW_NODE"} \subseteq Unfinished
  /\ {"BLOCK_MAP_LOOP", "BLOCK_MAP_EXPLICIT_KEY", "BLOCK_MAP_SIMPLE_KEY",
      "BLOCK_MAP_POST_KEY", "BLOCK_MAP_VALUE", "BLOCK_MAP_END", "BLOCK_SEQ_LOOP",
      "BLOCK_SEQ_ENTRY", "BLOCK_SEQ_END"} \subseteq Unfinished
BY DEF Unfinished, State, BlockStates, FlowStates

\* ST_STREAM_START, ST_STREAM_DOC_LOOP and ST_DOC_DIRECTIVES.
LEMMA StreamGoes ==
  ASSUME NEW q, Good(q)
  PROVE  Goes(StreamStart(q)) /\ Goes(StreamDocLoop(q)) /\ Goes(DocDirectives(q))
<1>1. Goes(StreamStart(q))
  BY PeekGood, ConsumeGood, EmitGood, GotoGoes, BlockNamesUnfinished, EventNames DEF StreamStart
<1>2. Goes(StreamDocLoop(q))
  BY PeekGood, GotoGoes, BlockNamesUnfinished DEF StreamDocLoop
<1> DEFINE r == TakeCheckpoint(Peek(q))
<1>3. Good(r) /\ Good(Consume(r))
  BY PeekGood, TakeCheckpointGood, ConsumeGood
<1> HIDE DEF r
<1>4. Goes(DocDirectives(q))
  BY <1>3, GotoGoes, BlockNamesUnfinished DEF DocDirectives, r
<1> QED BY <1>1, <1>2, <1>4

\* ST_DOC_START_EXPLICIT and ST_DOC_START_IMPLICIT.
LEMMA DocStartGoes ==
  ASSUME NEW q, Good(q)
  PROVE  Goes(DocStartExplicit(q)) /\ Goes(DocStartImplicit(q))
<1>1. ASSUME NEW p, Good(p), NEW line \in Nat PROVE Goes(DocStart(p, line))
  <2> DEFINE e == Emit(p, "DOC_START")
             r == [e EXCEPT !.doc_start_line = line, !.doc_open = TRUE]
  <2>1. Good(e)
    BY <1>1, EmitGood, EventNames
  <2>2. DocStart(p, line) = Goto(r, "DOC_CONTENT")
    BY DEF DocStart
  <2> HIDE DEF e
  <2>3. r \in ParserRecord
    BY <1>1, <2>1 DEF Good, ParserRecord
  <2>4. Bounds(r)
    BY <2>1 DEF Good, ParserRecord, Bounds
  <2>5. Good(r)
    BY <2>3, <2>4 DEF Good
  <2> HIDE DEF r
  <2> QED BY <2>2, <2>5, GotoGoes, BlockNamesUnfinished
<1>2. /\ Good(Peek(q)) /\ Good(Consume(Peek(q))) /\ Peek(q).current.line \in Nat
  BY PeekGood, ConsumeGood, FieldTypes
<1> QED BY <1>1, <1>2 DEF DocStartExplicit, DocStartImplicit

\* ST_DOC_CONTENT.
LEMMA DocContentGoes ==
  ASSUME NEW q, Good(q)
  PROVE  Goes(DocContent(q))
<1> DEFINE r == Peek(q)
<1>1. Good(r)
  BY PeekGood
<1> HIDE DEF r
<1>2. Good(Emit(r, "SCALAR"))
  BY <1>1, EmitGood, EventNames
<1>3. Goes(EmptyDocument(r, "STREAM_DOC_LOOP")) /\ Goes(EmptyDocument(r, "STREAM_END"))
  BY <1>2, CloseGood, GotoGoes, BlockNamesUnfinished DEF EmptyDocument
<1> QED BY <1>1, <1>2, <1>3, GotoGoes, GotoNodeGoes, BlockNamesUnfinished, NodeNames
        DEF DocContent, r

\* inc_end_document.
LEMMA EndDocumentGoes ==
  ASSUME NEW q, Goes(q)
  PROVE  Goes(EndDocument(q))
<1> DEFINE p == Peek(q)
           r == IF Tok(p) = "DOC_END" THEN Consume(p) ELSE p
<1>1. Goes(p) /\ Goes(ParseError(p)) /\ Good(r)
  BY StillGoes DEF Goes
<1> HIDE DEF p, r
<1>2. Goes(Goto([Emit(r, "DOC_END") EXCEPT !.doc_open = FALSE], "STREAM_DOC_LOOP"))
  BY <1>1, CloseGood, GotoGoes, BlockNamesUnfinished
<1> QED BY <1>1, <1>2 DEF EndDocument, p, r

\* ST_BLOCK_NODE.
LEMMA BlockNodeGoes ==
  ASSUME NEW q, Goes(q)
  PROVE  Goes(BlockNode(q))
<1> DEFINE r == Peek(q)
           ahead == LookAhead(r, r.current.pos)
<1>1. Good(r) /\ Goes(ParseError(r))
  BY StillGoes DEF Goes
<1> HIDE DEF r
<1>2. Good(ahead)
  BY <1>1, LookAheadGood
<1> HIDE DEF ahead
<1>3. Goes(BlockNodeFlow(r))
  BY <1>1, <1>2, GotoGoes, BlockNamesUnfinished DEF BlockNodeFlow, ahead
<1> QED BY <1>1, <1>3, GotoGoes, BlockNamesUnfinished DEF BlockNode, r

\* ST_BLOCK_NODE_SCALAR and ST_BLOCK_NODE_ALIAS.
LEMMA BlockNodeLeafGoes ==
  ASSUME NEW q, Good(q)
  PROVE  Goes(BlockNodeScalar(q)) /\ Goes(BlockNodeAlias(q))
<1>1. ASSUME NEW e \in Stream!Leaf, NEW key_state \in Unfinished
      PROVE  Goes(BlockNodeLeaf(q, e, key_state))
  <2> DEFINE p == Peek(q)
             r == Peek(Consume(p))
             k == [r EXCEPT !.saved_node = e, !.saved_node_col = Col(p)]
  <2>1. Good(p) /\ Good(r) /\ Col(p) \in Nat /\ r.node_return \in Unfinished
    BY PeekGood, ConsumeGood, FieldTypes, UnfinishedStates
  <2>2. BlockNodeLeaf(q, e, key_state) \in {Goto(k, key_state), Goto(Emit(r, e), r.node_return)}
    BY DEF BlockNodeLeaf
  <2> HIDE DEF p, r
  <2>3. k \in ParserRecord
    BY <2>1 DEF Good, ParserRecord
  <2>4. Bounds(k)
    BY <2>1 DEF Good, ParserRecord, Bounds
  <2>5. Good(k)
    BY <2>3, <2>4 DEF Good
  <2>6. e \in Stream!Event
    BY DEF Stream!Leaf, Stream!Event
  <2> HIDE DEF k
  <2> QED BY <2>1, <2>2, <2>5, <2>6, GotoGoes, EmitGood
<1>2. {"SCALAR", "ALIAS"} \subseteq Stream!Leaf
  BY DEF Stream!Leaf
<1> QED BY <1>1, <1>2, BlockNamesUnfinished DEF BlockNodeScalar, BlockNodeAlias

\* ST_BLOCK_NODE_SCALAR_KEY and ST_BLOCK_NODE_ALIAS_KEY.
LEMMA BlockNodeKeyGoes ==
  ASSUME NEW q, Good(q), ~q.scan_error
  PROVE  Goes(BlockNodeKey(q))
<1> DEFINE r == Emit(q, "MAPPING_START")
<1>1. /\ q.saved_node \in Stream!Event /\ q.saved_node_col \in Nat
      /\ q.node_return \in ReturnState
  BY FieldTypes DEF Stream!Leaf, Stream!Event
<1>2. Good(r) /\ ~r.scan_error
  BY EmitGood, EmitScanError, EventNames
<1> HIDE DEF r
<1>3. Good(Emit(r, q.saved_node)) /\ ~Emit(r, q.saved_node).scan_error
  BY <1>1, <1>2, EmitGood, EmitScanError
<1>4. "BLOCK_MAP" \in BlockContext \cup FlowContext
  BY DEF BlockContext
<1> QED BY <1>1, <1>3, <1>4, PushFrameGood, GotoGoes, BlockNamesUnfinished DEF BlockNodeKey, r

\* The states that open a block collection at an indicator, entered with it.
LEMMA BlockOpenGoes ==
  ASSUME NEW q, Good(q), ~q.scan_error, q.have_token
  PROVE  /\ Goes(BlockNodeSeq(q)) /\ Goes(BlockNodeExplicitKey(q))
         /\ Goes(BlockNodeBareValue(q))
<1>1. ASSUME NEW e \in Stream!Event, NEW context \in BlockContext
      PROVE  Good(BlockOpen(q, e, context))
  <2>1. Peek(q) = q
    BY DEF Peek
  <2>2. Good(Emit(q, e)) /\ ~Emit(q, e).scan_error
    BY EmitGood, EmitScanError
  <2>3. Col(q) \in Nat /\ q.node_return \in ReturnState
    BY FieldTypes
  <2> QED BY <2>1, <2>2, <2>3, PushFrameGood DEF BlockOpen
<1>2. /\ Good(BlockOpen(q, "SEQUENCE_START", "BLOCK_SEQ"))
      /\ Good(BlockOpen(q, "MAPPING_START", "BLOCK_MAP"))
  BY <1>1, EventNames DEF BlockContext
<1>3. Good(Emit(BlockOpen(q, "MAPPING_START", "BLOCK_MAP"), "SCALAR"))
  BY <1>2, EmitGood, EventNames
<1> QED BY <1>2, <1>3, GotoGoes, BlockNamesUnfinished
        DEF BlockNodeSeq, BlockNodeExplicitKey, BlockNodeBareValue

\* ST_BLOCK_MAP_LOOP and ST_BLOCK_SEQ_LOOP.
LEMMA BlockLoopGoes ==
  ASSUME NEW q, Good(q)
  PROVE  Goes(BlockMapLoop(q)) /\ Goes(BlockSeqLoop(q))
<1> DEFINE r == Peek(q)
<1>1. Good(r) /\ Good(Emit(r, "SCALAR"))
  BY PeekGood, EmitGood, EventNames
<1> HIDE DEF r
<1> QED BY <1>1, GotoGoes, BlockNamesUnfinished DEF BlockMapLoop, BlockSeqLoop, r

\* ST_BLOCK_MAP_EXPLICIT_KEY, ST_BLOCK_MAP_SIMPLE_KEY and ST_BLOCK_SEQ_ENTRY.
LEMMA BlockEntryGoes ==
  ASSUME NEW q, Good(q)
  PROVE  Goes(BlockMapExplicitKey(q)) /\ Goes(BlockMapSimpleKey(q)) /\ Goes(BlockSeqEntry(q))
<1> DEFINE p == Peek(q)
           r == Peek(Consume(p))
<1>1. Good(p) /\ Good(r)
  BY PeekGood, ConsumeGood
<1> HIDE DEF p, r
<1>2. Good(Emit(r, "SCALAR")) /\ (Tok(p) \in {"SCALAR", "ALIAS"} => Good(Emit(r, Tok(p))))
  BY <1>1, EmitGood, EventNames
<1>3. Goes(BlockMapExplicitKey(q))
  BY <1>1, <1>2, GotoGoes, GotoNodeGoes, BlockNamesUnfinished, NodeNames
     DEF BlockMapExplicitKey, p, r
<1>4. Goes(BlockMapSimpleKey(q))
  <2>1. /\ Goes(Goto(p, "EAGER_DRAIN")) /\ Goes(Goto(r, "EAGER_DRAIN"))
        /\ Tok(p) \in {"SCALAR", "ALIAS"} => Goes(Goto(Emit(r, Tok(p)), "BLOCK_MAP_VALUE"))
    BY <1>1, <1>2, GotoGoes, BlockNamesUnfinished
  <2> QED BY <2>1 DEF BlockMapSimpleKey, p, r
<1>5. Goes(BlockSeqEntry(q))
  BY <1>1, <1>2, GotoGoes, GotoNodeGoes, BlockNamesUnfinished, NodeNames DEF BlockSeqEntry, p, r
<1> QED BY <1>3, <1>4, <1>5

\* ST_BLOCK_MAP_POST_KEY.
LEMMA BlockMapPostKeyGoes ==
  ASSUME NEW q, Goes(q)
  PROVE  Goes(BlockMapPostKey(q))
<1> DEFINE r == Peek(q)
<1>1. Good(r) /\ Good(Emit(r, "SCALAR")) /\ Goes(ParseError(r))
  BY StillGoes, EventNames DEF Goes
<1> HIDE DEF r
<1> QED BY <1>1, GotoGoes, BlockNamesUnfinished DEF BlockMapPostKey, r

\* ST_BLOCK_MAP_VALUE.
LEMMA BlockMapValueGoes ==
  ASSUME NEW q, Good(q)
  PROVE  Goes(BlockMapValue(q))
<1> DEFINE p == Peek(q)
           r == Peek(Consume(p))
           v == [r EXCEPT !.value_colon_line = p.current.line,
                          !.value_colon_starts_line = p.current.first]
<1>1. /\ Good(p) /\ Good(r) /\ p.current.line \in Nat /\ p.current.first \in BOOLEAN
  BY PeekGood, ConsumeGood, FieldTypes
<1>2. BlockMapValue(q) =
        IF Tok(p) # "BLOCK_MAP_VALUE" THEN Goto(Emit(p, "SCALAR"), "BLOCK_MAP_LOOP")
        ELSE IF NoNodeHere(v) THEN Goto(Emit(v, "SCALAR"), "BLOCK_MAP_LOOP")
        ELSE GotoNode(v, "BLOCK_NODE", "BLOCK_MAP_LOOP")
  BY DEF BlockMapValue
<1> HIDE DEF p, r
<1>3. v \in ParserRecord
  BY <1>1 DEF Good, ParserRecord
<1>4. Bounds(v)
  BY <1>1 DEF Good, ParserRecord, Bounds
<1>5. Good(v)
  BY <1>3, <1>4 DEF Good
<1> HIDE DEF v
<1>6. Good(Emit(p, "SCALAR")) /\ Good(Emit(v, "SCALAR"))
  BY <1>1, <1>5, EmitGood, EventNames
<1> QED BY <1>2, <1>5, <1>6, GotoGoes, GotoNodeGoes, BlockNamesUnfinished, NodeNames

\* ST_BLOCK_MAP_END and ST_BLOCK_SEQ_END.
LEMMA BlockEndGoes ==
  ASSUME NEW q, Good(q), q.frames # <<>>
  PROVE  Goes(BlockMapEnd(q)) /\ Goes(BlockSeqEnd(q))
<1>1. ASSUME NEW e \in Stream!Event PROVE Goes(BlockEnd(q, e))
  <2> DEFINE r == Emit(Peek(PopFrame(q)), e)
  <2>1. Goes(r)
    BY <1>1, PopFrameGoes, StillGoes
  <2> HIDE DEF r
  <2> QED BY <2>1, EndDocumentGoes DEF BlockEnd, r
<1> QED BY <1>1, EventNames DEF BlockMapEnd, BlockSeqEnd

-----------------------------------------------------------------------------
(***************************************************************************)
(* The steps.                                                              *)
(***************************************************************************)

\* The step has not come to the end, and next_event does not report it.
NotDone == parser'.state # "DONE" /\ result' # "NONE"

\* What next_event makes of a step that has not come to the end.
LEMMA FinishGoes ==
  ASSUME StreamInv, NEW s \in Unfinished, Stepping(s), s \notin AwayStates,
         NEW q, AtStart(open, parser) /\ parser.state = s => Goes(q), Finish(q)
  PROVE  NotDone
<1>1. parser.state \in Unfinished /\ Goes(q)
  BY StartStep DEF Stepping
<1>2. parser \in ParserRecord
  BY DEF StreamInv, Inv, Kept
<1>3. CASE q.starved
  <2>1. parser'.state = parser.state /\ result' = "BUSY"
    BY <1>2, <1>3 DEF Finish, MoreText, ParserRecord, Stepping
  <2> QED BY <1>1, <2>1 DEF Unfinished, NotDone
<1>4. CASE ~q.starved
  <2> DEFINE kept == KeepEvents(q)
  <2>1. parser' = [kept EXCEPT !.status = "OK"] /\ result' = Outcome(kept)
    BY <1>4 DEF Finish
  <2>2. Good(kept) /\ kept.state = q.state
    BY <1>1, KeepEventsGood, KeepEventsFields DEF Goes
  <2> HIDE DEF kept
  <2>3. parser'.state = q.state
    BY <2>1, <2>2 DEF Good, ParserRecord
  <2>4. result' # "NONE"
    BY <2>1, <2>2 DEF Outcome, Good, ParserRecord
  <2> QED BY <1>1, <2>3, <2>4 DEF Goes, Unfinished, NotDone
<1> QED BY <1>3, <1>4

\* What a state is entered with.
LEMMA StartGoes ==
  ASSUME NEW a, NEW q, AtStart(a, q)
  PROVE  /\ Good(q) /\ ~q.scan_error
         /\ q.state \in Unfinished => Goes(q)
         /\ q.state \in TokenStates => q.have_token
         /\ q.state \in InnerStates => q.frames # <<>>
BY DEF AtStart, Goes, Placed, StatePlaced

\* The states of a collection, and those that rely on a token.
LEMMA EndStates ==
  /\ {"BLOCK_MAP_END", "BLOCK_SEQ_END", "FLOW_MAP_END", "FLOW_SEQ_END"} \subseteq InnerStates
  /\ {"FLOW_NODE", "BLOCK_NODE_SEQ", "BLOCK_NODE_EXPLICIT_KEY", "BLOCK_NODE_BARE_VALUE"}
       \subseteq TokenStates
BY DEF InnerStates, TokenStates, State, BlockStates, FlowStates, RootStates, BetweenDocuments,
       NodeStates, AwayStates

\* Only the end of the stream's own step comes to DONE.
LEMMA StepGoes ==
  ASSUME StreamInv, DocumentStep \/ BlockStep \/ FlowStep
  PROVE  DoStreamEnd \/ NotDone
<1> USE DEF AwayStates
<1>0. {"STREAM_START", "FLOW_MAP_LOOP", "FLOW_SEQ_LOOP", "FLOW_SEQ_SEP", "FLOW_MAP_SEP",
       "FLOW_SEQ_END", "FLOW_MAP_END"} \subseteq Unfinished
  BY DEF Unfinished, State, BlockStates, FlowStates
<1>1. ASSUME DocumentStep, ~DoStreamEnd PROVE NotDone
  <2>1. CASE DoStreamStart
    BY <1>0, <2>1, FinishGoes, StartGoes, StreamGoes DEF DoStreamStart
  <2>2. CASE DoStreamDocLoop
    BY <2>2, FinishGoes, StartGoes, StreamGoes, BlockNamesUnfinished DEF DoStreamDocLoop
  <2>3. CASE DoDocDirectives
    BY <2>3, FinishGoes, StartGoes, StreamGoes, BlockNamesUnfinished DEF DoDocDirectives
  <2>4. CASE DoDocStartExplicit
    BY <2>4, FinishGoes, StartGoes, DocStartGoes, BlockNamesUnfinished DEF DoDocStartExplicit
  <2>5. CASE DoDocStartImplicit
    BY <2>5, FinishGoes, StartGoes, DocStartGoes, BlockNamesUnfinished DEF DoDocStartImplicit
  <2>6. CASE DoDocContent
    BY <2>6, FinishGoes, StartGoes, DocContentGoes, BlockNamesUnfinished DEF DoDocContent
  <2>7. CASE DoDocEndExplicit
    BY <2>7, FinishGoes, StartGoes, EndDocumentGoes, BlockNamesUnfinished DEF DoDocEndExplicit
  <2> QED BY <1>1, <2>1, <2>2, <2>3, <2>4, <2>5, <2>6, <2>7 DEF DocumentStep
<1>2. ASSUME BlockStep PROVE NotDone
  <2> USE BlockNamesUnfinished
  <2>1. CASE DoBlockNode
    BY <2>1, FinishGoes, StartGoes, BlockNodeGoes DEF DoBlockNode
  <2>2. CASE DoBlockNodeScalar
    BY <2>2, FinishGoes, StartGoes, BlockNodeLeafGoes DEF DoBlockNodeScalar
  <2>3. CASE DoBlockNodeScalarKey
    BY <2>3, FinishGoes, StartGoes, BlockNodeKeyGoes DEF DoBlockNodeScalarKey
  <2>4. CASE DoBlockNodeAlias
    BY <2>4, FinishGoes, StartGoes, BlockNodeLeafGoes DEF DoBlockNodeAlias
  <2>5. CASE DoBlockNodeAliasKey
    BY <2>5, FinishGoes, StartGoes, BlockNodeKeyGoes DEF DoBlockNodeAliasKey
  <2>6. CASE DoBlockNodeSeq
    BY <2>6, FinishGoes, StartGoes, BlockOpenGoes, EndStates DEF DoBlockNodeSeq
  <2>7. CASE DoBlockNodeExplicitKey
    BY <2>7, FinishGoes, StartGoes, BlockOpenGoes, EndStates DEF DoBlockNodeExplicitKey
  <2>8. CASE DoBlockNodeBareValue
    BY <2>8, FinishGoes, StartGoes, BlockOpenGoes, EndStates DEF DoBlockNodeBareValue
  <2>9. CASE DoBlockMapLoop
    BY <2>9, FinishGoes, StartGoes, BlockLoopGoes DEF DoBlockMapLoop
  <2>10. CASE DoBlockMapExplicitKey
    BY <2>10, FinishGoes, StartGoes, BlockEntryGoes DEF DoBlockMapExplicitKey
  <2>11. CASE DoBlockMapSimpleKey
    BY <2>11, FinishGoes, StartGoes, BlockEntryGoes DEF DoBlockMapSimpleKey
  <2>12. CASE DoBlockMapPostKey
    BY <2>12, FinishGoes, StartGoes, BlockMapPostKeyGoes DEF DoBlockMapPostKey
  <2>13. CASE DoBlockMapValue
    BY <2>13, FinishGoes, StartGoes, BlockMapValueGoes DEF DoBlockMapValue
  <2>14. CASE DoBlockMapEnd
    BY <2>14, FinishGoes, StartGoes, BlockEndGoes, EndStates DEF DoBlockMapEnd
  <2>15. CASE DoBlockSeqLoop
    BY <2>15, FinishGoes, StartGoes, BlockLoopGoes DEF DoBlockSeqLoop
  <2>16. CASE DoBlockSeqEntry
    BY <2>16, FinishGoes, StartGoes, BlockEntryGoes DEF DoBlockSeqEntry
  <2>17. CASE DoBlockSeqEnd
    BY <2>17, FinishGoes, StartGoes, BlockEndGoes, EndStates DEF DoBlockSeqEnd
  <2> QED BY <1>2, <2>1, <2>2, <2>3, <2>4, <2>5, <2>6, <2>7, <2>8, <2>9, <2>10, <2>11, <2>12,
             <2>13, <2>14, <2>15, <2>16, <2>17
          DEF BlockStep
<1>3. ASSUME FlowStep PROVE NotDone
  <2> USE FlowNames
  <2>1. CASE DoFlowNode
    BY <2>1, FinishGoes, StartGoes, FlowNodeGoes, EndStates DEF DoFlowNode
  <2>2. CASE DoFlowMapLoop
    BY <2>2, FinishGoes, StartGoes, FlowMapLoopGoes DEF DoFlowMapLoop
  <2>3. CASE DoFlowMapValue
    BY <2>3, FinishGoes, StartGoes, FlowMapValueGoes DEF DoFlowMapValue
  <2>4. CASE DoFlowMapSep
    BY <2>4, FinishGoes, StartGoes, FlowSepStateGoes DEF DoFlowMapSep
  <2>5. CASE DoFlowMapEnd
    BY <2>5, FinishGoes, StartGoes, FlowEndGoes, EndStates DEF DoFlowMapEnd
  <2>6. CASE DoFlowSeqLoop
    BY <2>6, FinishGoes, StartGoes, FlowSeqLoopGoes DEF DoFlowSeqLoop
  <2>7. CASE DoFlowSeqEntryKey
    BY <2>7, FinishGoes, StartGoes, FlowSeqPairGoes DEF DoFlowSeqEntryKey
  <2>8. CASE DoFlowSeqImplicitEnd
    BY <2>8, FinishGoes, StartGoes, FlowSeqPairGoes DEF DoFlowSeqImplicitEnd
  <2>9. CASE DoFlowSeqExplicitKey
    BY <2>9, FinishGoes, StartGoes, FlowSeqPairGoes DEF DoFlowSeqExplicitKey
  <2>10. CASE DoFlowSeqExplicitValue
    BY <2>10, FinishGoes, StartGoes, FlowSeqPairGoes DEF DoFlowSeqExplicitValue
  <2>11. CASE DoFlowSeqExplicitEnd
    BY <2>11, FinishGoes, StartGoes, FlowSeqPairGoes DEF DoFlowSeqExplicitEnd
  <2>12. CASE DoFlowSeqSep
    BY <2>12, FinishGoes, StartGoes, FlowSepStateGoes DEF DoFlowSeqSep
  <2>13. CASE DoFlowSeqEnd
    BY <2>13, FinishGoes, StartGoes, FlowEndGoes, EndStates DEF DoFlowSeqEnd
  <2> QED BY <1>3, <2>1, <2>2, <2>3, <2>4, <2>5, <2>6, <2>7, <2>8, <2>9, <2>10, <2>11, <2>12,
             <2>13
          DEF FlowStep
<1> QED BY <1>1, <1>2, <1>3

=============================================================================
