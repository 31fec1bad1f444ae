----------------------------- MODULE WholeParser -----------------------------
(***************************************************************************)
(* The whole parser (next_event, eager_next_event): the incremental parser *)
(* and the eager one it falls back to, or the eager one from the start     *)
(* when a setter asked for it.  The eager parser starts over at the last   *)
(* checkpoint, from the same text, and skips what was delivered.           *)
(***************************************************************************)
EXTENDS IncrementalParser, EagerParser

CONSTANT MaxErrors  \* how many errors a caller sees before it gives up

ASSUME MaxErrorsAssumption == MaxErrors \in Nat \ {0}

VARIABLES
  text,       \* the text known so far, from its first lexeme
  saved,      \* the scanner and the token of the checkpoint (p->ckpt)
  eager,      \* the eager parser's record
  delivered,  \* history: the types of the events delivered
  errors      \* history: how many calls have returned an error

wholeVars == <<vars, text, saved, eager, delivered, errors>>

\* oyl_parser_new, and then oyl_parser_set_schema, _merge or _resolve, if any.
WholeInit ==
  /\ parser \in {NewParser, [NewParser EXCEPT !.incremental = FALSE]}
  /\ result = "READY"
  /\ open = <<"BEGIN">>
  /\ text = <<>>
  /\ saved = [scanner |-> NewScanner, token |-> TokenAt(NewScanner, "NONE")]
  /\ eager = NewEager
  /\ delivered = <<>>
  /\ errors = 0

CountError == errors' = IF result' \in Errors THEN errors + 1 ELSE errors

-----------------------------------------------------------------------------
(***************************************************************************)
(* The incremental parser's steps, with the text and the checkpoint.       *)
(***************************************************************************)

WholeCall ==
  /\ errors < MaxErrors
  /\ Call
  /\ UNCHANGED <<text, saved, eager, delivered, errors>>

\* The caller gives up.
Abandon == errors = MaxErrors /\ UNCHANGED wholeVars

KeepText ==
  text' = IF Len(parser'.scanner.buf) > Len(parser.scanner.buf)
          THEN Append(text, Last(parser'.scanner.buf)) ELSE text

\* oyl_scanner_copy; the text after the token is in "text".
KeepCheckpoint ==
  saved' = IF parser'.ckpt = parser.ckpt THEN saved
           ELSE [scanner |-> [parser'.scanner EXCEPT !.buf = <<>>], token |-> parser'.current]

KeepDelivered ==
  delivered' = IF parser'.events_delivered > parser.events_delivered
               THEN Append(delivered, Head(parser.out_buf)) ELSE delivered

IncrementalStep ==
  /\ \/ Deliver \/ ReturnNone \/ ReturnScanError \/ ReturnStopped
     \/ DocumentStep \/ BlockStep \/ FlowStep
  /\ KeepText /\ KeepCheckpoint /\ KeepDelivered /\ CountError
  /\ UNCHANGED eager

\* A scanner, restarted from "from" on the text known.
Rescan(from) ==
  [from EXCEPT !.buf = SubSeq(text, from.pos + 1, Len(text)),
               !.last = parser.scanner.last, !.depth = parser.scanner.depth,
               !.text_ended = parser.scanner.text_ended]

\* What next_event sets up when it falls back.
Restarted(base) ==
  LET fresh == [NewEager EXCEPT !.evt_base = base,
                                !.skip_n = parser.events_delivered - base,
                                !.skip_sig = SubSeq(delivered, base + 1, Len(delivered)),
                                !.doc_start_line = parser.doc_start_line]
  IN  IF parser.ckpt.set
      THEN [fresh EXCEPT !.scanner = Rescan(saved.scanner), !.current = saved.token,
                         !.have_token = TRUE, !.stream_started = TRUE]
      ELSE [fresh EXCEPT !.scanner = Rescan(NewScanner)]

FallBackToEager ==
  /\ FallBack
  /\ eager' = Restarted(IF parser.ckpt.set THEN parser.ckpt.delivered ELSE 0)
  /\ UNCHANGED <<text, saved, delivered, errors>>

-----------------------------------------------------------------------------
(***************************************************************************)
(* The eager parser's steps.  It parses a document in one call, one token  *)
(* in each step.                                                           *)
(***************************************************************************)

EagerCalled == result = "BUSY" /\ ~parser.incremental

\* None of its functions is running.
Between(q) == q.calls = <<>>

EagerDeliver ==
  /\ EagerCalled
  /\ Between(eager)
  /\ eager.cursor < Len(eager.events)
  /\ LET e == eager.events[eager.cursor + 1].type
     IN  /\ open' = Stream!After(open, e)
         /\ delivered' = Append(delivered, e)
  /\ eager' = [eager EXCEPT !.cursor = @ + 1]
  /\ result' = "OK"
  /\ UNCHANGED <<parser, text, saved, errors>>

EagerEnd ==
  /\ EagerCalled
  /\ Between(eager)
  /\ eager.cursor = Len(eager.events) /\ eager.stream_ended
  /\ result' = "NONE"
  /\ UNCHANGED <<parser, open, text, saved, eager, delivered, errors>>

EagerMoreText ==
  /\ \/ \E x \in Lexemes : /\ MayFollow(eager.scanner, x)
                           /\ eager' = [eager EXCEPT !.scanner = AppendLexeme(@, x)]
     \/ eager' = [eager EXCEPT !.scanner = EndText(@)]
  /\ UNCHANGED <<vars, text, saved, delivered, errors>>

EagerFinish(q) ==
  IF q.starved THEN EagerMoreText
  ELSE /\ eager' = [q EXCEPT !.status = "OK"]
       /\ result' = IF q.status = "OK" THEN "BUSY" ELSE q.status
       /\ CountError
       /\ UNCHANGED <<parser, open, text, saved, delivered>>

\* The next document begins once all of the last one is delivered.
ChunkBegun(q) == IF Between(q) THEN StartChunk(q) ELSE q
ChunkEnded(q) == IF Between(q) THEN EndChunk(q) ELSE q

EagerDocument ==
  /\ EagerCalled
  /\ Between(eager) => eager.cursor = Len(eager.events) /\ ~eager.stream_ended
  /\ EagerFinish(ChunkEnded(EagerStep(ChunkBegun(eager))))

-----------------------------------------------------------------------------

WholeNext ==
  \/ WholeCall \/ Abandon
  \/ IncrementalStep \/ FallBackToEager
  \/ EagerDeliver \/ EagerEnd \/ EagerDocument

WholeSpec == WholeInit /\ [][WholeNext]_wholeVars

\* A caller who asked for the eager parser.
EagerInit == WholeInit /\ ~parser.incremental

EagerSpec == EagerInit /\ [][WholeNext]_wholeVars

-----------------------------------------------------------------------------
(***************************************************************************)
(* What makes the two parsers one; see also Agreement.                     *)
(***************************************************************************)

\* After a fallback, the eager parser produces again exactly the events
\* delivered, over as many documents as they span: the error that asks the
\* user to report an unsupported input is never the first a caller sees.
FallbackRepeats == errors <= 1 => eager.error_msg # "mismatch"

\* Every event is counted once against the limit, those the incremental
\* parser delivered, those skipped and those of earlier documents included.
EventsCountedOnce ==
  ~parser.incremental /\ errors = 0
    => Len(delivered) = eager.evt_base + eager.cursor + eager.skip_n

\* Before the first error no more events than the limit are delivered, and
\* a caller told that a limit was exceeded, if there is no other one, had as
\* many queued for it.
WholeEventLimit ==
  MaxEvents > 0 =>
    /\ errors = 0 => Len(delivered) <= MaxEvents
    /\ errors = 1 /\ result = "ERR_LIMIT" /\ ~parser.incremental /\ MaxDepth = 0
         => eager.evt_base + Len(eager.events) = MaxEvents

\* Up to the first error every event delivered continues a well-formed
\* stream, whichever parser produced it and wherever the other took over.
WholeWellFormed ==
  [][ errors = 0 /\ delivered' # delivered => Last(delivered') \in Stream!Accepts(open) ]_wholeVars

\* A stream that ends without an error is complete.
WholeStream == result = "NONE" /\ errors = 0 => open = <<"END">>

\* Each anchor and tag belongs to one node, and to the node that starts
\* next: those of two nodes never change places, wherever a mapping's start
\* is inserted once its ':' is seen.  Only those right before the end of the
\* text may have met no node when their document is over.
PropertiesInOrder ==
  /\ \A i, j \in 1..Len(eager.events) :
       i < j => /\ eager.events[j].anchor # None => eager.events[i].anchor < eager.events[j].anchor
                /\ eager.events[j].tag # None => eager.events[i].tag < eager.events[j].tag
  /\ ~parser.incremental /\ errors = 0 /\ Between(eager) /\ HasProps(eager)
       => eager.scanner.stream_ended

\* Before the first error, the events delivered never nest deeper than the
\* limit, whether or not what nests has a context.
EagerDepthLimit ==
  MaxDepth > 0 /\ errors = 0 => Stream!Nesting(open) <= MaxDepth

\* Nothing of a document is left in the parser when the next one is parsed,
\* and a document is open exactly if its end has not been queued.
CleanBetweenChunks ==
  ~parser.incremental /\ errors = 0 /\ Between(eager)
    => /\ eager.contexts = <<>>
       /\ eager.doc_open <=> \E i \in 1..Len(eager.events) :
            /\ eager.events[i].type = "DOC_START"
            /\ \A j \in i..Len(eager.events) : eager.events[j].type # "DOC_END"

=============================================================================
