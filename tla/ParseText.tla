------------------------------ MODULE ParseText ------------------------------
(***************************************************************************)
(* What the eager parser makes of a whole text, as a function of the text. *)
(***************************************************************************)
EXTENDS EagerParser

RECURSIVE Run(_), ParseAll(_, _)

\* The eager parser, to the end of its call or of the known text.
Run(q) == IF Running(q) THEN Run(EagerStep(q)) ELSE q

ParseChunk(q) == EndChunk(Run(StartChunk(q)))

ContinueAll(t, events) ==
  IF t.stream_ended \/ t.status # "OK" \/ t.starved THEN [status |-> t.status, events |-> events]
  ELSE ParseAll(t, events)

\* All the events, after those given, up to the end of the text or an error.
ParseAll(q, events) == LET t == ParseChunk(q) IN ContinueAll(t, events \o t.events)

\* The events of a text, and the status of the last call.
Parse(text) ==
  ParseAll([NewEager EXCEPT !.scanner = [@ EXCEPT !.buf = text, !.text_ended = TRUE]], <<>>)

=============================================================================
