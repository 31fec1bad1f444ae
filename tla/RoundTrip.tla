------------------------------ MODULE RoundTrip ------------------------------
(***************************************************************************)
(* The emitter's text, read by the model of the scanner and of the eager   *)
(* parser: "YAML text that parses back to the same data" (README.md).      *)
(***************************************************************************)
EXTENDS EmitterProperties

Reader == INSTANCE ParseText WITH
  Kinds <- {}, Columns <- {}, MaxText <- 0, MaxEvents <- 0, MaxDepth <- 0, CkptSpacing <- 0

-----------------------------------------------------------------------------
(***************************************************************************)
(* From symbols to the scanner's lexemes.                                  *)
(***************************************************************************)

LexemesAt(out) == SelectSeq([i \in 1..Len(out) |-> i], LAMBDA i : out[i] \notin {" ", "\n"})

\* The column of the symbol at i, if it is the first lexeme of a line that
\* is not the text's first.
Column(out, i) ==
  LET before == {j \in 1..i-1 : out[j] # " "}
      last == IF before = {} THEN 0 ELSE CHOOSE j \in before : \A k \in before : k <= j
  IN  IF last = 0 \/ out[last] # "\n" THEN Reader!SameLine ELSE i - 1 - last

Lexemes(out) ==
  LET at == LexemesAt(out)
  IN  [n \in 1..Len(at) |-> [kind |-> IF out[at[n]] = "~" THEN "WORD" ELSE out[at[n]],
                             brk |-> Column(out, at[n])]]

-----------------------------------------------------------------------------

SameEvent(read, evt) ==
  /\ read.type = evt.type
  /\ (read.anchor # Reader!None) = evt.anchor
  /\ (read.tag # Reader!None) = (evt.tag # "none")

SameEvents(read) ==
  /\ read.status = "OK"
  /\ Len(read.events) = Len(emitted)
  /\ \A i \in 1..Len(emitted) : SameEvent(read.events[i], emitted[i])

\* Whatever the styles, indents, contexts and properties, and however the
\* settings change on the way, the text of a whole stream is read as the
\* events it was made of, each anchor and tag on its node.
ReadsBack == open = <<"END">> => SameEvents(Reader!Parse(Lexemes(emitter.out)))

=============================================================================
