------------------------------ MODULE Agreement ------------------------------
(***************************************************************************)
(* Both parsers are of one language.  What the eager parser alone makes of *)
(* a text is a recursive operator (see ParseText).                         *)
(***************************************************************************)
EXTENDS WholeParser, ParseText

\* What the eager parser alone says of the text, and what the incremental
\* one has answered without it.
Agrees(alone) ==
  IF result = "NONE" THEN alone.status = "OK" /\ Types(alone.events) = delivered ELSE alone.status # "OK"

\* Both parsers are of one language: a stream the incremental parser ends
\* without falling back is, event for event, what the eager parser makes of
\* the text, and what one refuses the other refuses.
ParsersAgree ==
  /\ parser.incremental
  /\ result \in Errors \cup {"NONE"} /\ (result = "NONE" => errors = 0)
  => Agrees(Parse(text))

=============================================================================
