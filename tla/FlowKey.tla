------------------------------ MODULE FlowKey ------------------------------
(***************************************************************************)
(* The lookahead that decides whether a flow collection is an implicit key *)
(* (flow_is_block_key and fk_scan, oyl_parser.c): the incremental parser   *)
(* emits a collection's start event before it can see the ':' after it, so *)
(* it reads the raw text ahead, without a scanner, to the collection's     *)
(* closing bracket.  The answer for every collection inside is kept, so    *)
(* that a nested one is not read ahead again.                              *)
(*                                                                         *)
(* Offsets are positions of lexemes.  The text ahead starts just after the *)
(* opening bracket, which is the parser's current token.                   *)
(***************************************************************************)
EXTENDS Scanner

\* The cache: the collections opened at "keys" are keys, every other one
\* opened between lo and hi is not; or "ambiguous", and all of them are.
FlowKeys == [valid : BOOLEAN, lo : Nat, hi : Nat, keys : SUBSET Nat, ambiguous : BOOLEAN]

NoFlowKeys == [valid |-> FALSE, lo |-> 0, hi |-> 0, keys |-> {}, ambiguous |-> FALSE]

\* The index in "ahead" stands for the bracket itself at 0.
KindAt(ahead, i) == IF i = 0 THEN "[" ELSE ahead[i].kind

Brackets(ahead, i, kinds) == Cardinality({j \in 0..i : KindAt(ahead, j) \in kinds})

\* How many collections are open after the lexeme at i.
FlowDepth(ahead, i) == Brackets(ahead, i, Openers) - Brackets(ahead, i, Closers)

\* Where a quote mark starts a quoted scalar; elsewhere it may be text.
QuotePlace(ahead, i) == KindAt(ahead, i - 1) \in Openers \cup {",", ":"}

\* Why the lookahead stops at i: an implicit key is one line; telling some
\* quotes from text takes a scanner; an open quote hides all that follows.
StopsAt(ahead, i) ==
  IF ahead[i].brk # SameLine THEN "LINE"
  ELSE IF ahead[i].kind \in {"QUOTED", "OPENQUOTE"} /\ ~QuotePlace(ahead, i) THEN "AMBIGUOUS"
  ELSE IF ahead[i].kind = "OPENQUOTE" THEN "UNTERMINATED"
  ELSE IF FlowDepth(ahead, i) = 0 THEN "CLOSED"
  ELSE "NO"

Stops(ahead) == {i \in 1..Len(ahead) : StopsAt(ahead, i) # "NO"}

FirstStop(ahead) == CHOOSE i \in Stops(ahead) : \A j \in Stops(ahead) : i <= j

\* More text is needed to tell what stops the lookahead, or whether a ':'
\* follows the closing bracket.
FkUndecided(s) ==
  /\ ~s.text_ended
  /\ Stops(s.buf) = {} \/ /\ FirstStop(s.buf) = Len(s.buf)
                          /\ StopsAt(s.buf, Len(s.buf)) = "CLOSED"

\* Mutant: only the outermost collection's end is found.
ClosesOutermost(ahead, open, close) ==
  /\ open < close
  /\ KindAt(ahead, open) \in Openers
  /\ KindAt(ahead, close) \in Closers
  /\ FlowDepth(ahead, close) = 0

Closes(ahead, open, close) ==
  /\ open < close
  /\ KindAt(ahead, open) \in Openers
  /\ KindAt(ahead, close) \in Closers
  /\ FlowDepth(ahead, close) = FlowDepth(ahead, open) - 1
  /\ \A i \in open..(close - 1) : FlowDepth(ahead, i) >= FlowDepth(ahead, open)

\* The ':' may be on a later line (fk_colon_follows skips line breaks).
ColonFollows(ahead, i) == i < Len(ahead) /\ ahead[i + 1].kind = ":"

\* fk_scan from the collection opened at offset.
FkScan(s, offset) ==
  LET ahead == s.buf
      stop == IF Stops(ahead) = {} THEN Len(ahead) + 1 ELSE FirstStop(ahead)
      why == IF Stops(ahead) = {} THEN "UNTERMINATED" ELSE StopsAt(ahead, stop)
      read == 0 .. (IF why = "CLOSED" THEN stop ELSE stop - 1)
  IN  [valid |-> TRUE,
       lo |-> offset,
       hi |-> IF why \in {"CLOSED", "LINE"}
              THEN offset + (IF why = "CLOSED" THEN stop ELSE stop - 1) ELSE MaxText,
       keys |-> IF why = "AMBIGUOUS" THEN {}
                ELSE {offset + i : i \in {open \in read :
                        \E close \in read : Closes(ahead, open, close) /\ ColonFollows(ahead, close)}},
       ambiguous |-> why = "AMBIGUOUS"]

\* Mutant: the answers are used past where the lookahead stopped.
FkCoversPast(fk, offset) == fk.valid /\ fk.lo <= offset

FkCovers(fk, offset) == fk.valid /\ fk.lo <= offset /\ offset <= fk.hi

FkIsKey(fk, offset) == fk.ambiguous \/ offset \in fk.keys

=============================================================================
