------------------------------ MODULE Scanner ------------------------------
(***************************************************************************)
(* The scanner (oyl_scanner.c), from lexemes to tokens.                    *)
(*                                                                         *)
(* The text is a sequence of lexemes, separated by blanks or line breaks:  *)
(* a lexeme is a kind and, when it begins a new line, its column there     *)
(* (one column per lexeme, so same-line lexemes are one column apart).     *)
(* What is inside a scalar, a name or a comment is abstracted.             *)
(*                                                                         *)
(*   - ? : [ ] { } ,   the indicators        --- ...  document markers     *)
(*   WORD      a one-word plain scalar       QUOTED   a one-line quoted    *)
(*   LITERAL   a literal block scalar        & * !    anchor, alias, tag   *)
(*   %         a directive line                                            *)
(*   GLUED     a '#' right after a token: an error wherever it is read     *)
(*   OPENQUOTE an unterminated quoted scalar: read once, it is an error,   *)
(*             and nothing of the text is left after it                    *)
(*                                                                         *)
(* A scanner is a record; Scan(s) is one call of oyl_scan_token.  Its text *)
(* is known only as far as "buf" goes: a call that needs more is STARVED,  *)
(* and is made again once one more lexeme of the text is known.            *)
(***************************************************************************)
EXTENDS Integers, Sequences, FiniteSets

CONSTANTS Kinds,    \* the kinds of lexeme the texts are made of
          Columns,  \* the columns a line may start at
          MaxText   \* the most lexemes a text may have

SameLine == -1

AllKinds == {"-", "?", ":", "[", "]", "{", "}", ",", "---", "...", "WORD",
             "QUOTED", "LITERAL", "&", "*", "!", "%", "GLUED", "OPENQUOTE"}

ASSUME KindsAssumption == Kinds \subseteq AllKinds
ASSUME ColumnsAssumption == Columns \subseteq Nat
ASSUME MaxTextAssumption == MaxText \in Nat

Lexeme == [kind : AllKinds, brk : Nat \cup {SameLine}]

TokenType == {"NONE", "STREAM_START", "STREAM_END", "DOC_START", "DOC_END",
              "DIRECTIVE", "FLOW_SEQ_START", "FLOW_SEQ_END", "FLOW_MAP_START",
              "FLOW_MAP_END", "FLOW_ENTRY", "BLOCK_SEQ_ENTRY", "BLOCK_MAP_KEY",
              "BLOCK_MAP_VALUE", "TAG", "ANCHOR", "ALIAS", "SCALAR"}

\* "first": only blanks stand before the token on its line.
Token == [type : TokenType, line : Nat, col : Nat, pos : Nat, first : BOOLEAN]

\* An open flow bracket; props_col as for the scanner's own field below.
OpenBracket == [is_map : BOOLEAN, line : Nat, col : Nat, props_col : Nat \cup {-1}]

\* props_col: where the anchors and tags that end right here begin, or -1.
\* node_last: the last token was a node that could be a key, which began at
\* node_line and node_col (its anchors and tags included).
\* last, depth: the kind of the last lexeme in "buf" and how many brackets
\* are open after it; they only serve to choose the rest of the text.
ScannerState ==
  [buf : Seq(Lexeme), text_ended : BOOLEAN,
   last : AllKinds \cup {"BEGIN"}, depth : Nat,
   pos : Nat, line : Nat, col : Nat, first : BOOLEAN,
   stream_started : BOOLEAN, stream_ended : BOOLEAN,
   indents : SUBSET Nat,
   flows : Seq(OpenBracket),
   explicit_key : BOOLEAN, explicit_depth : Nat,
   key_colon_line : Nat, props_col : Nat \cup {-1},
   node_line : Nat, node_col : Nat, node_last : BOOLEAN]

NewScanner ==
  [buf |-> <<>>, text_ended |-> FALSE,
   last |-> "BEGIN", depth |-> 0,
   pos |-> 0, line |-> 1, col |-> 0, first |-> TRUE,
   stream_started |-> FALSE, stream_ended |-> FALSE,
   indents |-> {},
   flows |-> <<>>,
   explicit_key |-> FALSE, explicit_depth |-> 0,
   key_colon_line |-> 0, props_col |-> -1,
   node_line |-> 0, node_col |-> 0, node_last |-> FALSE]

-----------------------------------------------------------------------------
(***************************************************************************)
(* The text.  These are the texts the abstraction is exact for: markers    *)
(* and directives begin a line, a block scalar owns its lines, and a WORD  *)
(* is followed by what ends a plain scalar, never by what continues it.    *)
(***************************************************************************)

Closers == {"]", "}"}
Openers == {"[", "{"}
Markers == {"---", "...", "%"}

TextLength(s) == s.pos + Len(s.buf)

MayFollow(s, x) ==
  /\ TextLength(s) < MaxText
  /\ x.kind \in Markers => x.brk = (IF s.last = "BEGIN" THEN SameLine ELSE 0)
  /\ x.kind \in {"%", "LITERAL"} => s.depth = 0
  /\ x.kind = "GLUED" => /\ x.brk = SameLine
                         /\ s.last \in Openers \cup Closers \cup {",", "QUOTED"}
  /\ s.last = "BEGIN" => x.brk # 0
  /\ s.last \in {"%", "LITERAL"} => x.brk # SameLine
  /\ s.last = "WORD" =>
       \/ x.kind \in {":", "---", "..."}
       \/ s.depth > 0 /\ x.brk = SameLine /\ x.kind \in Openers \cup Closers \cup {","}
  /\ s.last \notin {"GLUED", "OPENQUOTE"}

Lexemes == [kind : Kinds, brk : Columns \cup {SameLine}]

AppendLexeme(s, x) ==
  [s EXCEPT !.buf = Append(@, x),
            !.last = x.kind,
            !.depth = IF x.kind \in Openers THEN @ + 1
                      ELSE IF x.kind \in Closers /\ @ > 0 THEN @ - 1 ELSE @]

EndText(s) == [s EXCEPT !.text_ended = TRUE]

-----------------------------------------------------------------------------
(***************************************************************************)
(* Helpers.  The indent stack is strictly increasing (indent_push is only  *)
(* called with a column past the current indent), so it is the set of its  *)
(* columns, and s->indent is the largest of them, or -1.                   *)
(***************************************************************************)

IndentedPast(s, col) == \A c \in s.indents : c < col

IndentPush(s, col) ==
  IF IndentedPast(s, col) THEN [s EXCEPT !.indents = @ \cup {col}] ELSE s

Unroll(s, col) == [s EXCEPT !.indents = {c \in @ : c <= col}]

InFlow(s) == s.flows # <<>>

FlowPush(s, is_map) ==
  [s EXCEPT !.flows = Append(@, [is_map |-> is_map, line |-> s.line, col |-> s.col,
                                 props_col |-> s.props_col])]

\* Closing the collection a '?' entry is in ends that entry.
FlowPop(s) ==
  IF ~InFlow(s) THEN s
  ELSE [s EXCEPT !.flows = SubSeq(@, 1, Len(@) - 1),
                 !.explicit_key = @ /\ s.explicit_depth < Len(s.flows)]

NoteNode(s, line, col, props_col) ==
  [s EXCEPT !.node_line = line,
            !.node_col = IF props_col >= 0 THEN props_col ELSE col,
            !.node_last = TRUE]

\* Move to the next lexeme, over any line break before it.
SkipBlanks(s) ==
  IF Head(s.buf).brk = SameLine THEN s
  ELSE [s EXCEPT !.buf = <<[Head(@) EXCEPT !.brk = SameLine]>> \o Tail(@),
                 !.line = @ + 1, !.col = Head(s.buf).brk, !.first = TRUE,
                 !.props_col = -1]

\* Consume the lexeme the scanner is at.
Advance(s) ==
  [s EXCEPT !.buf = Tail(@), !.pos = @ + 1, !.col = @ + 1, !.first = FALSE,
            !.props_col = -1, !.node_last = FALSE]

\* A line inside a flow collection, unless it starts with a closing
\* bracket, must be indented past the enclosing block.
BadFlowIndent(before, s) ==
  /\ InFlow(s)
  /\ Head(before.buf).brk # SameLine \/ s.col = 0
  /\ Head(s.buf).kind \notin Closers
  /\ ~IndentedPast(s, s.col)

-----------------------------------------------------------------------------
(***************************************************************************)
(* The outcome of a call: the scanner after it, and the token, if any.  An *)
(* error leaves the scanner where it stands, so that what a second call    *)
(* does after an error is modelled too.                                    *)
(***************************************************************************)

TokenAt(s, type) ==
  [type |-> type, line |-> s.line, col |-> s.col, pos |-> s.pos, first |-> s.first]

Scanned(s, tok) == [s |-> s, tok |-> tok, res |-> "OK"]
ScanError(s)    == [s |-> s, tok |-> TokenAt(s, "NONE"), res |-> "ERROR"]
Starved(s)      == [s |-> s, tok |-> TokenAt(s, "NONE"), res |-> "STARVED"]

\* Consume the lexeme as a token of the given type.
Take(s, type) == Scanned(Advance(s), TokenAt(s, type))

TakeNode(s, type) ==
  Scanned(NoteNode(Advance(s), s.line, s.col, s.props_col), TokenAt(s, type))

TakeProps(s, type) ==
  Scanned([Advance(s) EXCEPT !.props_col = IF s.props_col >= 0 THEN s.props_col ELSE s.col],
          TokenAt(s, type))

ScanDocEnd(s) ==
  LET r == Take(Unroll(s, -1), "DOC_END")
  IN  IF r.s.buf = <<>> THEN (IF s.text_ended THEN r ELSE Starved(s))
      ELSE IF Head(r.s.buf).brk = SameLine THEN ScanError(r.s) ELSE r

\* Mutant: only sequences are counted as open brackets.
ScanOpenSeqOnly(s, is_map) ==
  Take(IF is_map THEN s ELSE FlowPush(s, is_map),
       IF is_map THEN "FLOW_MAP_START" ELSE "FLOW_SEQ_START")

ScanOpen(s, is_map) ==
  Take(FlowPush(s, is_map), IF is_map THEN "FLOW_MAP_START" ELSE "FLOW_SEQ_START")

ScanClose(s, type) ==
  LET after == Advance(FlowPop(s))
      open == IF InFlow(s) THEN s.flows[Len(s.flows)]
              ELSE [line |-> s.line, col |-> s.col, props_col |-> s.props_col]
  IN  Scanned(NoteNode(after, open.line, open.col, open.props_col), TokenAt(s, type))

\* Both '?' and ',' concern the '?' entry of the collection they are in.
AtExplicitKey(s) == s.explicit_key /\ s.explicit_depth = Len(s.flows)

ScanFlowEntry(s) ==
  Take([s EXCEPT !.explicit_key = @ /\ ~AtExplicitKey(s)], "FLOW_ENTRY")

\* A block collection cannot start on the line of an implicit key's ':'.
OnKeyLine(s) == s.key_colon_line = s.line

ScanBlockSeqEntry(s) ==
  IF InFlow(s) \/ OnKeyLine(s) THEN ScanError(s)
  ELSE Take(IndentPush(s, s.col), "BLOCK_SEQ_ENTRY")

ScanBlockMapKey(s) ==
  IF ~InFlow(s) /\ OnKeyLine(s) THEN ScanError(s)
  ELSE LET t == [s EXCEPT !.explicit_key = TRUE, !.explicit_depth = Len(s.flows)]
       IN  Take(IF InFlow(s) THEN t ELSE IndentPush(t, s.col), "BLOCK_MAP_KEY")

\* In block context a ':' that starts its line is an explicit value's, in
\* flow context one after a '?' at this depth is.  An implicit key, except
\* in a flow mapping, must start on the line of its ':'.
ClassifyColon(s) ==
  IF IF InFlow(s) THEN AtExplicitKey(s) ELSE s.first THEN "EXPLICIT"
  ELSE IF /\ s.node_last
          /\ s.node_line < s.line
          /\ ~(InFlow(s) /\ s.flows[Len(s.flows)].is_map)
       THEN "BAD_KEY"
       ELSE "IMPLICIT"

KeyColumn(s) ==
  IF s.node_last THEN s.node_col
  ELSE IF s.props_col >= 0 THEN s.props_col ELSE s.col

\* The column of the block mapping a ':' belongs to.
MapColumn(s) ==
  IF s.first \/ KeyColumn(s) > s.col THEN s.col ELSE KeyColumn(s)

ScanBlockMapValue(s) ==
  LET kind == ClassifyColon(s)
      t == [s EXCEPT !.explicit_key = @ /\ kind # "EXPLICIT",
                     !.key_colon_line = IF ~InFlow(s) /\ kind = "IMPLICIT"
                                        THEN s.line ELSE @]
  IN  IF \/ kind = "BAD_KEY"
         \/ ~InFlow(s) /\ kind = "IMPLICIT" /\ OnKeyLine(s)
      THEN ScanError(s)
      ELSE Take(IF InFlow(s) THEN t ELSE IndentPush(t, MapColumn(s)),
                "BLOCK_MAP_VALUE")

ScanLexeme(s) ==
  LET kind == Head(s.buf).kind
  IN  CASE kind = "---" -> Take(Unroll(s, -1), "DOC_START")
        [] kind = "..." -> ScanDocEnd(s)
        [] kind = "%"   -> Take(s, "DIRECTIVE")
        [] kind = "["   -> ScanOpen(s, FALSE)
        [] kind = "{"   -> ScanOpen(s, TRUE)
        [] kind = "]"   -> ScanClose(s, "FLOW_SEQ_END")
        [] kind = "}"   -> ScanClose(s, "FLOW_MAP_END")
        [] kind = ","   -> ScanFlowEntry(s)
        [] kind = "-"   -> ScanBlockSeqEntry(s)
        [] kind = "?"   -> ScanBlockMapKey(s)
        [] kind = ":"   -> ScanBlockMapValue(s)
        [] kind = "!"   -> TakeProps(s, "TAG")
        [] kind = "&"   -> TakeProps(s, "ANCHOR")
        [] kind = "*"   -> TakeNode(s, "ALIAS")
        [] kind \in {"WORD", "QUOTED"} -> TakeNode(s, "SCALAR")
        [] kind = "LITERAL"   -> Take(s, "SCALAR")
        [] kind = "OPENQUOTE" -> ScanError(Advance(s))
        [] kind = "GLUED"     -> ScanError(s)

\* After the last lexeme: STREAM_END once, then NONE.
ScanEnd(s) ==
  IF s.stream_ended THEN Scanned(s, TokenAt(s, "NONE"))
  ELSE Scanned([Unroll(s, -1) EXCEPT !.stream_ended = TRUE], TokenAt(s, "STREAM_END"))

\* The scanner was "before", and has skipped to the next lexeme.
ScanAt(before, s) ==
  IF BadFlowIndent(before, s) THEN ScanError(s)
  ELSE ScanLexeme(IF InFlow(s) THEN s ELSE Unroll(s, s.col))

\* One call of oyl_scan_token.
Scan(s) ==
  IF ~s.stream_started
  THEN Scanned([s EXCEPT !.stream_started = TRUE], TokenAt(s, "STREAM_START"))
  ELSE IF s.buf = <<>> THEN (IF s.text_ended THEN ScanEnd(s) ELSE Starved(s))
  ELSE ScanAt(s, SkipBlanks(s))

=============================================================================
