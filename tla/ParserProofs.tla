---------------------------- MODULE ParserProofs ----------------------------
(***************************************************************************)
(* For every vocabulary, text length, limit and spacing: the parser's      *)
(* types and limits hold in every behaviour, and an error is final.        *)
(*                                                                         *)
(* Every state's handler, run on a good record, leaves a fine one: typed,  *)
(* within its limits, with its mark of the events before a scanner error   *)
(* within the events queued, and with its token when the next state relies *)
(* on one; and it still remembers the text that its lookahead cache was    *)
(* read from.                                                              *)
(***************************************************************************)
EXTENDS ParserProperties, SequenceTheorems, FiniteSetTheorems, WellFoundedInduction, TLAPS

-----------------------------------------------------------------------------
(***************************************************************************)
(* Least and greatest elements.                                            *)
(***************************************************************************)

\* A nonempty set of naturals has a least element.
LEMMA NatMin ==
  ASSUME NEW T \in SUBSET Nat, T # {}
  PROVE  \E x \in T : \A y \in T : x <= y
<1> DEFINE R == {ss \in Nat \X Nat : ss[1] < ss[2]}
<1>1. IsWellFoundedOn(R, Nat)
  BY NatLessThanWellFounded DEF OpToRel
<1>2. PICK x \in T : \A y \in T : ~ (<<y, x>> \in R)
  <2> HIDE DEF R
  <2> QED BY <1>1, WFMin, Zenon
<1>3. \A y \in T : ~(y < x)
  BY <1>2
<1> QED BY <1>3

\* A nonempty set of naturals up to n has a greatest element.
LEMMA BoundedMax ==
  ASSUME NEW n \in Nat, NEW T \in SUBSET (1..n), T # {}
  PROVE  \E x \in T : \A y \in T : y <= x
<1> DEFINE U == {n - x : x \in T}
<1>1. PICK u \in U : \A v \in U : u <= v
  <2>1. U \in SUBSET Nat
    OBVIOUS
  <2>2. U # {}
    <3>1. PICK t \in T : TRUE
      OBVIOUS
    <3>2. n - t \in U
      OBVIOUS
    <3> QED BY <3>2
  <2> HIDE DEF U
  <2> QED BY <2>1, <2>2, NatMin
<1>2. PICK x \in T : u = n - x
  OBVIOUS
<1>3. \A y \in T : y <= x
  <2> TAKE y \in T
  <2>1. u <= n - y
    BY <1>1
  <2> QED BY <2>1, <1>2
<1> QED BY <1>3

-----------------------------------------------------------------------------
(***************************************************************************)
(* The scanner's record.                                                   *)
(***************************************************************************)

\* A new scanner is typed.
LEMMA NewScannerType == NewScanner \in ScannerState
BY DEF NewScanner, ScannerState

\* The text may grow by a lexeme, or end, between two calls.
LEMMA AppendLexemeType ==
  ASSUME NEW s \in ScannerState, NEW x \in Lexemes
  PROVE  AppendLexeme(s, x) \in ScannerState
<1> DEFINE d == IF x.kind \in Openers THEN s.depth + 1
                ELSE IF x.kind \in Closers /\ s.depth > 0 THEN s.depth - 1 ELSE s.depth
           buf == Append(s.buf, x)
<1>1. x \in Lexeme /\ x.kind \in AllKinds \cup {"BEGIN"}
  BY KindsAssumption, ColumnsAssumption DEF Lexemes, Lexeme
<1>2. buf \in Seq(Lexeme)
  BY <1>1 DEF ScannerState
<1>3. d \in Nat
  <2>1. s.depth \in Nat
    BY DEF ScannerState
  <2> QED BY <2>1
<1>4. AppendLexeme(s, x) = [s EXCEPT !.buf = buf, !.last = x.kind, !.depth = d]
  BY DEF AppendLexeme, ScannerState
<1> HIDE DEF d, buf
<1> QED BY <1>1, <1>2, <1>3, <1>4 DEF ScannerState

\* Learning that the text has ended keeps the scanner typed.
LEMMA EndTextType ==
  ASSUME NEW s \in ScannerState
  PROVE  EndText(s) \in ScannerState
BY DEF EndText, ScannerState

\* The token made where the scanner stands is typed.
LEMMA TokenAtType ==
  ASSUME NEW s \in ScannerState, NEW type \in TokenType
  PROVE  TokenAt(s, type) \in Token
BY DEF TokenAt, Token, ScannerState

\* Dropping the indents past a column (maybe_unroll_indents) keeps the scanner typed.
LEMMA UnrollType ==
  ASSUME NEW s \in ScannerState, NEW col \in Int
  PROVE  /\ Unroll(s, col) \in ScannerState
         /\ Unroll(s, col).buf = s.buf
<1>1. {c \in s.indents : c <= col} \in SUBSET Nat
  BY DEF ScannerState
<1> QED BY <1>1 DEF Unroll, ScannerState

\* So does pushing one (indent_push).
LEMMA IndentPushType ==
  ASSUME NEW s \in ScannerState, NEW col \in Nat
  PROVE  /\ IndentPush(s, col) \in ScannerState
         /\ IndentPush(s, col).buf = s.buf
<1>1. s.indents \cup {col} \in SUBSET Nat
  BY DEF ScannerState
<1>2. [s EXCEPT !.indents = @ \cup {col}] \in ScannerState
  BY <1>1 DEF ScannerState
<1>3. [s EXCEPT !.indents = @ \cup {col}].buf = s.buf
  BY DEF ScannerState
<1> QED BY <1>2, <1>3 DEF IndentPush

\* Opening a flow bracket (flow_push) keeps the scanner typed.
LEMMA FlowPushType ==
  ASSUME NEW s \in ScannerState, NEW is_map \in BOOLEAN
  PROVE  /\ FlowPush(s, is_map) \in ScannerState
         /\ FlowPush(s, is_map).buf = s.buf
<1> DEFINE b == [is_map |-> is_map, line |-> s.line, col |-> s.col,
                 props_col |-> s.props_col]
<1>1. b \in OpenBracket
  BY DEF ScannerState, OpenBracket
<1>2. Append(s.flows, b) \in Seq(OpenBracket)
  <2> HIDE DEF b
  <2> QED BY <1>1 DEF ScannerState
<1> QED BY <1>2 DEF FlowPush, ScannerState

\* Closing one (flow_pop), which does nothing when none is open, does too.
LEMMA FlowPopType ==
  ASSUME NEW s \in ScannerState
  PROVE  /\ FlowPop(s) \in ScannerState
         /\ FlowPop(s).buf = s.buf
<1>1. CASE ~InFlow(s)
  BY <1>1 DEF FlowPop
<1>2. CASE InFlow(s)
  <2>1. SubSeq(s.flows, 1, Len(s.flows) - 1) \in Seq(OpenBracket)
    BY DEF ScannerState
  <2>2. (s.explicit_key /\ s.explicit_depth < Len(s.flows)) \in BOOLEAN
    OBVIOUS
  <2> QED BY <1>2, <2>1, <2>2 DEF FlowPop, ScannerState
<1> QED BY <1>1, <1>2

\* Noting the last node (note_node) keeps the scanner typed.
LEMMA NoteNodeType ==
  ASSUME NEW s \in ScannerState, NEW line \in Nat, NEW col \in Nat,
         NEW props_col \in Nat \cup {-1}
  PROVE  NoteNode(s, line, col, props_col) \in ScannerState
<1> DEFINE c == IF props_col >= 0 THEN props_col ELSE col
<1>1. c \in Nat
  OBVIOUS
<1> HIDE DEF c
<1>2. [s EXCEPT !.node_line = line, !.node_col = c, !.node_last = TRUE] \in ScannerState
  BY <1>1 DEF ScannerState
<1> QED BY <1>2 DEF NoteNode, c

\* The next lexeme of the text is one.
LEMMA HeadType ==
  ASSUME NEW s \in ScannerState, s.buf # <<>>
  PROVE  /\ Head(s.buf) \in Lexeme
         /\ Tail(s.buf) \in Seq(Lexeme)
BY DEF ScannerState

\* Skipping blanks and comments keeps the scanner typed.
LEMMA SkipBlanksType ==
  ASSUME NEW s \in ScannerState, s.buf # <<>>
  PROVE  /\ SkipBlanks(s) \in ScannerState
         /\ SkipBlanks(s).buf # <<>>
<1>1. CASE Head(s.buf).brk = SameLine
  BY <1>1 DEF SkipBlanks
<1>2. CASE Head(s.buf).brk # SameLine
  <2> DEFINE x == [Head(s.buf) EXCEPT !.brk = SameLine]
             t == <<x>> \o Tail(s.buf)
             c == Head(s.buf).brk
             u == [s EXCEPT !.buf = t, !.line = @ + 1, !.col = c,
                            !.first = TRUE, !.props_col = -1]
  <2>1. x \in Lexeme /\ c \in Nat
    BY <1>2, HeadType DEF Lexeme, SameLine
  <2>2. t \in Seq(Lexeme) /\ t # <<>>
    <3> HIDE DEF x
    <3> QED BY <2>1, HeadType
  <2>3. SkipBlanks(s) = u
    BY <1>2 DEF SkipBlanks
  <2> HIDE DEF x, t, c
  <2>4. s.line + 1 \in Nat /\ -1 \in Nat \cup {-1}
    BY DEF ScannerState
  <2>5. u \in ScannerState
    BY <2>1, <2>2, <2>4 DEF ScannerState
  <2>6. u.buf = t
    BY DEF ScannerState
  <2> QED BY <2>2, <2>3, <2>5, <2>6
<1> QED BY <1>1, <1>2

\* Moving past a lexeme keeps the scanner typed.
LEMMA AdvanceType ==
  ASSUME NEW s \in ScannerState, s.buf # <<>>
  PROVE  Advance(s) \in ScannerState
<1>1. /\ Tail(s.buf) \in Seq(Lexeme)
      /\ s.pos + 1 \in Nat /\ s.col + 1 \in Nat /\ -1 \in Nat \cup {-1}
  BY HeadType DEF ScannerState
<1> QED BY <1>1 DEF Advance, ScannerState

\* What every call of the scanner returns.
ScanResult == [s : ScannerState, tok : Token, res : {"OK", "ERROR", "STARVED"}]

\* The three results of a call are typed: a token, an error, and "more text".
LEMMA ResultTypes ==
  ASSUME NEW s \in ScannerState
  PROVE  /\ \A tok \in Token : Scanned(s, tok) \in ScanResult
         /\ ScanError(s) \in ScanResult
         /\ Starved(s) \in ScanResult
<1>1. TokenAt(s, "NONE") \in Token
  BY TokenAtType DEF TokenType
<1> QED BY <1>1 DEF Scanned, ScanError, Starved, ScanResult

\* Taking a lexeme as a token gives a typed scanner and token.
LEMMA TakeType ==
  ASSUME NEW s \in ScannerState, s.buf # <<>>, NEW type \in TokenType
  PROVE  /\ Take(s, type) \in ScanResult
         /\ TakeNode(s, type) \in ScanResult
         /\ TakeProps(s, type) \in ScanResult
<1>1. TokenAt(s, type) \in Token
  BY TokenAtType
<1>2. Advance(s) \in ScannerState
  BY AdvanceType
<1>3. /\ s.line \in Nat /\ s.col \in Nat
      /\ s.props_col \in Nat \cup {-1}
  BY DEF ScannerState
<1>4. Take(s, type) \in ScanResult
  BY <1>1, <1>2, ResultTypes DEF Take
<1>5. TakeNode(s, type) \in ScanResult
  BY <1>1, <1>2, <1>3, NoteNodeType, ResultTypes DEF TakeNode
<1>6. TakeProps(s, type) \in ScanResult
  <2> DEFINE c == IF s.props_col >= 0 THEN s.props_col ELSE s.col
  <2>1. c \in Nat \cup {-1}
    BY <1>3
  <2>2. TakeProps(s, type) = Scanned([Advance(s) EXCEPT !.props_col = c], TokenAt(s, type))
    BY DEF TakeProps
  <2> HIDE DEF c
  <2>3. [Advance(s) EXCEPT !.props_col = c] \in ScannerState
    BY <1>2, <2>1 DEF ScannerState
  <2> QED BY <1>1, <2>2, <2>3, ResultTypes
<1> QED BY <1>4, <1>5, <1>6

\* A "..." and what follows it on its line are scanned to a typed result.
LEMMA ScanDocEndType ==
  ASSUME NEW s \in ScannerState, s.buf # <<>>
  PROVE  ScanDocEnd(s) \in ScanResult
<1>1. Unroll(s, -1) \in ScannerState /\ Unroll(s, -1).buf # <<>>
  BY UnrollType
<1>2. Take(Unroll(s, -1), "DOC_END") \in ScanResult
  BY <1>1, TakeType DEF TokenType
<1>3. Take(Unroll(s, -1), "DOC_END").s \in ScannerState
  BY <1>2 DEF ScanResult
<1> QED BY <1>2, <1>3, ResultTypes DEF ScanDocEnd

\* An opening bracket is scanned to a typed result.
LEMMA ScanOpenType ==
  ASSUME NEW s \in ScannerState, s.buf # <<>>, NEW is_map \in BOOLEAN
  PROVE  ScanOpen(s, is_map) \in ScanResult
<1>1. FlowPush(s, is_map) \in ScannerState /\ FlowPush(s, is_map).buf # <<>>
  BY FlowPushType
<1> QED BY <1>1, TakeType DEF ScanOpen, TokenType

\* A closing bracket is scanned to a typed result.
LEMMA ScanCloseType ==
  ASSUME NEW s \in ScannerState, s.buf # <<>>, NEW type \in TokenType
  PROVE  ScanClose(s, type) \in ScanResult
<1> DEFINE left == IF InFlow(s) THEN s.flows[Len(s.flows)]
                   ELSE [line |-> s.line, col |-> s.col, props_col |-> s.props_col]
<1>1. Advance(FlowPop(s)) \in ScannerState
  BY FlowPopType, AdvanceType
<1>2. left.line \in Nat /\ left.col \in Nat /\ left.props_col \in Nat \cup {-1}
  <2>1. CASE InFlow(s)
    <3>1. s.flows \in Seq(OpenBracket) /\ s.flows # <<>>
      BY <2>1 DEF InFlow, ScannerState
    <3>2. s.flows[Len(s.flows)] \in OpenBracket
      BY <3>1
    <3> QED BY <2>1, <3>2 DEF OpenBracket
  <2>2. CASE ~InFlow(s)
    BY <2>2 DEF ScannerState
  <2> QED BY <2>1, <2>2
<1>3. TokenAt(s, type) \in Token
  BY TokenAtType
<1> HIDE DEF left
<1>4. NoteNode(Advance(FlowPop(s)), left.line, left.col, left.props_col) \in ScannerState
  BY <1>1, <1>2, NoteNodeType
<1> QED BY <1>3, <1>4, ResultTypes DEF ScanClose, left

\* A "," is scanned to a typed result.
LEMMA ScanFlowEntryType ==
  ASSUME NEW s \in ScannerState, s.buf # <<>>
  PROVE  ScanFlowEntry(s) \in ScanResult
<1> DEFINE k == s.explicit_key /\ ~AtExplicitKey(s)
           t == [s EXCEPT !.explicit_key = k]
<1>1. k \in BOOLEAN
  OBVIOUS
<1>2. ScanFlowEntry(s) = Take(t, "FLOW_ENTRY")
  BY DEF ScanFlowEntry
<1> HIDE DEF k
<1>3. t \in ScannerState /\ t.buf # <<>>
  BY <1>1 DEF ScannerState
<1> HIDE DEF t
<1> QED BY <1>2, <1>3, TakeType DEF TokenType

\* A "-" is scanned to a typed result.
LEMMA ScanBlockSeqEntryType ==
  ASSUME NEW s \in ScannerState, s.buf # <<>>
  PROVE  ScanBlockSeqEntry(s) \in ScanResult
<1>1. s.col \in Nat
  BY DEF ScannerState
<1>2. IndentPush(s, s.col) \in ScannerState /\ IndentPush(s, s.col).buf # <<>>
  BY <1>1, IndentPushType
<1> QED BY <1>2, TakeType, ResultTypes DEF ScanBlockSeqEntry, TokenType

\* A "?" is scanned to a typed result.
LEMMA ScanBlockMapKeyType ==
  ASSUME NEW s \in ScannerState, s.buf # <<>>
  PROVE  ScanBlockMapKey(s) \in ScanResult
<1> DEFINE t == [s EXCEPT !.explicit_key = TRUE, !.explicit_depth = Len(s.flows)]
<1>1. Len(s.flows) \in Nat /\ s.col \in Nat
  BY DEF ScannerState
<1>2. t \in ScannerState /\ t.buf # <<>>
  BY <1>1 DEF ScannerState
<1> HIDE DEF t
<1>3. IndentPush(t, s.col) \in ScannerState /\ IndentPush(t, s.col).buf # <<>>
  BY <1>1, <1>2, IndentPushType
<1>4. Take(IF InFlow(s) THEN t ELSE IndentPush(t, s.col), "BLOCK_MAP_KEY") \in ScanResult
  BY <1>2, <1>3, TakeType DEF TokenType
<1> QED BY <1>4, ResultTypes DEF ScanBlockMapKey, t

\* The column of the mapping a ":" belongs to is a column.
LEMMA MapColumnType ==
  ASSUME NEW s \in ScannerState
  PROVE  MapColumn(s) \in Nat
BY DEF MapColumn, KeyColumn, ScannerState

\* A ":" is scanned to a typed result.
LEMMA ScanBlockMapValueType ==
  ASSUME NEW s \in ScannerState, s.buf # <<>>
  PROVE  ScanBlockMapValue(s) \in ScanResult
<1> DEFINE k == s.explicit_key /\ ClassifyColon(s) # "EXPLICIT"
           l == IF ~InFlow(s) /\ ClassifyColon(s) = "IMPLICIT"
                THEN s.line ELSE s.key_colon_line
           t == [s EXCEPT !.explicit_key = k, !.key_colon_line = l]
<1>1. k \in BOOLEAN
  OBVIOUS
<1>2. l \in Nat
  BY DEF ScannerState
<1>3. t = [s EXCEPT !.explicit_key = @ /\ ClassifyColon(s) # "EXPLICIT",
                    !.key_colon_line = IF ~InFlow(s) /\ ClassifyColon(s) = "IMPLICIT"
                                       THEN s.line ELSE @]
  BY DEF ScannerState
<1> HIDE DEF k, l
<1>4. t \in ScannerState /\ t.buf # <<>>
  BY <1>1, <1>2 DEF ScannerState
<1> HIDE DEF t
<1>5. IndentPush(t, MapColumn(s)) \in ScannerState /\ IndentPush(t, MapColumn(s)).buf # <<>>
  BY <1>4, IndentPushType, MapColumnType
<1>6. Take(IF InFlow(s) THEN t ELSE IndentPush(t, MapColumn(s)), "BLOCK_MAP_VALUE")
        \in ScanResult
  BY <1>4, <1>5, TakeType DEF TokenType
<1> QED BY <1>3, <1>6, ResultTypes DEF ScanBlockMapValue

\* Any lexeme is scanned to a typed result.
LEMMA ScanLexemeType ==
  ASSUME NEW s \in ScannerState, s.buf # <<>>
  PROVE  ScanLexeme(s) \in ScanResult
<1>1. Head(s.buf).kind \in AllKinds
  BY HeadType DEF Lexeme
<1>2. Unroll(s, -1) \in ScannerState /\ Unroll(s, -1).buf # <<>>
  BY UnrollType
<1>3. Take(Unroll(s, -1), "DOC_START") \in ScanResult
  BY <1>2, TakeType DEF TokenType
<1>4. /\ ScanOpen(s, FALSE) \in ScanResult /\ ScanOpen(s, TRUE) \in ScanResult
      /\ ScanClose(s, "FLOW_SEQ_END") \in ScanResult
      /\ ScanClose(s, "FLOW_MAP_END") \in ScanResult
  BY ScanOpenType, ScanCloseType DEF TokenType
<1>5. /\ Take(s, "DIRECTIVE") \in ScanResult /\ Take(s, "SCALAR") \in ScanResult
      /\ TakeNode(s, "SCALAR") \in ScanResult /\ TakeNode(s, "ALIAS") \in ScanResult
      /\ TakeProps(s, "TAG") \in ScanResult /\ TakeProps(s, "ANCHOR") \in ScanResult
  BY TakeType DEF TokenType
<1>6. ScanError(Advance(s)) \in ScanResult /\ ScanError(s) \in ScanResult
  BY AdvanceType, ResultTypes
<1> QED BY <1>1, <1>3, <1>4, <1>5, <1>6, ScanDocEndType, ScanFlowEntryType,
           ScanBlockSeqEntryType, ScanBlockMapKeyType, ScanBlockMapValueType
        DEF ScanLexeme, AllKinds

\* The end of the text is scanned to a typed result.
LEMMA ScanEndType ==
  ASSUME NEW s \in ScannerState
  PROVE  ScanEnd(s) \in ScanResult
<1> DEFINE u == Unroll(s, -1)
<1>0. u \in ScannerState
  BY UnrollType
<1>1. [u EXCEPT !.stream_ended = TRUE] \in ScannerState
  <2> HIDE DEF u
  <2> QED BY <1>0 DEF ScannerState
<1>2. TokenAt(s, "NONE") \in Token /\ TokenAt(s, "STREAM_END") \in Token
  BY TokenAtType DEF TokenType
<1> QED BY <1>1, <1>2, ResultTypes DEF ScanEnd

\* A call of the scanner returns a scanner and a token, whatever the text.
LEMMA ScanType ==
  ASSUME NEW s \in ScannerState
  PROVE  Scan(s) \in ScanResult
<1>1. CASE ~s.stream_started
  <2>1. [s EXCEPT !.stream_started = TRUE] \in ScannerState
    BY DEF ScannerState
  <2>2. TokenAt(s, "STREAM_START") \in Token
    BY TokenAtType DEF TokenType
  <2> QED BY <1>1, <2>1, <2>2, ResultTypes DEF Scan
<1>2. CASE s.stream_started /\ s.buf = <<>>
  BY <1>2, ScanEndType, ResultTypes DEF Scan
<1>3. CASE s.stream_started /\ s.buf # <<>>
  <2> DEFINE at == SkipBlanks(s)
  <2>1. at \in ScannerState /\ at.buf # <<>>
    BY <1>3, SkipBlanksType
  <2>2. at.col \in Int
    BY <2>1 DEF ScannerState
  <2> HIDE DEF at
  <2>3. Unroll(at, at.col) \in ScannerState /\ Unroll(at, at.col).buf # <<>>
    BY <2>1, <2>2, UnrollType
  <2>4. /\ ScanLexeme(at) \in ScanResult
        /\ ScanLexeme(Unroll(at, at.col)) \in ScanResult
        /\ ScanError(at) \in ScanResult
    BY <2>1, <2>3, ScanLexemeType, ResultTypes
  <2> QED BY <1>3, <2>4 DEF Scan, ScanAt, at
<1> QED BY <1>1, <1>2, <1>3

-----------------------------------------------------------------------------
(***************************************************************************)
(* The open brackets.                                                      *)
(***************************************************************************)

Opening == {"FLOW_SEQ_START", "FLOW_MAP_START"}
Closing == {"FLOW_SEQ_END", "FLOW_MAP_END"}

\* The brackets open after a call, from those open before it and its token.
FlowsFollow(s, r) ==
  r.res = "OK" =>
    /\ r.tok.type \in Opening => Len(r.s.flows) = Len(s.flows) + 1
    /\ r.tok.type \in Closing =>
         Len(r.s.flows) = IF s.flows = <<>> THEN 0 ELSE Len(s.flows) - 1
    /\ r.tok.type \notin Opening \cup Closing => r.s.flows = s.flows

\* A call that fails or needs more text is of no concern.
LEMMA FailedFollow ==
  ASSUME NEW s, NEW t
  PROVE  FlowsFollow(s, ScanError(t)) /\ FlowsFollow(s, Starved(t))
BY DEF FlowsFollow, ScanError, Starved

\* Consuming a lexeme keeps the open brackets.
LEMMA TakeFlows ==
  ASSUME NEW s \in ScannerState, s.buf # <<>>, NEW type
  PROVE  /\ Take(s, type).res = "OK" /\ Take(s, type).tok.type = type
         /\ Take(s, type).s.flows = s.flows
         /\ TakeNode(s, type).tok.type = type /\ TakeNode(s, type).s.flows = s.flows
         /\ TakeProps(s, type).tok.type = type /\ TakeProps(s, type).s.flows = s.flows
<1>1. Advance(s) \in ScannerState /\ Advance(s).flows = s.flows
  BY AdvanceType DEF Advance, ScannerState
<1> QED BY <1>1 DEF Take, TakeNode, TakeProps, Scanned, TokenAt, NoteNode, ScannerState

\* A token that is no bracket is taken from a scanner with the same brackets.
LEMMA TakeFollow ==
  ASSUME NEW s, NEW t \in ScannerState, t.buf # <<>>, t.flows = s.flows,
         NEW type, type \notin Opening \cup Closing
  PROVE  /\ FlowsFollow(s, Take(t, type))
         /\ FlowsFollow(s, TakeNode(t, type)) /\ FlowsFollow(s, TakeProps(t, type))
BY TakeFlows DEF FlowsFollow

\* Neither the indentation nor a new line concerns the open brackets.
LEMMA IndentFlows ==
  ASSUME NEW s \in ScannerState, NEW col
  PROVE  /\ Unroll(s, col).flows = s.flows /\ IndentPush(s, col).flows = s.flows
         /\ SkipBlanks(s).flows = s.flows
BY DEF Unroll, IndentPush, SkipBlanks, ScannerState

\* "[" and "{" open one (flow_push).
LEMMA ScanOpenFollow ==
  ASSUME NEW s \in ScannerState, s.buf # <<>>, NEW is_map \in BOOLEAN
  PROVE  FlowsFollow(s, ScanOpen(s, is_map))
<1> DEFINE b == [is_map |-> is_map, line |-> s.line, col |-> s.col, props_col |-> s.props_col]
           t == FlowPush(s, is_map)
           type == IF is_map THEN "FLOW_MAP_START" ELSE "FLOW_SEQ_START"
<1>1. b \in OpenBracket /\ s.flows \in Seq(OpenBracket)
  BY DEF ScannerState, OpenBracket
<1>2. t.flows = Append(s.flows, b)
  BY DEF FlowPush, ScannerState
<1> HIDE DEF b
<1>3. Len(t.flows) = Len(s.flows) + 1
  BY <1>1, <1>2
<1>4. t \in ScannerState /\ t.buf # <<>>
  BY FlowPushType
<1>5. ScanOpen(s, is_map) = Take(t, type)
  BY DEF ScanOpen
<1>6. type \in Opening /\ type \notin Closing
  BY DEF Opening, Closing
<1> HIDE DEF t, type
<1> QED BY <1>3, <1>4, <1>5, <1>6, TakeFlows DEF FlowsFollow

\* "]" and "}" close one, if one is open (flow_pop).
LEMMA ScanCloseFollow ==
  ASSUME NEW s \in ScannerState, s.buf # <<>>, NEW type \in Closing
  PROVE  FlowsFollow(s, ScanClose(s, type))
<1> DEFINE t == FlowPop(s)
           left == IF InFlow(s) THEN s.flows[Len(s.flows)]
                   ELSE [line |-> s.line, col |-> s.col, props_col |-> s.props_col]
           n == IF s.flows = <<>> THEN 0 ELSE Len(s.flows) - 1
<1>1. Len(t.flows) = n
  <2>1. CASE s.flows = <<>>
    BY <2>1 DEF FlowPop, InFlow
  <2>2. CASE s.flows # <<>>
    <3>1. s.flows \in Seq(OpenBracket)
      BY DEF ScannerState
    <3>2. Len(SubSeq(s.flows, 1, Len(s.flows) - 1)) = Len(s.flows) - 1
      BY <2>2, <3>1
    <3>3. t.flows = SubSeq(s.flows, 1, Len(s.flows) - 1)
      BY <2>2 DEF FlowPop, InFlow, ScannerState
    <3> QED BY <2>2, <3>2, <3>3
  <2> QED BY <2>1, <2>2
<1>2. t \in ScannerState /\ t.buf # <<>>
  BY FlowPopType
<1>3. ScanClose(s, type) =
        Scanned(NoteNode(Advance(t), left.line, left.col, left.props_col), TokenAt(s, type))
  BY DEF ScanClose
<1> HIDE DEF t, left
<1>4. Advance(t) \in ScannerState /\ Advance(t).flows = t.flows
  BY <1>2, AdvanceType DEF Advance, ScannerState
<1>5. NoteNode(Advance(t), left.line, left.col, left.props_col).flows = t.flows
  BY <1>4 DEF NoteNode, ScannerState
<1>6. ScanClose(s, type).s.flows = t.flows /\ ScanClose(s, type).tok.type = type
  BY <1>3, <1>5 DEF Scanned, TokenAt
<1>7. type \notin Opening
  BY DEF Opening, Closing
<1> QED BY <1>1, <1>6, <1>7 DEF FlowsFollow

\* Nor does any other lexeme.
LEMMA ScanLexemeFollow ==
  ASSUME NEW s \in ScannerState, s.buf # <<>>
  PROVE  FlowsFollow(s, ScanLexeme(s))
<1>1. Head(s.buf).kind \in AllKinds
  BY HeadType DEF Lexeme
<1>2. /\ Unroll(s, -1) \in ScannerState /\ Unroll(s, -1).buf # <<>>
      /\ Unroll(s, -1).flows = s.flows /\ s.col \in Nat
  <2>1. -1 \in Int /\ s.col \in Nat
    BY DEF ScannerState
  <2>2. Unroll(s, -1) \in ScannerState /\ Unroll(s, -1).buf # <<>>
    BY <2>1, UnrollType
  <2>3. Unroll(s, -1).flows = s.flows
    BY IndentFlows
  <2> QED BY <2>1, <2>2, <2>3
<1>3. \A type \in {"DOC_START", "DOC_END", "DIRECTIVE", "FLOW_ENTRY", "BLOCK_SEQ_ENTRY",
                   "BLOCK_MAP_KEY", "BLOCK_MAP_VALUE", "TAG", "ANCHOR", "ALIAS", "SCALAR"} :
        type \notin Opening \cup Closing
  BY DEF Opening, Closing
<1>4. FlowsFollow(s, Take(Unroll(s, -1), "DOC_START"))
  BY <1>2, <1>3, TakeFollow
<1>5. FlowsFollow(s, ScanDocEnd(s))
  <2>1. FlowsFollow(s, Take(Unroll(s, -1), "DOC_END"))
    BY <1>2, <1>3, TakeFollow
  <2> QED BY <2>1, FailedFollow DEF ScanDocEnd
<1>6. /\ FlowsFollow(s, Take(s, "DIRECTIVE")) /\ FlowsFollow(s, Take(s, "SCALAR"))
      /\ FlowsFollow(s, TakeNode(s, "SCALAR")) /\ FlowsFollow(s, TakeNode(s, "ALIAS"))
      /\ FlowsFollow(s, TakeProps(s, "TAG")) /\ FlowsFollow(s, TakeProps(s, "ANCHOR"))
  BY <1>3, TakeFollow
<1>7. FlowsFollow(s, ScanFlowEntry(s))
  <2> DEFINE k == s.explicit_key /\ ~AtExplicitKey(s)
             t == [s EXCEPT !.explicit_key = k]
  <2>1. k \in BOOLEAN
    OBVIOUS
  <2>2. ScanFlowEntry(s) = Take(t, "FLOW_ENTRY")
    BY DEF ScanFlowEntry
  <2> HIDE DEF k
  <2>3. t \in ScannerState /\ t.buf # <<>> /\ t.flows = s.flows
    BY <2>1 DEF ScannerState
  <2> HIDE DEF t
  <2> QED BY <1>3, <2>2, <2>3, TakeFollow
<1>8. FlowsFollow(s, ScanBlockSeqEntry(s))
  <2>1. /\ IndentPush(s, s.col) \in ScannerState /\ IndentPush(s, s.col).buf # <<>>
        /\ IndentPush(s, s.col).flows = s.flows
    BY <1>2, IndentPushType, IndentFlows
  <2>2. FlowsFollow(s, Take(IndentPush(s, s.col), "BLOCK_SEQ_ENTRY"))
    BY <1>3, <2>1, TakeFollow
  <2> QED BY <2>2, FailedFollow DEF ScanBlockSeqEntry
<1>9. FlowsFollow(s, ScanBlockMapKey(s))
  <2> DEFINE t == [s EXCEPT !.explicit_key = TRUE, !.explicit_depth = Len(s.flows)]
             u == IF InFlow(s) THEN t ELSE IndentPush(t, s.col)
  <2>1. ScanBlockMapKey(s) \in {ScanError(s), Take(u, "BLOCK_MAP_KEY")}
    BY DEF ScanBlockMapKey
  <2>2. t \in ScannerState /\ t.buf # <<>> /\ t.flows = s.flows
    <3> HIDE DEF u
    <3>1. Len(s.flows) \in Nat
      BY DEF ScannerState
    <3> QED BY <3>1 DEF ScannerState
  <2> HIDE DEF t
  <2>3. u \in ScannerState /\ u.buf # <<>> /\ u.flows = s.flows
    BY <1>2, <2>2, IndentPushType, IndentFlows
  <2> HIDE DEF u
  <2>4. FlowsFollow(s, Take(u, "BLOCK_MAP_KEY"))
    BY <1>3, <2>3, TakeFollow
  <2> QED BY <2>1, <2>4, FailedFollow
<1>10. FlowsFollow(s, ScanBlockMapValue(s))
  <2> DEFINE k == s.explicit_key /\ ClassifyColon(s) # "EXPLICIT"
             l == IF ~InFlow(s) /\ ClassifyColon(s) = "IMPLICIT"
                  THEN s.line ELSE s.key_colon_line
             t == [s EXCEPT !.explicit_key = k, !.key_colon_line = l]
             u == IF InFlow(s) THEN t ELSE IndentPush(t, MapColumn(s))
  <2>1. t = [s EXCEPT !.explicit_key = @ /\ ClassifyColon(s) # "EXPLICIT",
                      !.key_colon_line = IF ~InFlow(s) /\ ClassifyColon(s) = "IMPLICIT"
                                         THEN s.line ELSE @]
    BY DEF ScannerState
  <2>2. k \in BOOLEAN /\ l \in Nat
    BY DEF ScannerState
  <2> HIDE DEF k, l
  <2>3. t \in ScannerState /\ t.buf # <<>> /\ t.flows = s.flows
    BY <2>2 DEF ScannerState
  <2> HIDE DEF t
  <2>4. ScanBlockMapValue(s) \in {ScanError(s), Take(u, "BLOCK_MAP_VALUE")}
    BY <2>1 DEF ScanBlockMapValue
  <2>5. u \in ScannerState /\ u.buf # <<>> /\ u.flows = s.flows
    BY <2>3, IndentPushType, IndentFlows, MapColumnType
  <2> HIDE DEF u
  <2>6. FlowsFollow(s, Take(u, "BLOCK_MAP_VALUE"))
    BY <1>3, <2>5, TakeFollow
  <2> QED BY <2>4, <2>6, FailedFollow
<1>11. /\ FlowsFollow(s, ScanOpen(s, FALSE)) /\ FlowsFollow(s, ScanOpen(s, TRUE))
       /\ FlowsFollow(s, ScanClose(s, "FLOW_SEQ_END"))
       /\ FlowsFollow(s, ScanClose(s, "FLOW_MAP_END"))
  BY ScanOpenFollow, ScanCloseFollow DEF Closing
<1>12. FlowsFollow(s, ScanError(s)) /\ FlowsFollow(s, ScanError(Advance(s)))
  BY FailedFollow
<1> QED BY <1>1, <1>4, <1>5, <1>6, <1>7, <1>8, <1>9, <1>10, <1>11, <1>12
        DEF ScanLexeme, AllKinds

\* A call of the scanner opens or closes a bracket when its token does, and
\* otherwise keeps them; its first token starts the stream.
LEMMA ScanFollow ==
  ASSUME NEW s \in ScannerState
  PROVE  /\ FlowsFollow(s, Scan(s))
         /\ ~s.stream_started => Scan(s).res = "OK" /\ Scan(s).tok.type = "STREAM_START"
<1>1. CASE ~s.stream_started
  <2>1. [s EXCEPT !.stream_started = TRUE].flows = s.flows
    BY DEF ScannerState
  <2>2. /\ Scan(s).res = "OK" /\ Scan(s).tok.type = "STREAM_START"
        /\ Scan(s).s = [s EXCEPT !.stream_started = TRUE]
    BY <1>1 DEF Scan, Scanned, TokenAt
  <2> QED BY <2>1, <2>2 DEF FlowsFollow, Opening, Closing
<1>2. CASE s.stream_started /\ s.buf = <<>>
  <2>1. FlowsFollow(s, ScanEnd(s))
    <3> DEFINE u == Unroll(s, -1)
    <3>1. u \in ScannerState /\ u.flows = s.flows
      BY UnrollType, IndentFlows
    <3> HIDE DEF u
    <3>2. [u EXCEPT !.stream_ended = TRUE].flows = s.flows
      BY <3>1 DEF ScannerState
    <3> QED BY <3>2 DEF ScanEnd, Scanned, TokenAt, FlowsFollow, Opening, Closing, u
  <2> QED BY <1>2, <2>1, FailedFollow DEF Scan
<1>3. CASE s.stream_started /\ s.buf # <<>>
  <2> DEFINE at == SkipBlanks(s)
             u == Unroll(at, at.col)
  <2>1. at \in ScannerState /\ at.buf # <<>> /\ at.flows = s.flows
    BY <1>3, SkipBlanksType, IndentFlows
  <2>2. at.col \in Int
    BY <2>1 DEF ScannerState
  <2>3. Scan(s) \in {ScanError(at), ScanLexeme(at), ScanLexeme(u)}
    BY <1>3 DEF Scan, ScanAt
  <2> HIDE DEF at
  <2>4. u \in ScannerState /\ u.buf # <<>> /\ u.flows = s.flows
    BY <2>1, <2>2, UnrollType, IndentFlows
  <2> HIDE DEF u
  <2>5. FlowsFollow(at, ScanLexeme(at)) /\ FlowsFollow(u, ScanLexeme(u))
    BY <2>1, <2>4, ScanLexemeFollow
  <2>6. FlowsFollow(s, ScanLexeme(at)) /\ FlowsFollow(s, ScanLexeme(u))
    BY <2>1, <2>4, <2>5 DEF FlowsFollow
  <2> QED BY <1>3, <2>3, <2>6, FailedFollow
<1> QED BY <1>1, <1>2, <1>3

-----------------------------------------------------------------------------
(***************************************************************************)
(* The flow-key lookahead.                                                 *)
(***************************************************************************)

\* The empty cache is one.
LEMMA NoFlowKeysType == NoFlowKeys \in FlowKeys
BY DEF NoFlowKeys, FlowKeys

\* A lookahead stops somewhere in the text.
LEMMA FirstStopType ==
  ASSUME NEW ahead \in Seq(Lexeme), Stops(ahead) # {}
  PROVE  FirstStop(ahead) \in 1..Len(ahead)
<1>1. Stops(ahead) \in SUBSET (1..Len(ahead)) /\ Stops(ahead) \in SUBSET Nat
  BY DEF Stops
<1>2. \E i \in Stops(ahead) : \A j \in Stops(ahead) : i <= j
  BY <1>1, NatMin
<1>3. FirstStop(ahead) \in Stops(ahead)
  BY <1>2 DEF FirstStop
<1> QED BY <1>1, <1>3

\* A lookahead's answers make up a cache.
LEMMA FkScanType ==
  ASSUME NEW s \in ScannerState, NEW offset \in Nat
  PROVE  FkScan(s, offset) \in FlowKeys
<1> DEFINE ahead == s.buf
           stop == IF Stops(ahead) = {} THEN Len(ahead) + 1 ELSE FirstStop(ahead)
           why == IF Stops(ahead) = {} THEN "UNTERMINATED" ELSE StopsAt(ahead, stop)
           last == IF why = "CLOSED" THEN stop ELSE stop - 1
           hi == IF why \in {"CLOSED", "LINE"} THEN offset + last ELSE MaxText
           opens == {left \in 0..last :
                      \E close \in 0..last : /\ Closes(ahead, left, close)
                                             /\ ColonFollows(ahead, close)}
           keys == IF why = "AMBIGUOUS" THEN {} ELSE {offset + i : i \in opens}
<1>1. ahead \in Seq(Lexeme)
  BY DEF ScannerState
<1>2. stop \in Nat /\ stop >= 1
  BY <1>1, FirstStopType
<1>3. FkScan(s, offset) = [valid |-> TRUE, lo |-> offset, hi |-> hi, keys |-> keys,
                           ambiguous |-> why = "AMBIGUOUS"]
  BY DEF FkScan
<1> HIDE DEF stop, why
<1>4. last \in Nat
  BY <1>2
<1> HIDE DEF last
<1>5. hi \in Nat
  BY <1>4, MaxTextAssumption
<1>6. opens \in SUBSET Nat
  BY <1>4
<1> HIDE DEF opens
<1>7. keys \in SUBSET Nat
  BY <1>6
<1> HIDE DEF hi, keys
<1> QED BY <1>3, <1>5, <1>7 DEF FlowKeys

-----------------------------------------------------------------------------
(***************************************************************************)
(* How far a lookahead reads, and what a part of the same text answers.    *)
(***************************************************************************)

\* How many brackets there are up to a place, from how many before it.
LEMMA BracketsStep ==
  ASSUME NEW a \in Seq(Lexeme), NEW kinds, NEW i \in Nat
  PROVE  /\ Brackets(a, i, kinds) \in Nat
         /\ Brackets(a, i + 1, kinds) =
              Brackets(a, i, kinds) + (IF KindAt(a, i + 1) \in kinds THEN 1 ELSE 0)
<1> DEFINE before == {j \in 0..i : KindAt(a, j) \in kinds}
           all == {j \in 0..(i + 1) : KindAt(a, j) \in kinds}
<1>1. IsFiniteSet(before) /\ Cardinality(before) \in Nat
  <2>1. IsFiniteSet(0..i) /\ before \subseteq 0..i
    BY FS_Interval
  <2> HIDE DEF before
  <2> QED BY <2>1, FS_Subset, FS_CardinalityType
<1>2. all = IF KindAt(a, i + 1) \in kinds THEN before \cup {i + 1} ELSE before
  <2>1. ASSUME NEW j
        PROVE  j \in all <=> j \in before \/ (j = i + 1 /\ KindAt(a, i + 1) \in kinds)
    OBVIOUS
  <2> HIDE DEF all, before
  <2> QED BY <2>1
<1>3. Cardinality(before \cup {i + 1}) = Cardinality(before) + 1
  <2>1. i + 1 \notin before
    OBVIOUS
  <2> HIDE DEF before
  <2> QED BY <1>1, <2>1, FS_AddElement
<1>4. Brackets(a, i, kinds) = Cardinality(before) /\ Brackets(a, i + 1, kinds) = Cardinality(all)
  BY DEF Brackets
<1> HIDE DEF before, all
<1> QED BY <1>1, <1>2, <1>3, <1>4

\* How deep the text is nested, from how deep before.
LEMMA DepthStep ==
  ASSUME NEW a \in Seq(Lexeme), NEW i \in Nat
  PROVE  /\ FlowDepth(a, i) \in Int
         /\ FlowDepth(a, i + 1) =
              FlowDepth(a, i) + (IF KindAt(a, i + 1) \in Openers THEN 1
                                 ELSE IF KindAt(a, i + 1) \in Closers THEN -1 ELSE 0)
<1>1. /\ Brackets(a, i, Openers) \in Nat /\ Brackets(a, i, Closers) \in Nat
      /\ Brackets(a, i + 1, Openers) =
           Brackets(a, i, Openers) + (IF KindAt(a, i + 1) \in Openers THEN 1 ELSE 0)
      /\ Brackets(a, i + 1, Closers) =
           Brackets(a, i, Closers) + (IF KindAt(a, i + 1) \in Closers THEN 1 ELSE 0)
  BY BracketsStep
<1>2. ~(KindAt(a, i + 1) \in Openers /\ KindAt(a, i + 1) \in Closers)
  BY DEF Openers, Closers
<1> QED BY <1>1, <1>2 DEF FlowDepth

\* The bracket that the lookahead starts from is open.
LEMMA DepthStart ==
  ASSUME NEW a \in Seq(Lexeme)
  PROVE  FlowDepth(a, 0) = 1
<1> DEFINE left == {j \in 0..0 : KindAt(a, j) \in Openers}
           closed == {j \in 0..0 : KindAt(a, j) \in Closers}
<1>1. left = {0} /\ closed = {}
  <2>1. KindAt(a, 0) \in Openers /\ KindAt(a, 0) \notin Closers
    BY DEF KindAt, Openers, Closers
  <2>2. ASSUME NEW j PROVE (j \in left <=> j = 0) /\ j \notin closed
    BY <2>1
  <2> HIDE DEF left, closed
  <2> QED BY <2>2
<1>2. Brackets(a, 0, Openers) = Cardinality(left)
      /\ Brackets(a, 0, Closers) = Cardinality(closed)
  BY DEF Brackets
<1>3. Cardinality({0}) = 1 /\ Cardinality({}) = 0
  BY FS_Singleton, FS_EmptySet
<1> HIDE DEF left, closed
<1> QED BY <1>1, <1>2, <1>3 DEF FlowDepth

\* Read from one of its brackets on, a text is as much less deep as the
\* bracket is.
LEMMA DepthShift ==
  ASSUME NEW a \in Seq(Lexeme), NEW b \in Seq(Lexeme), NEW d \in Nat, NEW n \in Nat,
         \A i \in 1..n : KindAt(b, i) = KindAt(a, d + i)
  PROVE  \A i \in 0..n : FlowDepth(b, i) = FlowDepth(a, d + i) - FlowDepth(a, d) + 1
<1> DEFINE Same(i) == FlowDepth(b, i) = FlowDepth(a, d + i) - FlowDepth(a, d) + 1
           bad == {i \in 0..n : ~Same(i)}
<1> SUFFICES bad = {}
  OBVIOUS
<1> SUFFICES ASSUME bad # {} PROVE FALSE
  OBVIOUS
<1>1. PICK i \in bad : \A j \in bad : i <= j
  <2>1. bad \in SUBSET Nat
    OBVIOUS
  <2> HIDE DEF bad
  <2> QED BY <2>1, NatMin
<1>2. i # 0
  <2>1. FlowDepth(b, 0) = 1 /\ FlowDepth(a, d) \in Int /\ d + 0 = d
    BY DepthStart, DepthStep
  <2>2. Same(0)
    BY <2>1
  <2> QED BY <2>2
<1>3. PICK k \in Nat : i = k + 1
  <2>1. i \in Nat /\ i - 1 \in Nat /\ i = (i - 1) + 1
    BY <1>2
  <2> QED BY <2>1
<1>4. Same(k)
  <2>1. k \in 0..n /\ ~(i <= k)
    BY <1>3
  <2> QED BY <1>1, <2>1
<1>5. KindAt(b, k + 1) = KindAt(a, (d + k) + 1)
  <2>1. k + 1 \in 1..n /\ d + (k + 1) = (d + k) + 1
    BY <1>3
  <2> QED BY <2>1
<1>6. /\ FlowDepth(b, k) \in Int /\ FlowDepth(a, d + k) \in Int /\ FlowDepth(a, d) \in Int
      /\ FlowDepth(b, k + 1) = FlowDepth(b, k)
           + (IF KindAt(b, k + 1) \in Openers THEN 1
              ELSE IF KindAt(b, k + 1) \in Closers THEN -1 ELSE 0)
      /\ FlowDepth(a, (d + k) + 1) = FlowDepth(a, d + k)
           + (IF KindAt(a, (d + k) + 1) \in Openers THEN 1
              ELSE IF KindAt(a, (d + k) + 1) \in Closers THEN -1 ELSE 0)
  <2>1. d + k \in Nat
    OBVIOUS
  <2> QED BY <2>1, DepthStep
<1>7. FlowDepth(b, k + 1) = FlowDepth(a, (d + k) + 1) - FlowDepth(a, d) + 1
  <2> DEFINE step == IF KindAt(b, k + 1) \in Openers THEN 1
                     ELSE IF KindAt(b, k + 1) \in Closers THEN -1 ELSE 0
  <2>1. step \in Int
    OBVIOUS
  <2>2. FlowDepth(b, k + 1) = FlowDepth(b, k) + step
        /\ FlowDepth(a, (d + k) + 1) = FlowDepth(a, d + k) + step
    BY <1>5, <1>6
  <2> DEFINE below == FlowDepth(a, d)
             here == FlowDepth(a, d + k)
  <2>3. FlowDepth(b, k) = here - below + 1 /\ here \in Int /\ below \in Int
    BY <1>4, <1>6
  <2> HIDE DEF step, below, here
  <2>4. (here - below + 1) + step = (here + step) - below + 1
    BY <2>1, <2>3
  <2> QED BY <2>2, <2>3, <2>4 DEF below, here
<1>8. d + i = (d + k) + 1
  BY <1>3
<1>9. Same(i)
  BY <1>3, <1>7, <1>8
<1> QED BY <1>1, <1>9

\* Where the text is less deep than at d, what is open at d has been closed.
LEMMA FirstClose ==
  ASSUME NEW a \in Seq(Lexeme), NEW d \in Nat, NEW e \in Nat, d <= e,
         FlowDepth(a, e) < FlowDepth(a, d)
  PROVE  \E c \in Nat : /\ d < c /\ c <= e
                        /\ KindAt(a, c) \in Closers
                        /\ FlowDepth(a, c) = FlowDepth(a, d) - 1
                        /\ \A i \in d..(c - 1) : FlowDepth(a, i) >= FlowDepth(a, d)
<1> DEFINE low == {i \in d..e : FlowDepth(a, i) < FlowDepth(a, d)}
<1>1. PICK c \in low : \A j \in low : c <= j
  <2>1. low \in SUBSET Nat /\ e \in low
    OBVIOUS
  <2> HIDE DEF low
  <2> QED BY <2>1, NatMin
<1>2. c \in Nat /\ d < c /\ c <= e
  <2>1. FlowDepth(a, d) \in Int
    BY DepthStep
  <2>2. c # d
    BY <1>1, <2>1
  <2> QED BY <1>1, <2>2
<1>3. \A i \in d..(c - 1) : FlowDepth(a, i) >= FlowDepth(a, d)
  <2> TAKE i \in d..(c - 1)
  <2>1. i \in Nat /\ i \in d..e /\ ~(c <= i)
    BY <1>2
  <2>2. i \notin low
    BY <1>1, <2>1
  <2>3. FlowDepth(a, i) \in Int /\ FlowDepth(a, d) \in Int
    BY <2>1, DepthStep
  <2> QED BY <2>1, <2>2, <2>3
<1>4. PICK k \in Nat : c = k + 1
  <2>1. c - 1 \in Nat /\ c = (c - 1) + 1
    BY <1>2
  <2> QED BY <2>1
<1>5. /\ FlowDepth(a, k) \in Int /\ FlowDepth(a, d) \in Int
      /\ FlowDepth(a, k + 1) = FlowDepth(a, k)
           + (IF KindAt(a, k + 1) \in Openers THEN 1
              ELSE IF KindAt(a, k + 1) \in Closers THEN -1 ELSE 0)
  BY DepthStep
<1>6. FlowDepth(a, k) >= FlowDepth(a, d) /\ FlowDepth(a, k + 1) < FlowDepth(a, d)
  BY <1>1, <1>2, <1>3, <1>4
<1>7. KindAt(a, k + 1) \in Closers /\ FlowDepth(a, k + 1) = FlowDepth(a, d) - 1
  BY <1>5, <1>6
<1> QED BY <1>2, <1>3, <1>4, <1>7

\* Where a lookahead stops, past the text if nowhere, and why.
Stop(ahead) == IF Stops(ahead) = {} THEN Len(ahead) + 1 ELSE FirstStop(ahead)
Why(ahead) == IF Stops(ahead) = {} THEN "UNTERMINATED" ELSE StopsAt(ahead, Stop(ahead))

\* The last lexeme it reads.
ReadTo(ahead) == IF Why(ahead) = "CLOSED" THEN Stop(ahead) ELSE Stop(ahead) - 1

\* It finds the collection opened at i to be a key.
FindsKey(ahead, i) ==
  \E close \in 0..ReadTo(ahead) : Closes(ahead, i, close) /\ ColonFollows(ahead, close)

\* It does not stop before its stop.
LEMMA StopFacts ==
  ASSUME NEW a \in Seq(Lexeme)
  PROVE  /\ Stop(a) \in 1..(Len(a) + 1)
         /\ \A j \in 1..(Stop(a) - 1) : StopsAt(a, j) = "NO"
         /\ Stop(a) <= Len(a) => StopsAt(a, Stop(a)) = Why(a) /\ Why(a) # "NO"
         /\ Stop(a) = Len(a) + 1 => Why(a) = "UNTERMINATED"
<1>1. CASE Stops(a) = {}
  <2>1. Stop(a) = Len(a) + 1 /\ Why(a) = "UNTERMINATED" /\ Len(a) \in Nat
    BY <1>1 DEF Stop, Why
  <2>2. \A j \in 1..Len(a) : StopsAt(a, j) = "NO"
    BY <1>1 DEF Stops
  <2> QED BY <2>1, <2>2
<1>2. CASE Stops(a) # {}
  <2>1. \E i \in Stops(a) : \A j \in Stops(a) : i <= j
    <3>1. Stops(a) \in SUBSET Nat
      BY DEF Stops
    <3> QED BY <1>2, <3>1, NatMin
  <2>2. Stop(a) \in Stops(a) /\ \A j \in Stops(a) : Stop(a) <= j
    BY <1>2, <2>1 DEF Stop, FirstStop
  <2>3. Why(a) = StopsAt(a, Stop(a))
    BY <1>2 DEF Why
  <2>4. Stop(a) \in 1..Len(a) /\ Why(a) # "NO" /\ Len(a) \in Nat
    BY <2>2, <2>3 DEF Stops
  <2>5. ASSUME NEW j \in 1..(Stop(a) - 1) PROVE StopsAt(a, j) = "NO"
    <3>1. j \in 1..Len(a) /\ ~(Stop(a) <= j)
      BY <2>4
    <3> QED BY <2>2, <3>1 DEF Stops
  <2> QED BY <2>3, <2>4, <2>5
<1> QED BY <1>1, <1>2

\* The first lexeme it would stop at is where it stops.
LEMMA StopIs ==
  ASSUME NEW a \in Seq(Lexeme), NEW i \in 1..Len(a), StopsAt(a, i) # "NO",
         \A j \in 1..(i - 1) : StopsAt(a, j) = "NO"
  PROVE  Stop(a) = i /\ Why(a) = StopsAt(a, i)
<1>1. /\ Stop(a) \in 1..(Len(a) + 1)
      /\ \A j \in 1..(Stop(a) - 1) : StopsAt(a, j) = "NO"
      /\ Stop(a) <= Len(a) => StopsAt(a, Stop(a)) = Why(a) /\ Why(a) # "NO"
  BY StopFacts
<1>2. ~(i < Stop(a))
  BY <1>1
<1>3. ~(Stop(a) < i)
  <2>1. Stop(a) < i => Stop(a) <= Len(a) /\ Stop(a) \in 1..(i - 1)
    BY <1>1
  <2> QED BY <1>1, <2>1
<1>4. Stop(a) = i
  BY <1>1, <1>2, <1>3
<1> QED BY <1>1, <1>4

\* What a lookahead leaves in the cache.
LEMMA ScanKeeps ==
  ASSUME NEW s, s.buf \in Seq(Lexeme), NEW lo \in Nat
  PROVE  LET fk == FkScan(s, lo)
         IN  /\ fk.valid /\ fk.lo = lo
             /\ fk.ambiguous <=> Why(s.buf) = "AMBIGUOUS"
             /\ fk.hi = IF Why(s.buf) \in {"CLOSED", "LINE"} THEN lo + ReadTo(s.buf) ELSE MaxText
             /\ \A d \in 0..ReadTo(s.buf) :
                  ~fk.ambiguous => (lo + d \in fk.keys <=> FindsKey(s.buf, d))
<1> DEFINE a == s.buf
           keys == {lo + i : i \in {left \in 0..ReadTo(a) : FindsKey(a, left)}}
           hi == IF Why(a) \in {"CLOSED", "LINE"} THEN lo + ReadTo(a) ELSE MaxText
           fk == FkScan(s, lo)
<1>1. fk = [valid |-> TRUE, lo |-> lo, hi |-> hi,
            keys |-> IF Why(a) = "AMBIGUOUS" THEN {} ELSE keys,
            ambiguous |-> Why(a) = "AMBIGUOUS"]
  BY DEF FkScan, Why, Stop, ReadTo, FindsKey
<1>2. ReadTo(a) \in Int
  BY StopFacts DEF ReadTo
<1>3. ASSUME NEW d \in 0..ReadTo(a) PROVE lo + d \in keys <=> FindsKey(a, d)
  <2>1. ASSUME NEW i \in 0..ReadTo(a), lo + i = lo + d PROVE i = d
    BY <1>2, <2>1
  <2> QED BY <2>1
<1> HIDE DEF keys, hi, fk
<1>4. /\ fk.valid /\ fk.lo = lo
      /\ fk.ambiguous <=> Why(a) = "AMBIGUOUS"
      /\ fk.hi = hi
      /\ Why(a) # "AMBIGUOUS" => fk.keys = keys
  BY <1>1
<1>5. \A d \in 0..ReadTo(a) : ~fk.ambiguous => (lo + d \in fk.keys <=> FindsKey(a, d))
  BY <1>3, <1>4
<1> QED BY <1>4, <1>5 DEF fk, hi

\* The text "b" is a part of "a", from one of its open brackets on.
Part(a, b, d, n) ==
  /\ d \in Nat /\ n \in Nat /\ n <= Len(b) /\ d + n <= Len(a)
  /\ \A i \in 1..n : b[i] = a[d + i]
  /\ KindAt(a, d) \in Openers

\* What the two texts have in common.
LEMMA PartReads ==
  ASSUME NEW a \in Seq(Lexeme), NEW b \in Seq(Lexeme), NEW d, NEW n, Part(a, b, d, n)
  PROVE  /\ \A i \in 0..n : FlowDepth(b, i) = FlowDepth(a, d + i) - FlowDepth(a, d) + 1
         /\ \A i \in 0..n : KindAt(b, i) = KindAt(a, d + i) \/ i = 0
         /\ \A i \in 0..n : KindAt(b, i) \in Openers <=> KindAt(a, d + i) \in Openers
         /\ \A i \in 1..n : QuotePlace(b, i) <=> QuotePlace(a, d + i)
<1> USE DEF Part
<1>1. ASSUME NEW i \in 1..n PROVE KindAt(b, i) = KindAt(a, d + i)
  BY DEF KindAt
<1>2. \A i \in 0..n : FlowDepth(b, i) = FlowDepth(a, d + i) - FlowDepth(a, d) + 1
  BY <1>1, DepthShift
<1>3. KindAt(b, 0) \in Openers
  BY DEF KindAt, Openers
<1>4. \A i \in 0..n : KindAt(b, i) = KindAt(a, d + i) \/ i = 0
  <2>1. \A i \in 0..n : i \in 1..n \/ i = 0
    OBVIOUS
  <2> QED BY <1>1, <2>1
<1>5. \A i \in 0..n : KindAt(b, i) \in Openers <=> KindAt(a, d + i) \in Openers
  <2>1. d + 0 = d /\ KindAt(a, d) \in Openers
    OBVIOUS
  <2> QED BY <1>3, <1>4, <2>1
<1>6. ASSUME NEW i \in 1..n PROVE QuotePlace(b, i) <=> QuotePlace(a, d + i)
  <2>1. i - 1 \in 0..n /\ (d + i) - 1 = d + (i - 1)
    OBVIOUS
  <2>2. CASE i - 1 = 0
    <3>1. d + (i - 1) = d /\ KindAt(a, d) \in Openers
      BY <2>2
    <3> QED BY <1>3, <2>1, <2>2, <3>1 DEF QuotePlace
  <2>3. CASE i - 1 # 0
    BY <1>4, <2>1, <2>3 DEF QuotePlace
  <2> QED BY <2>2, <2>3
<1> QED BY <1>2, <1>4, <1>5, <1>6

\* Where a collection is closed is the same in both.
LEMMA PartCloses ==
  ASSUME NEW a \in Seq(Lexeme), NEW b \in Seq(Lexeme), NEW d, NEW n, Part(a, b, d, n),
         NEW o \in 0..n, NEW c \in 0..n
  PROVE  Closes(b, o, c) <=> Closes(a, d + o, d + c)
<1>1. d \in Nat /\ n \in Nat
  BY DEF Part
<1>2. /\ \A i \in 0..n : FlowDepth(b, i) = FlowDepth(a, d + i) - FlowDepth(a, d) + 1
      /\ \A i \in 0..n : KindAt(b, i) = KindAt(a, d + i) \/ i = 0
      /\ KindAt(b, o) \in Openers <=> KindAt(a, d + o) \in Openers
  BY PartReads
<1>3. \A i \in 0..n : FlowDepth(a, d + i) \in Int
  BY <1>1, DepthStep
<1>4. FlowDepth(a, d) \in Int
  BY <1>1, DepthStep
<1>5. o < c <=> d + o < d + c
  BY <1>1
<1>6. ASSUME o < c
      PROVE  /\ KindAt(b, c) = KindAt(a, d + c)
             /\ FlowDepth(b, c) = FlowDepth(b, o) - 1
                  <=> FlowDepth(a, d + c) = FlowDepth(a, d + o) - 1
             /\ (\A i \in o..(c - 1) : FlowDepth(b, i) >= FlowDepth(b, o))
                  <=> (\A i \in (d + o)..((d + c) - 1) : FlowDepth(a, i) >= FlowDepth(a, d + o))
  <2>1. c # 0
    BY <1>6
  <2>2. FlowDepth(b, c) = FlowDepth(b, o) - 1
          <=> FlowDepth(a, d + c) = FlowDepth(a, d + o) - 1
    BY <1>2, <1>3, <1>4
  <2>3. ASSUME NEW i \in 0..n
        PROVE  FlowDepth(b, i) >= FlowDepth(b, o) <=> FlowDepth(a, d + i) >= FlowDepth(a, d + o)
    BY <1>2, <1>3, <1>4
  <2>4. ASSUME \A i \in o..(c - 1) : FlowDepth(b, i) >= FlowDepth(b, o),
               NEW i \in (d + o)..((d + c) - 1)
        PROVE  FlowDepth(a, i) >= FlowDepth(a, d + o)
    <3>1. i - d \in 0..n /\ i - d \in o..(c - 1) /\ d + (i - d) = i
      BY <1>1
    <3> QED BY <2>3, <2>4, <3>1
  <2>5. ASSUME \A i \in (d + o)..((d + c) - 1) : FlowDepth(a, i) >= FlowDepth(a, d + o),
               NEW i \in o..(c - 1)
        PROVE  FlowDepth(b, i) >= FlowDepth(b, o)
    <3>1. i \in 0..n /\ d + i \in (d + o)..((d + c) - 1)
      BY <1>1
    <3> QED BY <2>3, <2>5, <3>1
  <2> QED BY <1>2, <2>1, <2>2, <2>4, <2>5
<1> QED BY <1>2, <1>5, <1>6 DEF Closes

\* A lexeme stops both lookaheads alike, but for how deep they are there.
LEMMA PartStops ==
  ASSUME NEW a \in Seq(Lexeme), NEW b \in Seq(Lexeme), NEW d, NEW n, Part(a, b, d, n),
         NEW i \in 1..n
  PROVE  \/ StopsAt(b, i) = StopsAt(a, d + i)
         \/ StopsAt(b, i) \in {"NO", "CLOSED"} /\ StopsAt(a, d + i) \in {"NO", "CLOSED"}
<1>1. b[i] = a[d + i]
  BY DEF Part
<1>2. QuotePlace(b, i) <=> QuotePlace(a, d + i)
  BY PartReads
<1> QED BY <1>1, <1>2 DEF StopsAt

\* What a lexeme that does not stop the lookahead says of its depth.
LEMMA StopDepth ==
  ASSUME NEW a, NEW i
  PROVE  /\ StopsAt(a, i) = "CLOSED" => FlowDepth(a, i) = 0
         /\ StopsAt(a, i) = "NO" => FlowDepth(a, i) # 0
BY DEF StopsAt

\* Until the lookahead stops the bracket it started from is open.
LEMMA OpenBefore ==
  ASSUME NEW a \in Seq(Lexeme), NEW n \in Nat, \A j \in 1..n : StopsAt(a, j) = "NO"
  PROVE  \A i \in 0..n : FlowDepth(a, i) >= 1
<1> SUFFICES ASSUME NEW i \in 0..n, ~(FlowDepth(a, i) >= 1) PROVE FALSE
  OBVIOUS
<1>1. FlowDepth(a, i) \in Int /\ FlowDepth(a, 0) = 1
  BY DepthStep, DepthStart
<1>2. FlowDepth(a, i) < FlowDepth(a, 0) /\ 0 <= i
  BY <1>1
<1>3. PICK c \in Nat : 0 < c /\ c <= i /\ FlowDepth(a, c) = FlowDepth(a, 0) - 1
  BY <1>2, FirstClose
<1>4. FlowDepth(a, c) = 0 /\ c \in 1..n
  BY <1>1, <1>3
<1> QED BY <1>4, StopDepth

\* An unterminated quote is the last of a text.
QuoteLast(a) == \A i \in 1..Len(a) : a[i].kind = "OPENQUOTE" => i = Len(a)

\* A lookahead over the first m lexemes of a text was decided by them.
Settled(x, m, ended) ==
  \/ ended /\ m = Len(x)
  \/ LET t == SubSeq(x, 1, m)
     IN  Stop(t) <= m /\ ~(Stop(t) = m /\ Why(t) = "CLOSED")

\* A part of a text.
LEMMA SubText ==
  ASSUME NEW x \in Seq(Lexeme), NEW i \in Nat, NEW m \in Nat, i <= m, m <= Len(x)
  PROVE  LET t == SubSeq(x, i + 1, m)
         IN  /\ t \in Seq(Lexeme) /\ Len(t) = m - i
             /\ \A j \in 1..(m - i) : t[j] = x[i + j]
<1> DEFINE t == SubSeq(x, i + 1, m)
<1>1. t \in Seq(Lexeme)
  OBVIOUS
<1>2. Len(t) = m - i
  OBVIOUS
<1>3. ASSUME NEW j \in 1..(m - i) PROVE t[j] = x[i + j]
  <2>1. t[j] = x[(i + 1) + j - 1] /\ (i + 1) + j - 1 = i + j
    OBVIOUS
  <2> QED BY <2>1
<1> HIDE DEF t
<1> QED BY <1>1, <1>2, <1>3 DEF t

\* A collection inside the one the lookahead started from is open for it as
\* long as it reads.
LEMMA WithinStop ==
  ASSUME NEW x \in Seq(Lexeme), NEW t \in Seq(Lexeme), NEW m, Part(x, t, 0, m), Len(t) = m,
         QuoteLast(x), NEW d \in 0..Len(x), KindAt(x, d) \in Openers,
         Stop(t) = m + 1 => m = Len(x),
         Why(t) # "AMBIGUOUS",
         Why(t) \in {"CLOSED", "LINE"} => d <= ReadTo(t)
  PROVE  d < Stop(t)
<1>1. m \in Nat /\ m <= Len(x)
  BY DEF Part
<1>2. /\ Stop(t) \in 1..(m + 1)
      /\ \A j \in 1..(Stop(t) - 1) : StopsAt(t, j) = "NO"
      /\ Stop(t) <= m => StopsAt(t, Stop(t)) = Why(t) /\ Why(t) # "NO"
      /\ Stop(t) = m + 1 => Why(t) = "UNTERMINATED"
  BY StopFacts
<1>3. CASE Stop(t) = m + 1
  BY <1>1, <1>3
<1>4. CASE Stop(t) <= m /\ Why(t) = "LINE"
  BY <1>2, <1>4 DEF ReadTo
<1>5. CASE Stop(t) <= m /\ Why(t) = "CLOSED"
  <2>1. d <= Stop(t)
    BY <1>5 DEF ReadTo
  <2>2. ASSUME d = Stop(t) PROVE FALSE
    <3>1. d \in 1..m /\ d - 1 \in Nat /\ d = (d - 1) + 1 /\ d - 1 \in 0..(Stop(t) - 1)
      BY <1>2, <1>5, <2>2
    <3>2. FlowDepth(t, d - 1) >= 1 /\ FlowDepth(t, d - 1) \in Int
      <4>1. Stop(t) - 1 \in Nat
        BY <1>2
      <4> QED BY <1>2, <3>1, <4>1, OpenBefore, DepthStep
    <3>3. KindAt(t, d) \in Openers
      <4>1. 0 + d = d /\ d \in 0..m
        BY <3>1
      <4> QED BY <4>1, PartReads
    <3>4. FlowDepth(t, d) = FlowDepth(t, d - 1) + 1
      <4> DEFINE k == d - 1
      <4>1. k \in Nat /\ d = k + 1
        BY <3>1
      <4> HIDE DEF k
      <4>2. FlowDepth(t, d) = FlowDepth(t, k) + 1
        BY <3>3, <4>1, DepthStep
      <4> QED BY <4>2 DEF k
    <3>5. FlowDepth(t, d) = 0
      <4>1. StopsAt(t, d) = "CLOSED"
        BY <1>2, <1>5, <2>2
      <4> QED BY <4>1, StopDepth
    <3> QED BY <3>2, <3>4, <3>5
  <2> QED BY <1>2, <2>1, <2>2
<1>6. CASE Stop(t) <= m /\ Why(t) = "UNTERMINATED"
  <2>1. t[Stop(t)].kind = "OPENQUOTE"
    BY <1>2, <1>6 DEF StopsAt
  <2>2. Stop(t) \in 1..m /\ 0 + Stop(t) = Stop(t)
    BY <1>2, <1>6
  <2>3. x[Stop(t)].kind = "OPENQUOTE"
    BY <2>1, <2>2 DEF Part
  <2>4. Stop(t) = Len(x)
    BY <1>1, <2>2, <2>3 DEF QuoteLast
  <2>5. d # Stop(t)
    <3>1. Stop(t) # 0
      BY <1>1, <2>2
    <3>2. KindAt(x, Stop(t)) = "OPENQUOTE"
      BY <2>3, <3>1 DEF KindAt
    <3> QED BY <3>2 DEF Openers
  <2>6. Stop(t) \in Nat
    BY <1>1, <2>2
  <2>7. d \in 0..Stop(t)
    BY <2>4
  <2> QED BY <2>5, <2>6, <2>7
<1>7. Stop(t) <= m => Why(t) \in {"LINE", "CLOSED", "UNTERMINATED"}
  BY <1>2 DEF StopsAt
<1>8. Stop(t) <= m \/ Stop(t) = m + 1
  BY <1>1, <1>2
<1> QED BY <1>3, <1>4, <1>5, <1>6, <1>7, <1>8

\* What the lookahead over a text's first lexemes finds of a collection inside
\* is what a lookahead from that collection on finds.
LEMMA CacheAgrees ==
  ASSUME NEW x \in Seq(Lexeme), NEW m \in 0..Len(x), NEW ended, Settled(x, m, ended),
         QuoteLast(x), NEW d \in 0..Len(x), KindAt(x, d) \in Openers,
         NEW t, t = SubSeq(x, 1, m), NEW b, b = SubSeq(x, d + 1, Len(x)),
         Why(t) # "AMBIGUOUS",
         Why(t) \in {"CLOSED", "LINE"} => d <= ReadTo(t)
  PROVE  /\ d \in 0..ReadTo(t)
         /\ Why(b) # "AMBIGUOUS"
         /\ FindsKey(b, 0) <=> FindsKey(t, d)
<1> DEFINE n == Len(x)
<1>1. n \in Nat /\ m \in Nat /\ m <= n /\ d \in Nat /\ d <= n
  OBVIOUS
<1>2. t \in Seq(Lexeme) /\ Len(t) = m /\ \A j \in 1..m : t[j] = x[j]
  <2>1. LET u == SubSeq(x, 0 + 1, m)
        IN  /\ u \in Seq(Lexeme) /\ Len(u) = m - 0
            /\ \A j \in 1..(m - 0) : u[j] = x[0 + j]
    BY <1>1, SubText
  <2>2. SubSeq(x, 0 + 1, m) = t /\ m - 0 = m
    BY <1>1
  <2>3. \A j \in 1..m : 0 + j = j
    BY <1>1
  <2> QED BY <2>1, <2>2, <2>3
<1>3. b \in Seq(Lexeme) /\ Len(b) = n - d /\ \A j \in 1..(n - d) : b[j] = x[d + j]
  BY <1>1, SubText
<1> HIDE DEF n
<1>4. Part(x, t, 0, m) /\ Part(x, b, d, n - d) /\ n - d \in Nat
  <2>1. KindAt(x, 0) \in Openers
    BY DEF KindAt, Openers
  <2>2. Part(x, t, 0, m)
    BY <1>1, <1>2, <2>1 DEF Part, n
  <2>3. Part(x, b, d, n - d)
    BY <1>1, <1>3 DEF Part, n
  <2> QED BY <1>1, <2>2, <2>3
<1>a. ASSUME NEW o \in 0..(n - d), NEW c \in 0..(n - d)
      PROVE  Closes(b, o, c) <=> Closes(x, d + o, d + c)
  <2> DEFINE r == n - d
  <2>1. b \in Seq(Lexeme) /\ Part(x, b, d, r) /\ o \in 0..r /\ c \in 0..r
    BY <1>3, <1>4
  <2> HIDE DEF r
  <2> QED BY <2>1, PartCloses
<1>5. /\ Stop(t) \in 1..(m + 1)
      /\ \A j \in 1..(Stop(t) - 1) : StopsAt(t, j) = "NO"
      /\ Stop(t) <= m => StopsAt(t, Stop(t)) = Why(t) /\ Why(t) # "NO"
  BY <1>2, StopFacts
<1>6. /\ Stop(t) = m + 1 => m = n
      /\ Stop(t) = m /\ Why(t) = "CLOSED" => m = n
  BY <1>1 DEF Settled, n
<1>7. d < Stop(t) /\ d \in 0..ReadTo(t)
  <2>1. d < Stop(t)
    BY <1>2, <1>4, <1>6, WithinStop DEF n
  <2> QED BY <1>1, <1>5, <2>1 DEF ReadTo
\* The whole text and its first part.
<1>8. ASSUME NEW i \in 1..m PROVE StopsAt(t, i) = StopsAt(x, i)
  <2>1. 0 + i = i /\ i \in 0..m
    BY <1>1
  <2>2. /\ \A j \in 0..m : FlowDepth(t, j) = FlowDepth(x, 0 + j) - FlowDepth(x, 0) + 1
        /\ \A j \in 1..m : QuotePlace(t, j) <=> QuotePlace(x, 0 + j)
    <3>1. t \in Seq(Lexeme) /\ Part(x, t, 0, m)
      BY <1>2, <1>4
    <3>2. /\ \A j \in 0..m : FlowDepth(t, j) = FlowDepth(x, 0 + j) - FlowDepth(x, 0) + 1
          /\ \A j \in 0..m : KindAt(t, j) = KindAt(x, 0 + j) \/ j = 0
          /\ \A j \in 0..m : KindAt(t, j) \in Openers <=> KindAt(x, 0 + j) \in Openers
          /\ \A j \in 1..m : QuotePlace(t, j) <=> QuotePlace(x, 0 + j)
      BY <3>1, PartReads
    <3> QED BY <3>2
  <2>3. FlowDepth(x, 0) = 1 /\ FlowDepth(x, i) \in Int
    BY <1>1, DepthStart, DepthStep
  <2>4. FlowDepth(t, i) = FlowDepth(x, i)
    BY <2>1, <2>2, <2>3
  <2>5. (QuotePlace(t, i) <=> QuotePlace(x, i)) /\ t[i] = x[i]
    BY <1>2, <2>1, <2>2
  <2> QED BY <2>4, <2>5 DEF StopsAt
<1>9. \A i \in 1..(Stop(t) - 1) : StopsAt(x, i) = "NO"
  <2>1. \A i \in 1..(Stop(t) - 1) : i \in 1..m
    BY <1>1, <1>5
  <2> QED BY <1>5, <1>8, <2>1
<1>10. FlowDepth(x, d) >= 1 /\ FlowDepth(x, d) \in Int
  <2> DEFINE k == Stop(t) - 1
  <2>1. k \in Nat /\ d \in 0..k
    BY <1>1, <1>5, <1>7
  <2>2. \A i \in 1..k : StopsAt(x, i) = "NO"
    BY <1>9
  <2> HIDE DEF k
  <2>3. \A i \in 0..k : FlowDepth(x, i) >= 1
    BY <2>1, <2>2, OpenBefore
  <2> QED BY <1>1, <2>1, <2>3, DepthStep
\* The whole text and its last part.
<1>11. \A i \in 0..(n - d) : FlowDepth(b, i) = FlowDepth(x, d + i) - FlowDepth(x, d) + 1
  BY <1>3, <1>4, PartReads
<1>12. ASSUME NEW k \in 0..(n - d), \A j \in 1..k : StopsAt(b, j) = "NO"
       PROVE  \A i \in 1..(d + k) : StopsAt(x, i) = "NO"
  <2> SUFFICES ASSUME NEW i \in 1..(d + k) PROVE StopsAt(x, i) = "NO"
    OBVIOUS
  <2>1. CASE i <= d
    <3>1. i \in 1..(Stop(t) - 1)
      BY <1>1, <1>5, <1>7, <2>1
    <3> QED BY <1>9, <3>1
  <2>2. CASE d < i
    <3> DEFINE j == i - d
    <3>1. j \in 1..k /\ j \in 1..(n - d) /\ j \in 0..(n - d) /\ d + j = i /\ k \in Nat /\ j \in 0..k
      BY <1>1, <2>2
    <3> HIDE DEF j
    <3>2. FlowDepth(b, j) >= 1 /\ FlowDepth(b, j) \in Int
      <4>1. \A l \in 0..k : FlowDepth(b, l) >= 1
        BY <1>3, <1>12, <3>1, OpenBefore
      <4>2. j \in Nat
        BY <3>1
      <4> QED BY <1>3, <3>1, <4>1, <4>2, DepthStep
    <3>3. FlowDepth(x, i) \in Int
      BY <1>1, <3>1, DepthStep
    <3>4. FlowDepth(x, i) # 0
      <4>1. FlowDepth(b, j) = FlowDepth(x, i) - FlowDepth(x, d) + 1
        BY <1>11, <3>1
      <4> QED BY <1>10, <3>2, <3>3, <4>1
    <3>5. StopsAt(b, j) = "NO"
      BY <1>12, <3>1
    <3>6. StopsAt(x, i) \in {"NO", "CLOSED"}
      BY <1>3, <1>4, <3>1, <3>5, PartStops
    <3> QED BY <3>4, <3>6, StopDepth
  <2>3. i <= d \/ d < i
    BY <1>1
  <2> QED BY <2>1, <2>2, <2>3
\* Where no lexeme before i stops the lookahead, it read as far as i.
<1>13. ASSUME NEW i \in 1..n, \A j \in 1..(i - 1) : StopsAt(x, j) = "NO"
       PROVE  i <= Stop(t) /\ i <= m
  <2>1. ~(Stop(t) < i /\ Stop(t) <= m)
    <3> SUFFICES ASSUME Stop(t) < i, Stop(t) <= m PROVE FALSE
      OBVIOUS
    <3>1. Stop(t) \in 1..(i - 1) /\ Stop(t) \in 1..m
      BY <1>1, <1>5
    <3>2. StopsAt(x, Stop(t)) = "NO"
      BY <1>13, <3>1
    <3> QED BY <1>5, <1>8, <3>1, <3>2
  <2>2. Stop(t) <= m \/ Stop(t) = m + 1
    BY <1>1, <1>5
  <2>3. i \in Nat /\ i <= n /\ Stop(t) \in Nat
    BY <1>1, <1>5
  <2> QED BY <1>1, <1>6, <2>1, <2>2, <2>3
<1>14. /\ Stop(b) \in 1..((n - d) + 1)
       /\ \A j \in 1..(Stop(b) - 1) : StopsAt(b, j) = "NO"
       /\ Stop(b) <= n - d => StopsAt(b, Stop(b)) = Why(b) /\ Why(b) # "NO"
       /\ Stop(b) = (n - d) + 1 => Why(b) = "UNTERMINATED"
  BY <1>3, StopFacts
<1>15. Why(b) # "AMBIGUOUS"
  <2> SUFFICES ASSUME Why(b) = "AMBIGUOUS" PROVE FALSE
    OBVIOUS
  <2> DEFINE k == Stop(b)
             e == d + k
  <2>1. k \in 1..(n - d) /\ StopsAt(b, k) = "AMBIGUOUS"
    BY <1>1, <1>14
  <2>2. k - 1 \in 0..(n - d) /\ \A j \in 1..(k - 1) : StopsAt(b, j) = "NO"
    BY <1>1, <1>14, <2>1
  <2> HIDE DEF k
  <2>3. StopsAt(x, e) = "AMBIGUOUS"
    <3>1. \/ StopsAt(b, k) = StopsAt(x, d + k)
          \/ StopsAt(b, k) \in {"NO", "CLOSED"} /\ StopsAt(x, d + k) \in {"NO", "CLOSED"}
      BY <1>3, <1>4, <2>1, PartStops
    <3> QED BY <2>1, <3>1
  <2>4. e \in 1..n /\ d + (k - 1) = e - 1
    BY <1>1, <2>1
  <2> HIDE DEF e
  <2>5. \A j \in 1..(e - 1) : StopsAt(x, j) = "NO"
    <3> DEFINE l == k - 1
    <3>1. l \in 0..(n - d) /\ (\A j \in 1..l : StopsAt(b, j) = "NO") /\ d + l = e - 1
      BY <2>2, <2>4
    <3> HIDE DEF l
    <3>2. \A j \in 1..(d + l) : StopsAt(x, j) = "NO"
      BY <1>12, <3>1
    <3> QED BY <3>1, <3>2
  <2>6. e <= m /\ e \in 1..m
    <3>1. e <= m
      BY <1>13, <2>4, <2>5
    <3> QED BY <1>1, <2>4, <3>1
  <2>7. StopsAt(t, e) = "AMBIGUOUS" /\ \A j \in 1..(e - 1) : StopsAt(t, j) = "NO"
    <3>1. \A j \in 1..(e - 1) : j \in 1..m
      BY <1>1, <2>6
    <3> QED BY <1>8, <2>3, <2>5, <2>6, <3>1
  <2>8. Why(t) = "AMBIGUOUS"
    BY <1>2, <2>6, <2>7, StopIs
  <2> QED BY <2>8
\* A key found from the first bracket on.
<1>16. ASSUME FindsKey(t, d) PROVE FindsKey(b, 0)
  <2>1. PICK e \in 0..ReadTo(t) : Closes(t, d, e) /\ ColonFollows(t, e)
    BY <1>16 DEF FindsKey
  <2> DEFINE c == e - d
  <2>2. e \in Nat /\ d < e /\ e < m /\ t[e + 1].kind = ":" /\ e <= Stop(t)
    <3>1. d < e /\ e < Len(t) /\ t[e + 1].kind = ":"
      BY <2>1 DEF Closes, ColonFollows
    <3>2. ReadTo(t) \in Nat /\ ReadTo(t) <= Stop(t)
      BY <1>5 DEF ReadTo
    <3> QED BY <1>2, <1>5, <2>1, <3>1, <3>2
  <2>3. /\ c \in 1..(n - d) /\ c \in 0..(n - d) /\ d + c = e
        /\ c < n - d /\ 0 \in 0..(n - d) /\ d + 0 = d
    <3>1. e \in Nat /\ d < e /\ e < m
      BY <2>2
    <3>2. c \in Nat /\ 0 < c /\ d + c = e /\ c < n - d
      BY <1>1, <3>1
    <3> QED BY <1>1, <3>2
  <2> HIDE DEF c
  <2>4. Closes(x, d, e)
    <3>1. 0 + d = d /\ 0 + e = e /\ d \in 0..m /\ e \in 0..m
      BY <1>1, <2>2
    <3>2. Closes(t, d, e) <=> Closes(x, 0 + d, 0 + e)
      BY <1>2, <1>4, <3>1, PartCloses
    <3> QED BY <2>1, <3>1, <3>2
  <2>5. Closes(b, 0, c)
    <3>1. Closes(b, 0, c) <=> Closes(x, d + 0, d + c)
      BY <2>3, <1>a
    <3> QED BY <2>3, <2>4, <3>1
  <2>6. FlowDepth(b, c) = 0 /\ \A j \in 0..(c - 1) : FlowDepth(b, j) >= 1
    <3>1. FlowDepth(b, 0) = 1
      BY <1>3, DepthStart
    <3> QED BY <2>5, <3>1 DEF Closes
  <2>7. StopsAt(x, e) \in {"NO", "CLOSED"}
    <3>1. CASE e < Stop(t)
      <4>1. e \in 1..(Stop(t) - 1)
        BY <1>1, <1>5, <2>2, <3>1
      <4> QED BY <1>9, <4>1
    <3>2. CASE e = Stop(t)
      <4>1. Why(t) = "CLOSED"
        <5>1. Stop(t) \in Nat /\ e <= ReadTo(t)
          BY <1>5, <2>1
        <5> QED BY <3>2, <5>1 DEF ReadTo
      <4>2. e \in 1..m
        BY <1>1, <2>2
      <4> QED BY <1>5, <1>8, <3>2, <4>1, <4>2
    <3> QED BY <1>5, <2>2, <3>1, <3>2
  <2>8. StopsAt(b, c) = "CLOSED"
    <3>1. StopsAt(b, c) \in {"NO", "CLOSED"}
      BY <1>3, <1>4, <2>3, <2>7, PartStops
    <3> QED BY <2>6, <3>1, StopDepth
  <2>9. ASSUME NEW j \in 1..(c - 1) PROVE StopsAt(b, j) = "NO"
    <3>1. j \in 1..(n - d) /\ j \in 0..(c - 1) /\ d + j \in 1..(Stop(t) - 1)
      <4>1. c \in Nat /\ d \in Nat /\ n - d \in Int /\ c < n - d
        BY <1>1, <2>3
      <4>2. Stop(t) \in Nat /\ d + c <= Stop(t)
        BY <1>5, <2>2, <2>3
      <4>3. j \in Nat /\ 1 <= j /\ j <= c - 1
        BY <4>1
      <4> QED BY <4>1, <4>2, <4>3
    <3>2. StopsAt(x, d + j) = "NO"
      BY <1>9, <3>1
    <3>3. StopsAt(b, j) \in {"NO", "CLOSED"}
      BY <1>3, <1>4, <3>1, <3>2, PartStops
    <3>4. FlowDepth(b, j) # 0
      <4>1. FlowDepth(b, j) >= 1
        BY <2>6, <3>1
      <4> QED BY <4>1
    <3> QED BY <3>3, <3>4, StopDepth
  <2>10. Stop(b) = c /\ Why(b) = "CLOSED"
    BY <1>3, <2>3, <2>8, <2>9, StopIs
  <2>11. ColonFollows(b, c)
    <3>1. c + 1 \in 1..(n - d) /\ d + (c + 1) = e + 1 /\ e + 1 \in 1..m
      <4>1. c \in Nat /\ d \in Nat /\ n - d \in Int /\ c < n - d /\ d + c = e
        BY <1>1, <2>3
      <4>2. e \in Nat /\ m \in Nat /\ e < m
        BY <1>1, <2>2
      <4> QED BY <4>1, <4>2
    <3>2. b[c + 1] = t[e + 1]
      BY <1>2, <1>3, <3>1
    <3> QED BY <1>3, <2>2, <2>3, <3>2 DEF ColonFollows
  <2>12. c \in 0..ReadTo(b)
    <3>1. ReadTo(b) = c /\ c \in Nat
      BY <1>1, <2>3, <2>10 DEF ReadTo
    <3> QED BY <3>1
  <2> QED BY <2>5, <2>11, <2>12 DEF FindsKey
\* A key found from the collection's own bracket on.
<1>17. ASSUME FindsKey(b, 0) PROVE FindsKey(t, d)
  <2>1. PICK c \in 0..ReadTo(b) : Closes(b, 0, c) /\ ColonFollows(b, c)
    BY <1>17 DEF FindsKey
  <2>2. c \in Nat /\ 0 < c /\ c < n - d /\ b[c + 1].kind = ":" /\ c <= Stop(b)
    <3>1. 0 < c /\ c < Len(b) /\ b[c + 1].kind = ":"
      BY <2>1 DEF Closes, ColonFollows
    <3>2. ReadTo(b) \in Nat /\ ReadTo(b) <= Stop(b)
      BY <1>14 DEF ReadTo
    <3> QED BY <1>3, <1>14, <2>1, <3>1, <3>2
  <2>3. c \in 1..(n - d) /\ c \in 0..(n - d) /\ c - 1 \in 0..(n - d)
    BY <1>1, <2>2
  <2>4. FlowDepth(b, c) = 0
    <3>1. FlowDepth(b, 0) = 1
      BY <1>3, DepthStart
    <3> QED BY <2>1, <3>1 DEF Closes
  <2>5. c = Stop(b) /\ Why(b) = "CLOSED" /\ StopsAt(b, c) = "CLOSED"
    <3>1. ~(c < Stop(b))
      <4> SUFFICES ASSUME c < Stop(b) PROVE FALSE
        OBVIOUS
      <4>1. c \in 1..(Stop(b) - 1)
        BY <1>14, <2>2
      <4> QED BY <1>14, <2>4, <4>1, StopDepth
    <3>2. c = Stop(b)
      BY <1>14, <2>2, <3>1
    <3>3. Why(b) = "CLOSED"
      <4>1. c <= ReadTo(b)
        BY <1>14, <2>1, <2>2
      <4> QED BY <1>14, <2>2, <3>2, <4>1 DEF ReadTo
    <3>4. Stop(b) <= n - d
      BY <1>1, <2>2, <3>2
    <3> QED BY <1>14, <3>2, <3>3, <3>4
  <2> DEFINE e == d + c
  <2>6. e \in 1..n /\ d + (c - 1) = e - 1 /\ d < e /\ e < n /\ e \in Nat
    BY <1>1, <2>2
  <2>7. Closes(x, d, e)
    <3>1. 0 \in 0..(n - d) /\ d + 0 = d
      BY <1>1
    <3>2. Closes(b, 0, c) <=> Closes(x, d + 0, d + c)
      BY <2>3, <3>1, <1>a
    <3> QED BY <2>1, <3>1, <3>2
  <2>8. StopsAt(x, e) \in {"NO", "CLOSED"}
    BY <1>3, <1>4, <2>3, <2>5, PartStops
  <2>9. x[e + 1].kind = ":"
    <3>1. c + 1 \in 1..(n - d) /\ d + (c + 1) = e + 1
      BY <1>1, <2>2
    <3> QED BY <1>3, <2>2, <3>1
  <2> HIDE DEF e
  <2>10. \A j \in 1..(e - 1) : StopsAt(x, j) = "NO"
    <3>1. \A j \in 1..(c - 1) : StopsAt(b, j) = "NO"
      BY <1>14, <2>5
    <3> QED BY <1>12, <2>3, <2>6, <3>1
  <2>11. e <= Stop(t) /\ e <= m
    BY <1>13, <2>6, <2>10
  <2>12. e \in 1..m /\ e \in 0..m
    BY <1>1, <2>6, <2>11
  <2>13. e <= ReadTo(t) /\ e < m
    <3>1. CASE e = Stop(t)
      <4>1. Why(t) = "CLOSED"
        BY <1>5, <1>8, <2>8, <2>11, <2>12, <3>1
      <4>2. e # m
        BY <1>6, <2>6, <3>1, <4>1
      <4> QED BY <1>1, <2>6, <2>11, <3>1, <4>1, <4>2 DEF ReadTo
    <3>2. CASE e < Stop(t)
      <4>1. e <= ReadTo(t)
        BY <1>5, <2>6, <3>2 DEF ReadTo
      <4>2. e # m
        <5>1. e = m => Stop(t) = m + 1
          BY <1>1, <1>5, <3>2
        <5> QED BY <1>6, <2>6, <5>1
      <4> QED BY <1>1, <2>6, <2>11, <4>1, <4>2
    <3> QED BY <1>5, <2>6, <2>11, <3>1, <3>2
  <2>14. Closes(t, d, e)
    <3>1. 0 + d = d /\ 0 + e = e /\ d \in 0..m
      BY <1>1, <2>6, <2>12
    <3>2. Closes(t, d, e) <=> Closes(x, 0 + d, 0 + e)
      BY <1>2, <1>4, <2>12, <3>1, PartCloses
    <3> QED BY <2>7, <3>1, <3>2
  <2>15. ColonFollows(t, e)
    <3>1. e + 1 \in 1..m
      BY <1>1, <2>12, <2>13
    <3> QED BY <1>2, <2>9, <2>13, <3>1 DEF ColonFollows
  <2>16. e \in 0..ReadTo(t)
    <3>1. ReadTo(t) \in Int
      BY <1>5 DEF ReadTo
    <3> QED BY <2>6, <2>13, <3>1
  <2> QED BY <2>14, <2>15, <2>16 DEF FindsKey
<1> QED BY <1>7, <1>15, <1>16, <1>17

\* A lookahead goes by the text alone.
LEMMA ScanText ==
  ASSUME NEW s, NEW r, s.buf = r.buf, NEW lo
  PROVE  FkScan(s, lo) = FkScan(r, lo)
BY DEF FkScan

\* The cache answers for a collection inside as a new lookahead would.
LEMMA CacheAnswers ==
  ASSUME NEW x \in Seq(Lexeme), NEW m \in 0..Len(x), NEW ended, Settled(x, m, ended),
         QuoteLast(x), NEW d \in 0..Len(x), KindAt(x, d) \in Openers, NEW lo \in Nat,
         NEW r, r.buf = SubSeq(x, 1, m), NEW s, s.buf = SubSeq(x, d + 1, Len(x)),
         FkCovers(FkScan(r, lo), lo + d)
  PROVE  LET fk == FkScan(r, lo)
         IN  fk.ambiguous \/ FkIsKey(fk, lo + d) = FkIsKey(FkScan(s, lo + d), lo + d)
<1> DEFINE t == r.buf
           b == s.buf
           fk == FkScan(r, lo)
           fresh == FkScan(s, lo + d)
<1>1. m \in Nat /\ m <= Len(x) /\ Len(x) \in Nat /\ d \in Nat /\ d <= Len(x) /\ 0 <= m /\ lo + d \in Nat
  OBVIOUS
<1>2. t \in Seq(Lexeme) /\ b \in Seq(Lexeme)
  <2>1. LET u == SubSeq(x, 0 + 1, m) IN u \in Seq(Lexeme)
    BY <1>1, SubText
  <2>2. LET u == SubSeq(x, d + 1, Len(x)) IN u \in Seq(Lexeme)
    BY <1>1, SubText
  <2> QED BY <2>1, <2>2
<1>3. /\ fk.valid /\ fk.lo = lo
      /\ fk.ambiguous <=> Why(t) = "AMBIGUOUS"
      /\ fk.hi = IF Why(t) \in {"CLOSED", "LINE"} THEN lo + ReadTo(t) ELSE MaxText
      /\ \A i \in 0..ReadTo(t) : ~fk.ambiguous => (lo + i \in fk.keys <=> FindsKey(t, i))
  BY <1>2, ScanKeeps
<1>4. /\ fresh.ambiguous <=> Why(b) = "AMBIGUOUS"
      /\ \A i \in 0..ReadTo(b) :
           ~fresh.ambiguous => ((lo + d) + i \in fresh.keys <=> FindsKey(b, i))
  BY <1>1, <1>2, ScanKeeps
<1>5. ReadTo(t) \in Nat /\ ReadTo(b) \in Nat
  <2>1. ASSUME NEW a \in Seq(Lexeme) PROVE ReadTo(a) \in Nat
    BY StopFacts DEF ReadTo
  <2> HIDE DEF t, b
  <2> QED BY <1>2, <2>1
<1> SUFFICES ASSUME ~fk.ambiguous PROVE FkIsKey(fk, lo + d) = FkIsKey(fresh, lo + d)
  OBVIOUS
<1>6. lo + d <= fk.hi
  BY DEF FkCovers
<1> HIDE DEF t, b, fk, fresh
<1>7. Why(t) # "AMBIGUOUS" /\ (Why(t) \in {"CLOSED", "LINE"} => d <= ReadTo(t))
  BY <1>1, <1>3, <1>5, <1>6
<1>8. /\ d \in 0..ReadTo(t)
      /\ Why(b) # "AMBIGUOUS"
      /\ FindsKey(b, 0) <=> FindsKey(t, d)
  BY <1>7, CacheAgrees DEF t, b
<1>9. FkIsKey(fk, lo + d) <=> FindsKey(t, d)
  BY <1>3, <1>8 DEF FkIsKey
<1>10. FkIsKey(fresh, lo + d) <=> FindsKey(b, 0)
  <2>1. (lo + d) + 0 = lo + d /\ 0 \in 0..ReadTo(b)
    BY <1>1, <1>5
  <2> QED BY <1>4, <1>8, <2>1 DEF FkIsKey
<1>11. FkIsKey(fk, lo + d) \in BOOLEAN /\ FkIsKey(fresh, lo + d) \in BOOLEAN
  <2>1. fk.ambiguous \in BOOLEAN /\ fresh.ambiguous \in BOOLEAN
    BY DEF fk, fresh, FkScan
  <2> QED BY <2>1 DEF FkIsKey
<1> QED BY <1>8, <1>9, <1>10, <1>11

\* A lookahead that needs no more text was decided by what there is.
LEMMA DecidedSettled ==
  ASSUME NEW s, s.buf \in Seq(Lexeme), ~FkUndecided(s)
  PROVE  Settled(s.buf, Len(s.buf), s.text_ended)
<1>1. CASE s.text_ended
  BY <1>1 DEF Settled
<1>2. CASE ~s.text_ended
  <2> DEFINE a == s.buf
  <2>1. Stops(a) # {} /\ ~(FirstStop(a) = Len(a) /\ StopsAt(a, Len(a)) = "CLOSED")
    BY <1>2 DEF FkUndecided
  <2>2. Stop(a) = FirstStop(a) /\ Why(a) = StopsAt(a, Stop(a)) /\ Stop(a) <= Len(a)
    <3>1. Stop(a) = FirstStop(a) /\ FirstStop(a) \in 1..Len(a)
      BY <2>1, FirstStopType DEF Stop
    <3> QED BY <2>1, <3>1 DEF Why
  <2>3. SubSeq(a, 1, Len(a)) = a
    OBVIOUS
  <2> QED BY <2>1, <2>2, <2>3 DEF Settled
<1> QED BY <1>1, <1>2

\* More text, or its end, leaves it decided.
LEMMA SettledStays ==
  ASSUME NEW x \in Seq(Lexeme), NEW m \in 0..Len(x), Settled(x, m, FALSE), NEW l \in Lexeme
  PROVE  /\ Settled(x, m, TRUE) /\ Settled(Append(x, l), m, FALSE)
         /\ SubSeq(Append(x, l), 1, m) = SubSeq(x, 1, m)
<1>1. SubSeq(Append(x, l), 1, m) = SubSeq(x, 1, m)
  OBVIOUS
<1> QED BY <1>1 DEF Settled

-----------------------------------------------------------------------------
(***************************************************************************)
(* How a call moves on in the text.                                        *)
(***************************************************************************)

\* Two scanners at the same place of the same text.
SamePlace(s, t) ==
  /\ t.buf = s.buf /\ t.pos = s.pos
  /\ t.last = s.last /\ t.text_ended = s.text_ended

\* The call r reads the lexeme that the scanner s is at.
ReadsLexeme(s, r) ==
  /\ r.s.last = s.last /\ r.s.text_ended = s.text_ended
  /\ r.res = "STARVED" => ~s.text_ended
  /\ r.res = "OK" =>
       /\ r.s.buf = Tail(s.buf) /\ r.s.pos = s.pos + 1
       /\ r.tok.type \in Opening => Head(s.buf).kind \in Openers /\ r.tok.pos = s.pos

\* A call reads one lexeme, or none when there is none.
MovesOn(s, r) ==
  /\ r.s.last = s.last /\ r.s.text_ended = s.text_ended
  /\ r.res = "STARVED" => ~s.text_ended
  /\ r.res = "OK" =>
       \/ r.s.buf = s.buf /\ r.s.pos = s.pos /\ r.tok.type \notin Opening
       \/ /\ s.buf # <<>> /\ r.s.buf = Tail(s.buf) /\ r.s.pos = s.pos + 1
          /\ r.tok.type \in Opening => Head(s.buf).kind \in Openers /\ r.tok.pos = s.pos

\* A token taken is the lexeme's.
LEMMA TakeReads ==
  ASSUME NEW s, NEW t \in ScannerState, t.buf # <<>>, SamePlace(s, t),
         NEW type, type \in Opening => Head(s.buf).kind \in Openers
  PROVE  /\ ReadsLexeme(s, Take(t, type))
         /\ ReadsLexeme(s, TakeNode(t, type)) /\ ReadsLexeme(s, TakeProps(t, type))
<1>1. /\ Advance(t) \in ScannerState
      /\ Advance(t).buf = Tail(s.buf) /\ Advance(t).pos = s.pos + 1
      /\ Advance(t).last = s.last /\ Advance(t).text_ended = s.text_ended
  BY AdvanceType DEF Advance, ScannerState, SamePlace
<1>2. TokenAt(t, type).type = type /\ TokenAt(t, type).pos = s.pos
  BY DEF TokenAt, SamePlace
<1>3. ASSUME NEW u, u.buf = Tail(s.buf), u.pos = s.pos + 1, u.last = s.last,
             u.text_ended = s.text_ended
      PROVE  ReadsLexeme(s, Scanned(u, TokenAt(t, type)))
  BY <1>2, <1>3 DEF ReadsLexeme, Scanned
<1>4. ReadsLexeme(s, Take(t, type))
  BY <1>1, <1>3 DEF Take
<1>5. ReadsLexeme(s, TakeNode(t, type))
  <2> DEFINE u == NoteNode(Advance(t), t.line, t.col, t.props_col)
  <2>1. /\ u.buf = Tail(s.buf) /\ u.pos = s.pos + 1
        /\ u.last = s.last /\ u.text_ended = s.text_ended
    BY <1>1 DEF NoteNode, ScannerState
  <2> HIDE DEF u
  <2>2. ReadsLexeme(s, Scanned(u, TokenAt(t, type)))
    BY <1>3, <2>1
  <2> QED BY <2>2 DEF TakeNode, u
<1>6. ReadsLexeme(s, TakeProps(t, type))
  <2> DEFINE u == [Advance(t) EXCEPT !.props_col = IF t.props_col >= 0 THEN t.props_col ELSE t.col]
  <2>1. /\ u.buf = Tail(s.buf) /\ u.pos = s.pos + 1
        /\ u.last = s.last /\ u.text_ended = s.text_ended
    BY <1>1 DEF ScannerState
  <2> HIDE DEF u
  <2>2. ReadsLexeme(s, Scanned(u, TokenAt(t, type)))
    BY <1>3, <2>1
  <2> QED BY <2>2 DEF TakeProps, u
<1> QED BY <1>4, <1>5, <1>6

\* A call that fails has not moved on for certain.
LEMMA FailedReads ==
  ASSUME NEW s, NEW t, t.last = s.last, t.text_ended = s.text_ended
  PROVE  ReadsLexeme(s, ScanError(t))
BY DEF ReadsLexeme, ScanError

\* Neither indentation nor brackets are of the text.
LEMMA StaysInPlace ==
  ASSUME NEW s \in ScannerState, NEW col, NEW is_map
  PROVE  /\ SamePlace(s, Unroll(s, col)) /\ SamePlace(s, IndentPush(s, col))
         /\ SamePlace(s, FlowPush(s, is_map)) /\ SamePlace(s, FlowPop(s))
BY DEF Unroll, IndentPush, FlowPush, FlowPop, ScannerState, SamePlace

\* A closing bracket is one lexeme.
LEMMA ScanCloseReads ==
  ASSUME NEW s \in ScannerState, s.buf # <<>>, NEW type \in Closing
  PROVE  ReadsLexeme(s, ScanClose(s, type))
<1> DEFINE t == FlowPop(s)
           left == IF InFlow(s) THEN s.flows[Len(s.flows)]
                   ELSE [line |-> s.line, col |-> s.col, props_col |-> s.props_col]
           u == NoteNode(Advance(t), left.line, left.col, left.props_col)
<1>1. ScanClose(s, type) = Scanned(u, TokenAt(s, type))
  BY DEF ScanClose
<1>2. t \in ScannerState /\ t.buf # <<>> /\ SamePlace(s, t)
  BY FlowPopType, StaysInPlace
<1> HIDE DEF t, left
<1>3. /\ Advance(t) \in ScannerState
      /\ Advance(t).buf = Tail(s.buf) /\ Advance(t).pos = s.pos + 1
      /\ Advance(t).last = s.last /\ Advance(t).text_ended = s.text_ended
  BY <1>2, AdvanceType DEF Advance, ScannerState, SamePlace
<1>4. /\ u.buf = Tail(s.buf) /\ u.pos = s.pos + 1
      /\ u.last = s.last /\ u.text_ended = s.text_ended
  BY <1>3 DEF NoteNode, ScannerState
<1> HIDE DEF u
<1>5. TokenAt(s, type).type \notin Opening
  BY DEF TokenAt, Opening, Closing
<1> QED BY <1>1, <1>4, <1>5 DEF ReadsLexeme, Scanned

\* The end of a document, which needs the lexeme after it.
LEMMA ScanDocEndReads ==
  ASSUME NEW s \in ScannerState, s.buf # <<>>
  PROVE  ReadsLexeme(s, ScanDocEnd(s))
<1> DEFINE r == Take(Unroll(s, -1), "DOC_END")
<1>1. ReadsLexeme(s, r)
  <2>1. -1 \in Int
    OBVIOUS
  <2>2. Unroll(s, -1) \in ScannerState /\ Unroll(s, -1).buf # <<>> /\ SamePlace(s, Unroll(s, -1))
    BY <2>1, UnrollType, StaysInPlace
  <2>3. "DOC_END" \notin Opening
    BY DEF Opening
  <2> QED BY <2>2, <2>3, TakeReads
<1>2. /\ ScanDocEnd(s) \in {r, ScanError(r.s), Starved(s)}
      /\ ScanDocEnd(s) = Starved(s) => ~s.text_ended
  <2>1. r.res = "OK"
    BY DEF Take, Scanned
  <2>2. r # Starved(s)
    BY <2>1 DEF Starved
  <2>3. ScanError(r.s) # Starved(s)
    BY DEF Starved, ScanError
  <2> QED BY <2>2, <2>3 DEF ScanDocEnd
<1> HIDE DEF r
<1>3. ReadsLexeme(s, ScanError(r.s))
  BY <1>1, FailedReads DEF ReadsLexeme
<1>4. ~s.text_ended => ReadsLexeme(s, Starved(s))
  BY DEF Starved, ReadsLexeme
<1> QED BY <1>1, <1>2, <1>3, <1>4

\* So is every other lexeme.
LEMMA ScanLexemeReads ==
  ASSUME NEW s \in ScannerState, s.buf # <<>>
  PROVE  ReadsLexeme(s, ScanLexeme(s))
<1> DEFINE kind == Head(s.buf).kind
<1>1. kind \in AllKinds
  BY HeadType DEF Lexeme
<1>2. SamePlace(s, s) /\ s.col \in Nat /\ -1 \in Int
  BY DEF SamePlace, ScannerState
<1>3. \A type \in {"DOC_START", "DOC_END", "DIRECTIVE", "FLOW_ENTRY", "BLOCK_SEQ_ENTRY",
                   "BLOCK_MAP_KEY", "BLOCK_MAP_VALUE", "TAG", "ANCHOR", "ALIAS", "SCALAR"} :
        type \notin Opening
  BY DEF Opening
<1>4. ReadsLexeme(s, Take(Unroll(s, -1), "DOC_START"))
  <2>1. Unroll(s, -1) \in ScannerState /\ Unroll(s, -1).buf # <<>> /\ SamePlace(s, Unroll(s, -1))
    BY <1>2, UnrollType, StaysInPlace
  <2> QED BY <1>3, <2>1, TakeReads
<1>5. ReadsLexeme(s, ScanDocEnd(s))
  BY ScanDocEndReads
<1>6. /\ ReadsLexeme(s, Take(s, "DIRECTIVE")) /\ ReadsLexeme(s, Take(s, "SCALAR"))
      /\ ReadsLexeme(s, TakeNode(s, "SCALAR")) /\ ReadsLexeme(s, TakeNode(s, "ALIAS"))
      /\ ReadsLexeme(s, TakeProps(s, "TAG")) /\ ReadsLexeme(s, TakeProps(s, "ANCHOR"))
  BY <1>2, <1>3, TakeReads
<1>7. ReadsLexeme(s, ScanFlowEntry(s))
  <2> DEFINE k == s.explicit_key /\ ~AtExplicitKey(s)
             t == [s EXCEPT !.explicit_key = k]
  <2>1. k \in BOOLEAN
    OBVIOUS
  <2>2. ScanFlowEntry(s) = Take(t, "FLOW_ENTRY")
    BY DEF ScanFlowEntry
  <2> HIDE DEF k
  <2>3. t \in ScannerState /\ t.buf # <<>> /\ SamePlace(s, t)
    BY <2>1 DEF ScannerState, SamePlace
  <2> HIDE DEF t
  <2> QED BY <1>3, <2>2, <2>3, TakeReads
<1>8. ReadsLexeme(s, ScanBlockSeqEntry(s))
  <2>1. /\ IndentPush(s, s.col) \in ScannerState /\ IndentPush(s, s.col).buf # <<>>
        /\ SamePlace(s, IndentPush(s, s.col))
    BY <1>2, IndentPushType, StaysInPlace
  <2>2. ReadsLexeme(s, Take(IndentPush(s, s.col), "BLOCK_SEQ_ENTRY"))
    BY <1>3, <2>1, TakeReads
  <2> QED BY <2>2, FailedReads DEF ScanBlockSeqEntry
<1>9. ReadsLexeme(s, ScanBlockMapKey(s))
  <2> DEFINE t == [s EXCEPT !.explicit_key = TRUE, !.explicit_depth = Len(s.flows)]
             u == IF InFlow(s) THEN t ELSE IndentPush(t, s.col)
  <2>1. ScanBlockMapKey(s) \in {ScanError(s), Take(u, "BLOCK_MAP_KEY")}
    BY DEF ScanBlockMapKey
  <2>2. t \in ScannerState /\ t.buf # <<>> /\ SamePlace(s, t)
    <3> HIDE DEF u
    <3>1. Len(s.flows) \in Nat
      BY DEF ScannerState
    <3> QED BY <3>1 DEF ScannerState, SamePlace
  <2> HIDE DEF t
  <2>3. u \in ScannerState /\ u.buf # <<>> /\ SamePlace(s, u)
    <3>1. /\ IndentPush(t, s.col) \in ScannerState /\ IndentPush(t, s.col).buf # <<>>
          /\ SamePlace(t, IndentPush(t, s.col))
      BY <1>2, <2>2, IndentPushType, StaysInPlace
    <3> QED BY <2>2, <3>1 DEF SamePlace
  <2> HIDE DEF u
  <2>4. ReadsLexeme(s, Take(u, "BLOCK_MAP_KEY"))
    BY <1>3, <2>3, TakeReads
  <2> QED BY <2>1, <2>4, FailedReads
<1>10. ReadsLexeme(s, ScanBlockMapValue(s))
  <2> DEFINE k == s.explicit_key /\ ClassifyColon(s) # "EXPLICIT"
             l == IF ~InFlow(s) /\ ClassifyColon(s) = "IMPLICIT"
                  THEN s.line ELSE s.key_colon_line
             t == [s EXCEPT !.explicit_key = k, !.key_colon_line = l]
             u == IF InFlow(s) THEN t ELSE IndentPush(t, MapColumn(s))
  <2>1. t = [s EXCEPT !.explicit_key = @ /\ ClassifyColon(s) # "EXPLICIT",
                      !.key_colon_line = IF ~InFlow(s) /\ ClassifyColon(s) = "IMPLICIT"
                                         THEN s.line ELSE @]
    BY DEF ScannerState
  <2>2. k \in BOOLEAN /\ l \in Nat
    BY DEF ScannerState
  <2> HIDE DEF k, l
  <2>3. t \in ScannerState /\ t.buf # <<>> /\ SamePlace(s, t)
    BY <2>2 DEF ScannerState, SamePlace
  <2> HIDE DEF t
  <2>4. ScanBlockMapValue(s) \in {ScanError(s), Take(u, "BLOCK_MAP_VALUE")}
    BY <2>1 DEF ScanBlockMapValue
  <2>5. u \in ScannerState /\ u.buf # <<>> /\ SamePlace(s, u)
    <3>1. /\ IndentPush(t, MapColumn(s)) \in ScannerState
          /\ IndentPush(t, MapColumn(s)).buf # <<>>
          /\ SamePlace(t, IndentPush(t, MapColumn(s)))
      BY <2>3, IndentPushType, MapColumnType, StaysInPlace
    <3> QED BY <2>3, <3>1 DEF SamePlace
  <2> HIDE DEF u
  <2>6. ReadsLexeme(s, Take(u, "BLOCK_MAP_VALUE"))
    BY <1>3, <2>5, TakeReads
  <2> QED BY <2>4, <2>6, FailedReads
<1>11. ASSUME NEW is_map \in BOOLEAN, kind \in Openers
       PROVE  ReadsLexeme(s, ScanOpen(s, is_map))
  <2> DEFINE t == FlowPush(s, is_map)
             type == IF is_map THEN "FLOW_MAP_START" ELSE "FLOW_SEQ_START"
  <2>1. t \in ScannerState /\ t.buf # <<>> /\ SamePlace(s, t)
    BY FlowPushType, StaysInPlace
  <2>2. ScanOpen(s, is_map) = Take(t, type)
    BY DEF ScanOpen
  <2> HIDE DEF t, type
  <2> QED BY <1>11, <2>1, <2>2, TakeReads
<1>12. ReadsLexeme(s, ScanClose(s, "FLOW_SEQ_END")) /\ ReadsLexeme(s, ScanClose(s, "FLOW_MAP_END"))
  BY ScanCloseReads DEF Closing
<1>13. ReadsLexeme(s, ScanError(s)) /\ ReadsLexeme(s, ScanError(Advance(s)))
  <2>1. Advance(s).last = s.last /\ Advance(s).text_ended = s.text_ended
    BY DEF Advance, ScannerState
  <2> QED BY <2>1, FailedReads
<1>14. kind \in {"[", "{"} => ReadsLexeme(s, ScanOpen(s, FALSE)) /\ ReadsLexeme(s, ScanOpen(s, TRUE))
  BY <1>11 DEF Openers
<1> QED BY <1>1, <1>4, <1>5, <1>6, <1>7, <1>8, <1>9, <1>10, <1>12, <1>13, <1>14
        DEF ScanLexeme, AllKinds

\* A call of the scanner moves on by at most one lexeme, and it is an opening
\* bracket's place that a token of one has.
LEMMA ScanMovesOn ==
  ASSUME NEW s \in ScannerState
  PROVE  MovesOn(s, Scan(s))
<1>1. CASE ~s.stream_started
  <2> DEFINE t == [s EXCEPT !.stream_started = TRUE]
  <2>1. t.buf = s.buf /\ t.pos = s.pos /\ t.last = s.last /\ t.text_ended = s.text_ended
    BY DEF ScannerState
  <2>2. /\ Scan(s).res = "OK" /\ Scan(s).tok.type = "STREAM_START"
        /\ Scan(s).s = t
    BY <1>1 DEF Scan, Scanned, TokenAt
  <2> QED BY <2>1, <2>2 DEF MovesOn, Opening
<1>2. CASE s.stream_started /\ s.buf = <<>>
  <2>1. MovesOn(s, ScanEnd(s))
    <3> DEFINE u == [Unroll(s, -1) EXCEPT !.stream_ended = TRUE]
    <3>1. u.buf = s.buf /\ u.pos = s.pos /\ u.last = s.last /\ u.text_ended = s.text_ended
      <4>1. Unroll(s, -1) \in ScannerState /\ SamePlace(s, Unroll(s, -1))
        <5>1. -1 \in Int
          OBVIOUS
        <5> QED BY <5>1, UnrollType, StaysInPlace
      <4> QED BY <4>1 DEF ScannerState, SamePlace
    <3> HIDE DEF u
    <3>2. ScanEnd(s) = Scanned(s, TokenAt(s, "NONE")) \/ ScanEnd(s) = Scanned(u, TokenAt(s, "STREAM_END"))
      BY DEF ScanEnd, u
    <3> QED BY <3>1, <3>2 DEF Scanned, TokenAt, MovesOn, Opening
  <2>2. ~s.text_ended => MovesOn(s, Starved(s))
    BY DEF MovesOn, Starved
  <2> QED BY <1>2, <2>1, <2>2 DEF Scan
<1>3. CASE s.stream_started /\ s.buf # <<>>
  <2> DEFINE at == SkipBlanks(s)
             u == Unroll(at, at.col)
  <2>1. at \in ScannerState /\ at.buf # <<>>
    BY <1>3, SkipBlanksType
  <2>2. /\ Tail(at.buf) = Tail(s.buf) /\ Head(at.buf).kind = Head(s.buf).kind
        /\ at.pos = s.pos /\ at.last = s.last /\ at.text_ended = s.text_ended
    <3>1. Head(s.buf) \in Lexeme /\ Tail(s.buf) \in Seq(Lexeme)
      BY <1>3 DEF ScannerState
    <3> DEFINE h == [Head(s.buf) EXCEPT !.brk = SameLine]
    <3>2. h.kind = Head(s.buf).kind /\ h \in Lexeme
      BY <3>1 DEF Lexeme
    <3> DEFINE v == <<h>> \o Tail(s.buf)
    <3>3. at = s \/ (/\ at.buf = v /\ at.pos = s.pos
                     /\ at.last = s.last /\ at.text_ended = s.text_ended)
      BY DEF SkipBlanks, ScannerState
    <3>4. Tail(v) = Tail(s.buf) /\ Head(v) = h
      <4> HIDE DEF h
      <4> QED BY <3>1, <3>2
    <3> HIDE DEF h, v, at
    <3> QED BY <3>2, <3>3, <3>4
  <2>3. at.col \in Int
    BY <2>1 DEF ScannerState
  <2>4. Scan(s) \in {ScanError(at), ScanLexeme(at), ScanLexeme(u)}
    BY <1>3 DEF Scan, ScanAt
  <2> HIDE DEF at
  <2>5. u \in ScannerState /\ u.buf # <<>> /\ SamePlace(at, u)
    BY <2>1, <2>3, UnrollType, StaysInPlace
  <2> HIDE DEF u
  <2>6. ReadsLexeme(at, ScanLexeme(at)) /\ ReadsLexeme(u, ScanLexeme(u))
    BY <2>1, <2>5, ScanLexemeReads
  <2>7. ReadsLexeme(at, ScanLexeme(u)) /\ ReadsLexeme(at, ScanError(at))
    BY <2>5, <2>6, FailedReads DEF ReadsLexeme, SamePlace
  <2>8. ReadsLexeme(at, Scan(s))
    BY <2>4, <2>6, <2>7
  <2> QED BY <1>3, <2>2, <2>8 DEF ReadsLexeme, MovesOn
<1> QED BY <1>1, <1>2, <1>3


-----------------------------------------------------------------------------
(***************************************************************************)
(* The parser's records, and the handlers.                                 *)
(***************************************************************************)


\* Within the limits; the events to be kept after a scanner error are ones
\* that were produced (next_event sets out_len to scan_error_out), and those
\* before the checkpoint were delivered.
Bounds(q) ==
  /\ MaxEvents > 0 => q.events_delivered + Len(q.out_buf) <= MaxEvents
  /\ MaxDepth > 0 => Len(q.frames) <= MaxDepth
  /\ q.scan_error => q.scan_error_out <= Len(q.out_buf)
  /\ q.ckpt.set => q.ckpt.delivered <= q.events_delivered

\* The record at any point of a step.
Good(q) == q \in ParserRecord /\ Bounds(q)

\* The states that rely on a token read before they were entered: they
\* withhold events, which no failing peek may come before.
TokenStates ==
  {"FLOW_NODE", "BLOCK_NODE_SEQ", "BLOCK_NODE_EXPLICIT_KEY", "BLOCK_NODE_BARE_VALUE"}

OtherStates == State \ TokenStates

\* The record has its token, or the step ends here.
Held(q) == q.have_token \/ q.scan_error \/ q.starved

\* The record at the end of a step.
Fine(q) == Good(q) /\ (q.state \in TokenStates => Held(q))

\* A good record that has its token may end a step in any state.
LEMMA HeldFine ==
  ASSUME NEW q, Good(q), Held(q)
  PROVE  Fine(q)
BY DEF Fine

\* What is good at the end of a step is good.
LEMMA FineGood ==
  ASSUME NEW q, Fine(q)
  PROVE  Good(q)
BY DEF Fine

\* The types of the fields the handlers read.
LEMMA FieldTypes ==
  ASSUME NEW q, Good(q)
  PROVE  /\ q.scanner \in ScannerState
         /\ Tok(q) \in TokenType /\ Col(q) \in Nat
         /\ q.current.line \in Nat /\ q.current.pos \in Nat
         /\ q.current.first \in BOOLEAN
         /\ q.state \in State /\ q.node_return \in ReturnState
         /\ q.saved_node \in Stream!Leaf /\ q.saved_node_col \in Nat
         /\ q.out_buf \in Seq(Stream!Event) /\ q.frames \in Seq(Frame)
         /\ q.events_delivered \in Nat
BY DEF Good, ParserRecord, Token, Tok, Col

\* Going to a state keeps a record good.
LEMMA GotoGood ==
  ASSUME NEW q, Good(q), NEW state \in State
  PROVE  Good(Goto(q, state))
<1>1. Goto(q, state) \in ParserRecord
  BY DEF Good, Goto, ParserRecord
<1>2. Bounds(Goto(q, state))
  BY DEF Good, Goto, ParserRecord, Bounds
<1> QED BY <1>1, <1>2 DEF Good

\* A step may end in any state that relies on no token.
LEMMA GotoFine ==
  ASSUME NEW q, Good(q), NEW state \in OtherStates
  PROVE  Fine(Goto(q, state))
<1>1. Good(Goto(q, state))
  BY GotoGood DEF OtherStates
<1>2. Goto(q, state).state = state
  BY DEF Good, Goto, ParserRecord
<1> QED BY <1>1, <1>2 DEF Fine, OtherStates

\* A step that has its token may end in any state.
LEMMA GotoHeld ==
  ASSUME NEW q, Good(q), Held(q), NEW state \in State
  PROVE  Fine(Goto(q, state))
<1>1. Good(Goto(q, state))
  BY GotoGood
<1>2. Held(Goto(q, state))
  BY DEF Good, Goto, ParserRecord, Held
<1> QED BY <1>1, <1>2, HeldFine

\* No node or collection returns to a state that relies on a token.
LEMMA ReturnStates == ReturnState \subseteq OtherStates
BY DEF ReturnState, OtherStates, State, BlockStates, FlowStates, TokenStates

\* A step that has its token may go on to a node.
LEMMA GotoNodeFine ==
  ASSUME NEW q, Good(q), Held(q), NEW state \in State, NEW node_return \in ReturnState
  PROVE  Fine(GotoNode(q, state, node_return))
<1>1. GotoNode(q, state, node_return) \in ParserRecord
  BY DEF Good, GotoNode, ParserRecord
<1>2. Bounds(GotoNode(q, state, node_return))
  BY DEF Good, GotoNode, ParserRecord, Bounds
<1>3. Held(GotoNode(q, state, node_return))
  BY DEF Good, GotoNode, ParserRecord, Held
<1> QED BY <1>1, <1>2, <1>3, HeldFine DEF Good

\* Consuming the token keeps a record good.
LEMMA ConsumeGood ==
  ASSUME NEW q, Good(q)
  PROVE  Good(Consume(q))
<1>1. Consume(q) \in ParserRecord
  BY DEF Good, Consume, ParserRecord
<1>2. Bounds(Consume(q))
  BY DEF Good, Consume, ParserRecord, Bounds
<1> QED BY <1>1, <1>2 DEF Good

\* Attaching the pending properties keeps a record good.
LEMMA AttachPropsGood ==
  ASSUME NEW q, Good(q)
  PROVE  Good(AttachProps(q))
<1>1. AttachProps(q) \in ParserRecord
  BY DEF Good, AttachProps, ParserRecord
<1>2. Bounds(AttachProps(q))
  BY DEF Good, AttachProps, ParserRecord, Bounds
<1> QED BY <1>1, <1>2 DEF Good

\* A parse error keeps a record good.
LEMMA ParseErrorGood ==
  ASSUME NEW q, Good(q)
  PROVE  /\ Good(ParseError(q))
         /\ Held(q) => Held(ParseError(q))
<1>1. ParseError(q) \in ParserRecord
  BY DEF Good, ParseError, ParserRecord, Message
<1>2. Bounds(ParseError(q))
  BY DEF Good, ParseError, ParserRecord, Bounds
<1>3. Held(q) => Held(ParseError(q))
  BY DEF Good, ParseError, ParserRecord, Held
<1> QED BY <1>1, <1>2, <1>3 DEF Good

\* So does stopping the parser.
LEMMA StopWithGood ==
  ASSUME NEW q, Good(q), NEW status \in {"ERR_LIMIT", "ERR_PARSE"}
  PROVE  Good(StopWith(q, status))
<1> DEFINE m == IF status = "ERR_LIMIT" THEN "limit" ELSE "parse"
           r == [q EXCEPT !.stop_status = status, !.error_msg = m]
<1>1. m \in Message
  BY DEF Message
<1>2. StopWith(q, status) = q \/ StopWith(q, status) = r
  BY DEF StopWith
<1> HIDE DEF m
<1>3. r \in ParserRecord
  BY <1>1 DEF Good, ParserRecord
<1>4. Bounds(r)
  BY DEF Good, ParserRecord, Bounds
<1> QED BY <1>2, <1>3, <1>4 DEF Good

\* Other buffered events, within the limit and past the failed peek's mark, too.
LEMMA OutGood ==
  ASSUME NEW q, Good(q), NEW out \in Seq(Stream!Event),
         MaxEvents > 0 => q.events_delivered + Len(out) <= MaxEvents,
         q.scan_error => q.scan_error_out <= Len(out)
  PROVE  Good([q EXCEPT !.out_buf = out])
<1>1. [q EXCEPT !.out_buf = out] \in ParserRecord
  BY DEF Good, ParserRecord
<1>2. Bounds([q EXCEPT !.out_buf = out])
  BY DEF Good, ParserRecord, Bounds
<1> QED BY <1>1, <1>2 DEF Good

\* An event is only queued within the event limit (inc_emit).
LEMMA EmitGood ==
  ASSUME NEW q, Good(q), NEW e \in Stream!Event
  PROVE  Good(Emit(q, e))
<1>1. CASE AtEventLimit(q)
  BY <1>1, StopWithGood DEF Emit
<1>2. CASE ~AtEventLimit(q) /\ Len(q.out_buf) < OutSize
  <2>1. Append(q.out_buf, e) \in Seq(Stream!Event)
    BY FieldTypes
  <2>2. Len(Append(q.out_buf, e)) = Len(q.out_buf) + 1
    BY FieldTypes
  <2>3. MaxEvents > 0 => q.events_delivered + Len(Append(q.out_buf, e)) <= MaxEvents
    BY <1>2, <2>2, FieldTypes, LimitsAssumption DEF AtEventLimit
  <2>4. q.scan_error => q.scan_error_out <= Len(Append(q.out_buf, e))
    <3>1. Len(q.out_buf) \in Nat /\ q.scan_error_out \in Nat
      BY DEF Good, ParserRecord
    <3> QED BY <2>2, <3>1 DEF Good, Bounds
  <2> QED BY <1>2, <2>1, <2>3, <2>4, OutGood DEF Emit
<1>3. CASE ~AtEventLimit(q) /\ ~(Len(q.out_buf) < OutSize)
  BY <1>3 DEF Emit
<1> QED BY <1>1, <1>2, <1>3

\* Queuing an event is no scanner error.
LEMMA EmitScanError ==
  ASSUME NEW q, Good(q), NEW e \in Stream!Event
  PROVE  Emit(q, e).scan_error = q.scan_error
BY DEF Emit, StopWith, Good, ParserRecord

\* Queuing an event keeps the state.
LEMMA EmitState ==
  ASSUME NEW q, Good(q), NEW e \in Stream!Event
  PROVE  Emit(q, e).state = q.state
BY DEF Emit, StopWith, Good, ParserRecord

\* Queuing a scalar token's event keeps a record good.
LEMMA EmitScalarTokenGood ==
  ASSUME NEW q, Good(q)
  PROVE  Good(EmitScalarToken(q))
<1>1. "SCALAR" \in Stream!Event
  BY DEF Stream!Event
<1> QED BY <1>1, StopWithGood, AttachPropsGood, EmitGood, ConsumeGood DEF EmitScalarToken

\* Nothing is added by withholding.
LEMMA WithholdType ==
  ASSUME NEW out \in Seq(Stream!Event)
  PROVE  /\ Withhold(out) \in Seq(Stream!Event)
         /\ Len(Withhold(out)) <= Len(out)
<1> DEFINE starts == {k \in 1..Len(out) : out[k] \in CollectionStarts}
           last == CHOOSE k \in starts : \A j \in starts : j <= k
<1>1. CASE starts = {}
  BY <1>1 DEF Withhold
<1>2. CASE starts # {}
  <2>1. starts \in SUBSET (1..Len(out)) /\ Len(out) \in Nat
    OBVIOUS
  <2>2. last \in starts
    <3>1. \E k \in starts : \A j \in starts : j <= k
      <4> HIDE DEF starts
      <4> QED BY <1>2, <2>1, BoundedMax
    <3> QED BY <3>1
  <2>3. last \in 1..Len(out)
    BY <2>1, <2>2
  <2>4. Withhold(out) = SubSeq(out, 1, last - 1)
    BY <1>2 DEF Withhold
  <2> HIDE DEF last
  <2>5. /\ SubSeq(out, 1, last - 1) \in Seq(Stream!Event)
        /\ Len(SubSeq(out, 1, last - 1)) = last - 1
    BY <2>3
  <2> QED BY <2>3, <2>4, <2>5
<1> QED BY <1>1, <1>2

\* So do other frames, within the depth limit.
LEMMA FramesGood ==
  ASSUME NEW q, Good(q), NEW frames \in Seq(Frame),
         MaxDepth > 0 => Len(frames) <= MaxDepth
  PROVE  Good([q EXCEPT !.frames = frames])
<1>1. [q EXCEPT !.frames = frames] \in ParserRecord
  BY DEF Good, ParserRecord
<1>2. Bounds([q EXCEPT !.frames = frames])
  BY DEF Good, ParserRecord, Bounds
<1> QED BY <1>1, <1>2 DEF Good

\* A frame is only pushed within the depth limit (inc_push_frame).  Events
\* are withheld then: no peek of the step may have failed before.
LEMMA PushFrameGood ==
  ASSUME NEW q, Good(q), ~q.scan_error, NEW type \in BlockContext \cup FlowContext,
         NEW indent \in Nat, NEW return_state \in ReturnState
  PROVE  Good(PushFrame(q, type, indent, return_state))
<1> DEFINE r == PushFrame(q, type, indent, return_state)
           f == [type |-> type, indent |-> indent, return_state |-> return_state]
           w == [q EXCEPT !.out_buf = Withhold(@)]
<1>1. Good(StopWith(q, "ERR_PARSE"))
  BY StopWithGood
<1>2. Good(StopWith(w, "ERR_LIMIT"))
  <2>1. /\ Withhold(q.out_buf) \in Seq(Stream!Event)
        /\ Len(Withhold(q.out_buf)) <= Len(q.out_buf)
    BY FieldTypes, WithholdType
  <2>2. Len(Withhold(q.out_buf)) \in Nat /\ Len(q.out_buf) \in Nat
    BY <2>1, FieldTypes
  <2>3. MaxEvents > 0 => q.events_delivered + Len(Withhold(q.out_buf)) <= MaxEvents
    BY <2>1, <2>2, FieldTypes, LimitsAssumption DEF Good, Bounds
  <2>4. Good(w)
    BY <2>1, <2>3, OutGood
  <2> HIDE DEF w
  <2> QED BY <2>4, StopWithGood
<1>3. CASE ~(MaxDepth > 0 /\ Len(q.frames) >= MaxDepth)
  <2>1. f \in Frame
    BY DEF Frame
  <2> HIDE DEF f
  <2>2. /\ Append(q.frames, f) \in Seq(Frame)
        /\ Len(Append(q.frames, f)) = Len(q.frames) + 1
        /\ Len(q.frames) \in Nat
    BY <2>1, FieldTypes
  <2>3. MaxDepth > 0 => Len(Append(q.frames, f)) <= MaxDepth
    BY <1>3, <2>2, LimitsAssumption
  <2>4. Good([q EXCEPT !.frames = Append(@, f)])
    BY <2>2, <2>3, FramesGood
  <2> QED BY <1>1, <1>3, <2>4 DEF PushFrame, f
<1>4. CASE MaxDepth > 0 /\ Len(q.frames) >= MaxDepth
  BY <1>1, <1>2, <1>4 DEF PushFrame
<1> QED BY <1>3, <1>4

\* Popping a frame (inc_pop_frame) goes to a state that relies on no token.
LEMMA PopFrameGood ==
  ASSUME NEW q, Good(q)
  PROVE  Good(PopFrame(q)) /\ PopFrame(q).state \notin TokenStates
<1>1. CASE q.frames = <<>>
  <2>1. "DONE" \in State /\ "DONE" \notin TokenStates
    BY DEF State, TokenStates
  <2>2. Goto(q, "DONE").state = "DONE"
    BY DEF Goto, Good, ParserRecord
  <2> QED BY <1>1, <2>1, <2>2, GotoGood DEF PopFrame
<1>2. CASE q.frames # <<>>
  <2> DEFINE frames == SubSeq(q.frames, 1, Len(q.frames) - 1)
             state == q.frames[Len(q.frames)].return_state
  <2>1. /\ frames \in Seq(Frame)
        /\ Len(frames) = Len(q.frames) - 1
        /\ Len(q.frames) \in Nat
    BY <1>2, FieldTypes
  <2>2. state \in ReturnState
    <3>1. q.frames[Len(q.frames)] \in Frame
      BY <1>2, FieldTypes
    <3> QED BY <3>1 DEF Frame
  <2>3. MaxDepth > 0 => Len(frames) <= MaxDepth
    BY <2>1, LimitsAssumption DEF Good, Bounds
  <2>4. PopFrame(q) = [q EXCEPT !.state = state, !.frames = frames]
    BY <1>2 DEF PopFrame
  <2> HIDE DEF frames, state
  <2>5. [q EXCEPT !.state = state, !.frames = frames] \in ParserRecord
    BY <2>1, <2>2, ReturnStates DEF Good, ParserRecord, OtherStates
  <2>6. Bounds([q EXCEPT !.state = state, !.frames = frames])
    BY <2>3 DEF Good, ParserRecord, Bounds
  <2>7. PopFrame(q).state \notin TokenStates
    BY <2>2, <2>4, ReturnStates DEF Good, ParserRecord, OtherStates
  <2> QED BY <2>4, <2>5, <2>6, <2>7 DEF Good
<1> QED BY <1>1, <1>2

\* The top frame's column is a column.
LEMMA TopIndentType ==
  ASSUME NEW q, Good(q)
  PROVE  TopIndent(q) \in Nat
<1>1. CASE q.frames # <<>>
  <2>1. q.frames[Len(q.frames)] \in Frame
    BY <1>1, FieldTypes
  <2> QED BY <1>1, <2>1 DEF TopIndent, Frame
<1>2. CASE q.frames = <<>>
  BY <1>2 DEF TopIndent
<1> QED BY <1>1, <1>2

\* A peek gets a token, or marks the events queued so far, or starves.
LEMMA PeekGood ==
  ASSUME NEW q, Good(q)
  PROVE  Good(Peek(q)) /\ Held(Peek(q))
<1> DEFINE r == Scan(q.scanner)
<1>1. /\ r.s \in ScannerState /\ r.tok \in Token
      /\ r.res \in {"OK", "ERROR", "STARVED"}
  <2>1. r \in ScanResult
    BY FieldTypes, ScanType
  <2> QED BY <2>1 DEF ScanResult
<1>2. CASE q.have_token
  BY <1>2 DEF Peek, Held
<1>3. CASE ~q.have_token /\ r.res = "OK"
  <2>1. Peek(q) = [q EXCEPT !.scanner = r.s, !.current = r.tok, !.have_token = TRUE]
    BY <1>3 DEF Peek, Peeked
  <2> HIDE DEF r
  <2>2. Peek(q) \in ParserRecord
    <3> DEFINE s == r.s
               tok == r.tok
    <3>1. q \in ParserRecord /\ s \in ScannerState /\ tok \in Token
      BY <1>1 DEF Good
    <3> HIDE DEF s, tok
    <3>2. [q EXCEPT !.scanner = s, !.current = tok, !.have_token = TRUE] \in ParserRecord
      BY <3>1 DEF ParserRecord
    <3> QED BY <2>1, <3>2 DEF s, tok
  <2>3. Bounds(Peek(q))
    BY <2>1 DEF Good, ParserRecord, Bounds
  <2>4. Held(Peek(q))
    BY <2>1 DEF Good, ParserRecord, Held
  <2> QED BY <2>2, <2>3, <2>4 DEF Good
<1>4. CASE ~q.have_token /\ r.res = "ERROR"
  <2> DEFINE n == Len(q.out_buf)
  <2>1. n \in Nat
    BY FieldTypes DEF Good, ParserRecord
  <2>2. Peek(q) = [q EXCEPT !.scanner = r.s, !.scan_error = TRUE, !.scan_error_out = n,
                            !.error_msg = "scan"]
    BY <1>4 DEF Peek, Peeked, Good, ParserRecord
  <2> HIDE DEF r, n
  <2>3. "scan" \in Message
    BY DEF Message
  <2>4. Peek(q) \in ParserRecord
    <3> DEFINE a == [q EXCEPT !.scanner = r.s, !.scan_error = TRUE, !.scan_error_out = n]
    <3>1. a \in ParserRecord
      BY <1>1, <2>1 DEF Good, ParserRecord
    <3>2. Peek(q) = [a EXCEPT !.error_msg = "scan"]
      BY <2>2
    <3> HIDE DEF a
    <3>3. [a EXCEPT !.error_msg = "scan"] \in ParserRecord
      BY <2>3, <3>1 DEF ParserRecord
    <3> QED BY <3>2, <3>3
  <2>5. n <= Len(q.out_buf)
    BY <2>1 DEF n
  <2>6. Bounds(Peek(q))
    BY <2>2, <2>5 DEF Good, ParserRecord, Bounds
  <2>7. Held(Peek(q))
    BY <2>2 DEF Good, ParserRecord, Held
  <2> QED BY <2>4, <2>6, <2>7 DEF Good
<1>5. CASE ~q.have_token /\ r.res = "STARVED"
  <2>1. Peek(q) = [q EXCEPT !.starved = TRUE]
    BY <1>5 DEF Peek, Peeked
  <2>2. Peek(q) \in ParserRecord
    <3>1. [q EXCEPT !.starved = TRUE] \in ParserRecord
      BY DEF Good, ParserRecord
    <3> QED BY <2>1, <3>1
  <2>3. Bounds(Peek(q))
    BY <2>1 DEF Good, ParserRecord, Bounds
  <2>4. Held(Peek(q))
    BY <2>1 DEF Good, ParserRecord, Held
  <2> QED BY <2>2, <2>3, <2>4 DEF Good
<1> QED BY <1>1, <1>2, <1>3, <1>4, <1>5

\* A peek keeps the state.
LEMMA PeekState ==
  ASSUME NEW q, Good(q)
  PROVE  Peek(q).state = q.state
<1> DEFINE r == Scan(q.scanner)
<1>1. r.res \in {"OK", "ERROR", "STARVED"}
  <2>1. r \in ScanResult
    BY FieldTypes, ScanType
  <2> QED BY <2>1 DEF ScanResult
<1> HIDE DEF r
<1> QED BY <1>1 DEF Peek, Peeked, r, Good, ParserRecord

\* A peek that gets a token does not fail.
LEMMA PeekClear ==
  ASSUME NEW q, Good(q), ~q.scan_error
  PROVE  Peek(q).have_token => ~Peek(q).scan_error
<1> DEFINE r == Scan(q.scanner)
<1>1. r.res \in {"OK", "ERROR", "STARVED"}
  <2>1. r \in ScanResult
    BY FieldTypes, ScanType
  <2> QED BY <2>1 DEF ScanResult
<1> HIDE DEF r
<1> QED BY <1>1 DEF Peek, Peeked, r, Good, ParserRecord

\* Reading properties (consume_props) keeps a record good, and when it leaves
\* a token no peek of it failed.
LEMMA ConsumePropsGood ==
  ASSUME NEW q, Good(q)
  PROVE  /\ Good(ConsumeProps(q)) /\ Held(ConsumeProps(q))
         /\ ~q.scan_error /\ ConsumeProps(q).have_token => ~ConsumeProps(q).scan_error
<1> DEFINE Clear(p) == p.have_token => ~p.scan_error
<1>1. ASSUME NEW p, Good(p)
      PROVE  Good(TakeProp(p)) /\ TakeProp(p).scan_error = p.scan_error
  <2> DEFINE a == [p EXCEPT !.has_anchor = TRUE]
             t == [p EXCEPT !.has_tag = TRUE]
  <2>1. a \in ParserRecord /\ t \in ParserRecord
    BY <1>1 DEF Good, ParserRecord
  <2>2. /\ Bounds(a) /\ Bounds(t)
        /\ a.scan_error = p.scan_error /\ t.scan_error = p.scan_error
    BY <1>1 DEF Good, ParserRecord, Bounds
  <2>3. Good(a) /\ Good(t)
    BY <2>1, <2>2 DEF Good
  <2>4. TakeProp(p) = Consume(a) \/ TakeProp(p) = Consume(t)
    BY DEF TakeProp
  <2> HIDE DEF a, t
  <2>5. Good(Consume(a)) /\ Good(Consume(t))
    BY <2>3, ConsumeGood
  <2>6. Consume(a).scan_error = a.scan_error /\ Consume(t).scan_error = t.scan_error
    BY <2>3 DEF Consume, Good, ParserRecord
  <2> QED BY <2>2, <2>4, <2>5, <2>6
<1>2. ASSUME NEW p, Good(p), Held(p)
      PROVE  /\ Good(TakePropIfAny(p)) /\ Held(TakePropIfAny(p))
             /\ Clear(p) => Clear(TakePropIfAny(p))
  <2>1. CASE p.have_token /\ IsNewProp(p)
    <3>1. Good(TakeProp(p)) /\ (Clear(p) => ~TakeProp(p).scan_error)
      BY <1>1, <1>2, <2>1
    <3> QED BY <2>1, <3>1, PeekGood, PeekClear DEF TakePropIfAny
  <2>2. CASE ~(p.have_token /\ IsNewProp(p))
    BY <1>2, <2>2 DEF TakePropIfAny
  <2> QED BY <2>1, <2>2
<1> DEFINE r == TakePropIfAny(TakePropIfAny(Peek(q)))
<1>3. Good(r) /\ Held(r) /\ (~q.scan_error => Clear(r))
  <2>1. Good(Peek(q)) /\ Held(Peek(q)) /\ (~q.scan_error => Clear(Peek(q)))
    BY PeekGood, PeekClear
  <2> HIDE DEF Clear
  <2> QED BY <1>2, <2>1
<1> HIDE DEF r
<1>4. /\ Good(ParseError(r)) /\ Held(ParseError(r))
      /\ Clear(r) => Clear(ParseError(r))
  <2>1. Good(ParseError(r)) /\ Held(ParseError(r))
    BY <1>3, ParseErrorGood
  <2>2. r \in ParserRecord
    BY <1>3 DEF Good
  <2>3. /\ ParseError(r).scan_error = r.scan_error
        /\ ParseError(r).have_token = r.have_token
    BY <2>2 DEF ParseError, ParserRecord
  <2> QED BY <2>1, <2>3
<1> QED BY <1>3, <1>4 DEF ConsumeProps, RefuseAliasWithProps, r

\* Looking ahead for a flow key keeps a record good.
LEMMA LookAheadGood ==
  ASSUME NEW q, Good(q)
  PROVE  /\ Good(LookAhead(q, q.current.pos))
         /\ Held(q) => Held(LookAhead(q, q.current.pos))
<1> DEFINE fk == FkScan(q.scanner, q.current.pos)
           r == [q EXCEPT !.starved = TRUE]
           s == [q EXCEPT !.fk = fk]
<1>1. fk \in FlowKeys
  BY FieldTypes, FkScanType
<1>2. LookAhead(q, q.current.pos) \in {q, r, s}
  BY DEF LookAhead
<1> HIDE DEF fk
<1>3. r \in ParserRecord /\ s \in ParserRecord
  BY <1>1 DEF Good, ParserRecord
<1>4. Bounds(r) /\ Bounds(s)
  BY DEF Good, ParserRecord, Bounds
<1>5. Held(r) /\ (Held(q) => Held(s))
  BY DEF Good, ParserRecord, Held
<1> HIDE DEF r, s
<1> QED BY <1>2, <1>3, <1>4, <1>5 DEF Good

\* So does a checkpoint (inc_checkpoint).
LEMMA TakeCheckpointGood ==
  ASSUME NEW q, Good(q)
  PROVE  Good(TakeCheckpoint(q))
<1> DEFINE c == [set |-> TRUE, pos |-> q.current.pos, delivered |-> q.events_delivered]
           r == [q EXCEPT !.ckpt = c]
<1>1. c \in Checkpoint
  BY FieldTypes DEF Checkpoint
<1>2. TakeCheckpoint(q) \in {q, r}
  BY DEF TakeCheckpoint
<1>3. c.delivered = q.events_delivered
  OBVIOUS
<1> HIDE DEF c
<1>4. r \in ParserRecord
  BY <1>1 DEF Good, ParserRecord
<1>5. Bounds(r)
  BY <1>3 DEF Good, ParserRecord, Bounds
<1> HIDE DEF r
<1> QED BY <1>2, <1>4, <1>5 DEF Good

-----------------------------------------------------------------------------
(***************************************************************************)
(* Flow collections.                                                       *)
(***************************************************************************)

\* The separator after an entry (inc_flow_sep).
LEMMA FlowSepGood ==
  ASSUME NEW q, Good(q), NEW in_seq \in BOOLEAN
  PROVE  Fine(FlowSep(q, in_seq))
<1> DEFINE r == Peek(q)
<1>1. Good(r) /\ Held(r) /\ Good(Consume(r))
  BY PeekGood, ConsumeGood
<1>2. ASSUME NEW p, Good(p), NEW state \in {"FLOW_SEQ_LOOP", "FLOW_MAP_LOOP", "FLOW_SEQ_END",
                                           "FLOW_MAP_END", "FLOW_SEQ_SEP", "FLOW_MAP_SEP"}
      PROVE Fine(Goto(p, state))
  BY <1>2, GotoFine DEF OtherStates, TokenStates, State, FlowStates
<1> HIDE DEF r
<1> QED BY <1>1, <1>2, HeldFine DEF FlowSep, r

\* A flow mapping's value (inc_flow_map_value).
LEMMA FlowMapValueNodeGood ==
  ASSUME NEW q, Good(q)
  PROVE  Fine(FlowMapValueNode(q))
<1> DEFINE r == Peek(q)
<1>1. Good(r) /\ Held(r)
  BY PeekGood
<1>2. /\ "FLOW_MAP_SEP" \in OtherStates /\ "FLOW_MAP_SEP" \in ReturnState
      /\ "FLOW_NODE" \in State /\ "SCALAR" \in Stream!Event
  BY DEF OtherStates, TokenStates, State, FlowStates, ReturnState, Stream!Event
<1> HIDE DEF r
<1> QED BY <1>1, <1>2, HeldFine, EmitScalarTokenGood, FlowSepGood, EmitGood, GotoFine,
           GotoNodeFine
        DEF FlowMapValueNode, r

\* The node of a pair, or an empty one.
LEMMA PairNodeGood ==
  ASSUME NEW q, Good(q), NEW ends, NEW next \in ReturnState
  PROVE  Fine(PairNode(q, ends, next))
<1> DEFINE r == Peek(q)
<1>1. Good(r) /\ Held(r)
  BY PeekGood
<1>2. "FLOW_NODE" \in State /\ "SCALAR" \in Stream!Event
  BY DEF State, FlowStates, Stream!Event
<1>3. next \in OtherStates
  BY ReturnStates
<1> HIDE DEF r
<1> QED BY <1>1, <1>2, <1>3, EmitGood, GotoFine, GotoNodeFine DEF PairNode, r

\* The start of a flow collection.
LEMMA FlowOpenGood ==
  ASSUME NEW q, Good(q), ~q.scan_error, NEW e \in Stream!Event,
         NEW context \in FlowContext, NEW loop \in OtherStates
  PROVE  Fine(FlowOpen(q, e, context, loop))
<1> DEFINE r == Consume(AttachProps(q))
<1>1. Good(r) /\ ~r.scan_error
  <2>1. ~AttachProps(q).scan_error
    BY DEF AttachProps, Good, ParserRecord
  <2>2. ~Consume(AttachProps(q)).scan_error
    BY <2>1, AttachPropsGood DEF Consume, Good, ParserRecord
  <2> QED BY <2>2, AttachPropsGood, ConsumeGood
<1> HIDE DEF r
<1>2. Good(Emit(r, e)) /\ ~Emit(r, e).scan_error
  BY <1>1, EmitGood, EmitScanError
<1>3. Good(PushFrame(Emit(r, e), context, Col(q), q.node_return))
  BY <1>2, FieldTypes, PushFrameGood
<1> QED BY <1>3, GotoFine DEF FlowOpen, r

\* ST_FLOW_NODE, entered with its token.
LEMMA FlowNodeGood ==
  ASSUME NEW q, Good(q), ~q.scan_error, q.have_token
  PROVE  Fine(FlowNode(q))
<1> DEFINE p == Peek(q)
           c == ConsumeProps(p)
           r == IF Tok(p) \in PropTokens THEN Peek(c) ELSE p
<1>0. Good(p) /\ ~p.scan_error
  BY PeekGood DEF Peek
<1>1. Good(c) /\ Held(c) /\ Good(r)
  BY <1>0, PeekGood, ConsumePropsGood
<1>2. r.node_return \in OtherStates /\ {"FLOW_SEQ_LOOP", "FLOW_MAP_LOOP"} \subseteq OtherStates
  BY <1>1, FieldTypes, ReturnStates DEF OtherStates, TokenStates, State, FlowStates
<1>3. {"SCALAR", "ALIAS", "SEQUENCE_START", "MAPPING_START"} \subseteq Stream!Event
  BY DEF Stream!Event
<1>8. CASE PropsFailed(c) /\ Tok(p) \in PropTokens
  BY <1>1, <1>8, HeldFine DEF FlowNode
<1>9. ~(PropsFailed(c) /\ Tok(p) \in PropTokens) => ~r.scan_error
  <2>1. c.have_token => ~c.scan_error
    BY <1>0, ConsumePropsGood
  <2> HIDE DEF p, c
  <2> QED BY <1>0, <2>1 DEF PropsFailed, Peek
<1> HIDE DEF p, c, r
<1>4. Fine(Goto(EmitScalarToken(r), r.node_return))
  BY <1>1, <1>2, EmitScalarTokenGood, GotoFine
<1>5. Fine(Goto(Emit(Consume(AttachProps(r)), "ALIAS"), r.node_return))
  BY <1>1, <1>2, <1>3, AttachPropsGood, ConsumeGood, EmitGood, GotoFine
<1>6. Fine(Goto(Emit(AttachProps(r), "SCALAR"), r.node_return))
  BY <1>1, <1>2, <1>3, AttachPropsGood, EmitGood, GotoFine
<1>7. /\ ~r.scan_error => Fine(FlowOpen(r, "SEQUENCE_START", "FLOW_SEQ", "FLOW_SEQ_LOOP"))
      /\ ~r.scan_error => Fine(FlowOpen(r, "MAPPING_START", "FLOW_MAP", "FLOW_MAP_LOOP"))
  BY <1>1, <1>2, <1>3, FlowOpenGood DEF FlowContext
<1> QED BY <1>1, <1>4, <1>5, <1>6, <1>7, <1>8, <1>9 DEF FlowNode, FlowNodeAfterProps, p, c, r

\* ST_FLOW_MAP_LOOP.
LEMMA FlowMapLoopGood ==
  ASSUME NEW q, Good(q)
  PROVE  Fine(FlowMapLoop(q))
<1> DEFINE r == Peek(q)
           k == Peek(Goto(EmitScalarToken(r), "FLOW_MAP_VALUE"))
<1>1. Good(r) /\ Held(r)
  BY PeekGood
<1>2. /\ {"FLOW_MAP_END", "FLOW_MAP_VALUE"} \subseteq OtherStates
      /\ {"FLOW_NODE", "FLOW_MAP_VALUE"} \subseteq State
      /\ "FLOW_MAP_VALUE" \in ReturnState
  BY DEF OtherStates, TokenStates, State, FlowStates, ReturnState
<1> HIDE DEF r
<1>3. Good(k) /\ Held(k)
  BY <1>1, <1>2, EmitScalarTokenGood, GotoGood, PeekGood
<1> HIDE DEF k
<1>4. Fine(FlowScalarKey(r))
  BY <1>3, HeldFine, ConsumeGood, FlowMapValueNodeGood DEF FlowScalarKey, k
<1>5. Fine(PairNode(Consume(r), {"BLOCK_MAP_VALUE", "FLOW_ENTRY", "FLOW_MAP_END"},
                    "FLOW_MAP_VALUE"))
  BY <1>1, <1>2, ConsumeGood, PairNodeGood
<1>6. Fine(ParseError(r))
  BY <1>1, ParseErrorGood, HeldFine
<1> QED BY <1>1, <1>2, <1>4, <1>5, <1>6, GotoFine, GotoNodeFine
        DEF FlowMapLoop, r

\* ST_FLOW_MAP_VALUE.
LEMMA FlowMapValueGood ==
  ASSUME NEW q, Good(q)
  PROVE  Fine(FlowMapValue(q))
<1>1. "FLOW_MAP_SEP" \in OtherStates /\ "SCALAR" \in Stream!Event
  BY DEF OtherStates, TokenStates, State, FlowStates, Stream!Event
<1> QED BY <1>1, PeekGood, ConsumeGood, FlowMapValueNodeGood, EmitGood, GotoFine
        DEF FlowMapValue

\* ST_FLOW_MAP_SEP and ST_FLOW_SEQ_SEP.
LEMMA FlowSepStateGood ==
  ASSUME NEW q, Good(q)
  PROVE  Fine(FlowMapSep(q)) /\ Fine(FlowSeqSep(q))
<1>1. {"FLOW_MAP_LOOP", "FLOW_SEQ_LOOP"} \subseteq OtherStates
  BY DEF OtherStates, TokenStates, State, FlowStates
<1>2. Fine(ParseError(Peek(q)))
  BY PeekGood, ParseErrorGood, HeldFine
<1> QED BY <1>1, <1>2, PeekGood, ConsumeGood, GotoFine DEF FlowMapSep, FlowSeqSep

\* ST_FLOW_MAP_END and ST_FLOW_SEQ_END.
LEMMA FlowEndGood ==
  ASSUME NEW q, Good(q)
  PROVE  Fine(FlowMapEnd(q)) /\ Fine(FlowSeqEnd(q))
<1>1. ASSUME NEW e \in Stream!Event PROVE Fine(FlowEnd(q, e))
  BY ConsumeGood, EmitGood, PopFrameGood, FlowSepGood DEF FlowEnd, Fine
<1>2. {"MAPPING_END", "SEQUENCE_END"} \subseteq Stream!Event
  BY DEF Stream!Event
<1> QED BY <1>1, <1>2 DEF FlowMapEnd, FlowSeqEnd

\* ST_FLOW_SEQ_ENTRY.
LEMMA FlowSeqEntryGood ==
  ASSUME NEW q, Good(q)
  PROVE  Fine(FlowSeqEntry(q))
<1> DEFINE e == IF Tok(q) = "SCALAR" THEN "SCALAR" ELSE "ALIAS"
           r == Peek(Consume(AttachProps(Peek(q))))
           k == [r EXCEPT !.saved_node = e]
<1>1. Good(r)
  BY PeekGood, AttachPropsGood, ConsumeGood
<1>2. e \in Stream!Leaf /\ e \in Stream!Event /\ "FLOW_SEQ_ENTRY_KEY" \in OtherStates
  BY DEF Stream!Leaf, Stream!Event, OtherStates, TokenStates, State, FlowStates
<1>3. FlowSeqEntry(q) = IF Tok(r) = "BLOCK_MAP_VALUE"
                        THEN Goto(k, "FLOW_SEQ_ENTRY_KEY") ELSE FlowSep(Emit(r, e), TRUE)
  BY DEF FlowSeqEntry
<1> HIDE DEF e, r
<1>4. k \in ParserRecord
  BY <1>1, <1>2 DEF Good, ParserRecord
<1>5. Bounds(k)
  BY <1>1 DEF Good, ParserRecord, Bounds
<1>6. Good(k)
  BY <1>4, <1>5 DEF Good
<1> HIDE DEF k
<1> QED BY <1>1, <1>2, <1>3, <1>6, GotoFine, EmitGood, FlowSepGood

\* Properties in a flow sequence.
LEMMA FlowSeqPropsGood ==
  ASSUME NEW q, Good(q)
  PROVE  Fine(FlowSeqProps(q))
<1>1. "SCALAR" \in Stream!Event
  BY DEF Stream!Event
<1> DEFINE r == ConsumeProps(q)
<1>2. Good(r) /\ Held(r)
  BY ConsumePropsGood
<1> HIDE DEF r
<1>3. Fine(r) /\ Fine(ParseError(r))
  BY <1>2, ParseErrorGood, HeldFine
<1>4. Fine(FlowSep(Emit(AttachProps(r), "SCALAR"), TRUE))
  BY <1>1, <1>2, AttachPropsGood, EmitGood, FlowSepGood
<1> QED BY <1>3, <1>4 DEF FlowSeqProps, r

\* ST_FLOW_SEQ_LOOP.
LEMMA FlowSeqLoopGood ==
  ASSUME NEW q, Good(q)
  PROVE  Fine(FlowSeqLoop(q))
<1> DEFINE r == Peek(q)
           ahead == LookAhead(r, r.current.pos)
           m == Consume(Emit(Emit(AttachProps(r), "MAPPING_START"), "SCALAR"))
<1>1. Good(r) /\ Held(r)
  BY PeekGood
<1>2. Good(ahead) /\ Held(ahead)
  BY <1>1, LookAheadGood
<1>3. {"SCALAR", "MAPPING_START"} \subseteq Stream!Event
  BY DEF Stream!Event
<1>4. /\ {"FLOW_SEQ_END", "FLOW_SEQ_EXPLICIT_KEY", "FLOW_SEQ_ENTRY", "EAGER_DRAIN"}
           \subseteq OtherStates
      /\ {"FLOW_SEQ_ENTRY", "FLOW_NODE"} \subseteq State
      /\ {"FLOW_SEQ_SEP", "FLOW_SEQ_IMPLICIT_END"} \subseteq ReturnState
  BY DEF OtherStates, TokenStates, State, FlowStates, ReturnState
<1> HIDE DEF r
<1>5. Good(m)
  BY <1>1, <1>3, AttachPropsGood, EmitGood, ConsumeGood
<1> HIDE DEF m, ahead
<1>6. Fine(PairNode(m, PairEnds, "FLOW_SEQ_IMPLICIT_END"))
  BY <1>4, <1>5, PairNodeGood
<1>7. Fine(FlowSeqEntry(Goto(r, "FLOW_SEQ_ENTRY")))
  BY <1>1, <1>4, GotoGood, FlowSeqEntryGood
<1>8. /\ Fine(Goto(ahead, "EAGER_DRAIN"))
      /\ Fine(GotoNode(ahead, "FLOW_NODE", "FLOW_SEQ_SEP"))
      /\ Fine(Goto(r, "FLOW_SEQ_END")) /\ Fine(Goto(r, "FLOW_SEQ_EXPLICIT_KEY"))
  BY <1>1, <1>2, <1>4, GotoFine, GotoNodeFine
<1>9. Fine(ParseError(r))
  BY <1>1, ParseErrorGood, HeldFine
<1> QED BY <1>1, <1>6, <1>7, <1>8, <1>9, FlowSeqPropsGood
        DEF FlowSeqLoop, r, m, ahead

\* The states of a pair in a flow sequence.
LEMMA FlowSeqPairGood ==
  ASSUME NEW q, Good(q)
  PROVE  /\ Fine(FlowSeqEntryKey(q)) /\ Fine(FlowSeqPairEnd(q))
         /\ Fine(FlowSeqExplicitKey(q)) /\ Fine(FlowSeqExplicitValue(q))
<1>1. {"SCALAR", "MAPPING_START", "MAPPING_END"} \subseteq Stream!Event
  BY DEF Stream!Event
<1>2. q.saved_node \in Stream!Event
  BY FieldTypes DEF Stream!Leaf, Stream!Event
<1>3. /\ {"FLOW_SEQ_IMPLICIT_END", "FLOW_SEQ_SEP", "FLOW_SEQ_EXPLICIT_VALUE",
          "FLOW_SEQ_EXPLICIT_END"} \subseteq ReturnState
      /\ ReturnState \subseteq OtherStates
  BY ReturnStates DEF ReturnState
<1>4. Good(Consume(Emit(Emit(q, "MAPPING_START"), q.saved_node)))
  BY <1>1, <1>2, EmitGood, ConsumeGood
<1>5. Fine(FlowSeqEntryKey(q))
  BY <1>3, <1>4, PairNodeGood DEF FlowSeqEntryKey
<1>6. Fine(FlowSeqPairEnd(q))
  BY <1>1, <1>3, PeekGood, EmitGood, GotoFine DEF FlowSeqPairEnd
<1>7. Fine(FlowSeqExplicitKey(q))
  BY <1>1, <1>3, EmitGood, ConsumeGood, PairNodeGood DEF FlowSeqExplicitKey
<1>8. Fine(FlowSeqExplicitValue(q))
  BY <1>1, <1>3, PeekGood, ConsumeGood, PairNodeGood, EmitGood, GotoFine
     DEF FlowSeqExplicitValue
<1> QED BY <1>5, <1>6, <1>7, <1>8

-----------------------------------------------------------------------------
(***************************************************************************)
(* Documents and block collections.                                        *)
(***************************************************************************)

\* The states a step may end in without its token.
LEMMA BlockNames ==
  /\ {"STREAM_START", "STREAM_DOC_LOOP", "STREAM_END", "DOC_DIRECTIVES",
      "DOC_START_EXPLICIT", "DOC_START_IMPLICIT", "DOC_CONTENT", "DOC_END_EXPLICIT",
      "EAGER_DRAIN", "DONE"} \subseteq OtherStates
  /\ {"BLOCK_NODE", "BLOCK_NODE_SCALAR", "BLOCK_NODE_SCALAR_KEY", "BLOCK_NODE_ALIAS",
      "BLOCK_NODE_ALIAS_KEY", "BLOCK_NODE_EMPTY"} \subseteq OtherStates
  /\ {"BLOCK_MAP_LOOP", "BLOCK_MAP_EXPLICIT_KEY", "BLOCK_MAP_SIMPLE_KEY",
      "BLOCK_MAP_POST_KEY", "BLOCK_MAP_VALUE", "BLOCK_MAP_END", "BLOCK_SEQ_LOOP",
      "BLOCK_SEQ_ENTRY", "BLOCK_SEQ_END"} \subseteq OtherStates
BY DEF OtherStates, TokenStates, State, BlockStates, FlowStates

\* The states of a node, and those a block node returns to.
LEMMA NodeNames ==
  /\ {"BLOCK_NODE", "BLOCK_NODE_SCALAR", "BLOCK_NODE_SCALAR_KEY", "BLOCK_NODE_ALIAS",
      "BLOCK_NODE_ALIAS_KEY", "BLOCK_NODE_EMPTY", "BLOCK_NODE_SEQ",
      "BLOCK_NODE_EXPLICIT_KEY", "BLOCK_NODE_BARE_VALUE", "FLOW_NODE"} \subseteq State
  /\ {"DOC_END_EXPLICIT", "BLOCK_MAP_POST_KEY", "BLOCK_MAP_LOOP", "BLOCK_SEQ_LOOP"}
       \subseteq ReturnState
BY DEF State, BlockStates, FlowStates, ReturnState

\* The events.
LEMMA EventNames ==
  {"STREAM_START", "STREAM_END", "DOC_START", "DOC_END", "SEQUENCE_START", "SEQUENCE_END",
   "MAPPING_START", "MAPPING_END", "SCALAR", "ALIAS"} \subseteq Stream!Event
BY DEF Stream!Event

\* ST_STREAM_START, ST_STREAM_DOC_LOOP and ST_STREAM_END.
LEMMA StreamGood ==
  ASSUME NEW q, Good(q)
  PROVE  Fine(StreamStart(q)) /\ Fine(StreamDocLoop(q)) /\ Fine(StreamEnd(q))
<1>1. Fine(StreamStart(q))
  BY PeekGood, ConsumeGood, EmitGood, GotoFine, BlockNames, EventNames DEF StreamStart
<1>2. Fine(StreamDocLoop(q))
  BY PeekGood, GotoFine, BlockNames DEF StreamDocLoop
<1>3. Fine(StreamEnd(q))
  BY PeekGood, ConsumeGood, EmitGood, GotoFine, BlockNames, EventNames DEF StreamEnd
<1> QED BY <1>1, <1>2, <1>3

\* ST_DOC_DIRECTIVES.
LEMMA DocDirectivesGood ==
  ASSUME NEW q, Good(q)
  PROVE  Fine(DocDirectives(q))
<1> DEFINE r == TakeCheckpoint(Peek(q))
<1>1. Good(r)
  BY PeekGood, TakeCheckpointGood
<1> HIDE DEF r
<1> QED BY <1>1, ConsumeGood, GotoFine, BlockNames DEF DocDirectives, r

\* ST_DOC_START_EXPLICIT and ST_DOC_START_IMPLICIT.
LEMMA DocStartGood ==
  ASSUME NEW q, Good(q)
  PROVE  Fine(DocStartExplicit(q)) /\ Fine(DocStartImplicit(q))
<1>1. ASSUME NEW p, Good(p), NEW line \in Nat PROVE Fine(DocStart(p, line))
  <2> DEFINE e == Emit(p, "DOC_START")
             r == [e EXCEPT !.doc_start_line = line, !.doc_open = TRUE]
  <2>1. Good(e)
    BY <1>1, EmitGood, EventNames
  <2>2. DocStart(p, line) = Goto(r, "DOC_CONTENT")
    BY DEF DocStart
  <2> HIDE DEF e
  <2>3. r \in ParserRecord
    BY <1>1, <2>1 DEF Good, ParserRecord
  <2>4. Bounds(r)
    BY <2>1 DEF Good, ParserRecord, Bounds
  <2>5. Good(r)
    BY <2>3, <2>4 DEF Good
  <2> HIDE DEF r
  <2> QED BY <2>2, <2>5, GotoFine, BlockNames
<1>2. Good(Peek(q)) /\ Peek(q).current.line \in Nat
  BY PeekGood, FieldTypes
<1> QED BY <1>1, <1>2, ConsumeGood DEF DocStartExplicit, DocStartImplicit

\* The end of a document, however it is found.
LEMMA CloseGood ==
  ASSUME NEW q, Good(q)
  PROVE  Good([Emit(q, "DOC_END") EXCEPT !.doc_open = FALSE])
<1> DEFINE e == Emit(q, "DOC_END")
           r == [e EXCEPT !.doc_open = FALSE]
<1>1. Good(e)
  BY EmitGood, EventNames
<1> HIDE DEF e
<1>2. r \in ParserRecord
  BY <1>1 DEF Good, ParserRecord
<1>3. Bounds(r)
  BY <1>1 DEF Good, ParserRecord, Bounds
<1>4. Good(r)
  BY <1>2, <1>3 DEF Good
<1> QED BY <1>4 DEF e

\* ST_DOC_CONTENT.
LEMMA DocContentGood ==
  ASSUME NEW q, Good(q)
  PROVE  Fine(DocContent(q))
<1> DEFINE r == Peek(q)
<1>1. Good(r) /\ Held(r)
  BY PeekGood
<1> HIDE DEF r
<1>2. Good(Emit(r, "SCALAR"))
  BY <1>1, EmitGood, EventNames
<1>3. Fine(EmptyDocument(r, "STREAM_DOC_LOOP")) /\ Fine(EmptyDocument(r, "STREAM_END"))
  BY <1>2, CloseGood, GotoFine, BlockNames DEF EmptyDocument
<1> QED BY <1>1, <1>2, <1>3, GotoFine, GotoNodeFine, BlockNames, NodeNames
        DEF DocContent, r

\* inc_end_document.
LEMMA EndDocumentGood ==
  ASSUME NEW q, Good(q)
  PROVE  Fine(EndDocument(q))
<1> DEFINE p == Peek(q)
           r == IF Tok(p) = "DOC_END" THEN Consume(p) ELSE p
<1>1. Good(p) /\ Held(p) /\ Good(r)
  BY PeekGood, ConsumeGood
<1> HIDE DEF p, r
<1>2. Fine(Goto([Emit(r, "DOC_END") EXCEPT !.doc_open = FALSE], "STREAM_DOC_LOOP"))
  BY <1>1, CloseGood, GotoFine, BlockNames
<1>3. Fine(p) /\ Fine(ParseError(p))
  BY <1>1, ParseErrorGood, HeldFine
<1> QED BY <1>2, <1>3 DEF EndDocument, p, r

\* ST_BLOCK_NODE.
LEMMA BlockNodeGood ==
  ASSUME NEW q, Good(q)
  PROVE  Fine(BlockNode(q))
<1> DEFINE r == Peek(q)
           ahead == LookAhead(r, r.current.pos)
<1>1. Good(r) /\ Held(r)
  BY PeekGood
<1> HIDE DEF r
<1>2. Good(ahead) /\ Held(ahead)
  BY <1>1, LookAheadGood
<1> HIDE DEF ahead
<1>3. Fine(BlockNodeFlow(r))
  BY <1>1, <1>2, GotoHeld, GotoFine, BlockNames, NodeNames DEF BlockNodeFlow, ahead
<1>4. Fine(ParseError(r))
  BY <1>1, ParseErrorGood, HeldFine
<1> QED BY <1>1, <1>3, <1>4, GotoHeld, GotoFine, BlockNames, NodeNames DEF BlockNode, r

\* ST_BLOCK_NODE_SCALAR and ST_BLOCK_NODE_ALIAS.
LEMMA BlockNodeLeafGood ==
  ASSUME NEW q, Good(q)
  PROVE  Fine(BlockNodeScalar(q)) /\ Fine(BlockNodeAlias(q))
<1>1. ASSUME NEW e \in Stream!Leaf, NEW key_state \in OtherStates
      PROVE  Fine(BlockNodeLeaf(q, e, key_state))
  <2> DEFINE p == Peek(q)
             r == Peek(Consume(p))
             k == [r EXCEPT !.saved_node = e, !.saved_node_col = Col(p)]
  <2>1. Good(p) /\ Good(r) /\ Col(p) \in Nat /\ r.node_return \in OtherStates
    BY PeekGood, ConsumeGood, FieldTypes, ReturnStates
  <2>2. BlockNodeLeaf(q, e, key_state) \in {Goto(k, key_state), Goto(Emit(r, e), r.node_return)}
    BY DEF BlockNodeLeaf
  <2> HIDE DEF p, r
  <2>3. k \in ParserRecord
    BY <2>1 DEF Good, ParserRecord
  <2>4. Bounds(k)
    BY <2>1 DEF Good, ParserRecord, Bounds
  <2>5. Good(k)
    BY <2>3, <2>4 DEF Good
  <2>6. e \in Stream!Event
    BY DEF Stream!Leaf, Stream!Event
  <2> HIDE DEF k
  <2> QED BY <2>1, <2>2, <2>5, <2>6, GotoFine, EmitGood
<1>2. {"SCALAR", "ALIAS"} \subseteq Stream!Leaf
  BY DEF Stream!Leaf
<1> QED BY <1>1, <1>2, BlockNames DEF BlockNodeScalar, BlockNodeAlias

\* ST_BLOCK_NODE_SCALAR_KEY and ST_BLOCK_NODE_ALIAS_KEY.
LEMMA BlockNodeKeyGood ==
  ASSUME NEW q, Good(q), ~q.scan_error
  PROVE  Fine(BlockNodeKey(q))
<1> DEFINE r == Emit(q, "MAPPING_START")
<1>1. /\ q.saved_node \in Stream!Event /\ q.saved_node_col \in Nat
      /\ q.node_return \in ReturnState
  BY FieldTypes DEF Stream!Leaf, Stream!Event
<1>2. Good(r) /\ ~r.scan_error
  BY EmitGood, EmitScanError, EventNames
<1> HIDE DEF r
<1>3. Good(Emit(r, q.saved_node)) /\ ~Emit(r, q.saved_node).scan_error
  BY <1>1, <1>2, EmitGood, EmitScanError
<1>4. "BLOCK_MAP" \in BlockContext \cup FlowContext
  BY DEF BlockContext
<1> QED BY <1>1, <1>3, <1>4, PushFrameGood, GotoFine, BlockNames DEF BlockNodeKey, r

\* The states that open a block collection at an indicator, entered with it.
LEMMA BlockOpenGood ==
  ASSUME NEW q, Good(q), ~q.scan_error, q.have_token
  PROVE  /\ Fine(BlockNodeSeq(q)) /\ Fine(BlockNodeExplicitKey(q))
         /\ Fine(BlockNodeBareValue(q))
<1>1. ASSUME NEW e \in Stream!Event, NEW context \in BlockContext
      PROVE  Good(BlockOpen(q, e, context))
  <2>1. Peek(q) = q
    BY DEF Peek
  <2>2. Good(Emit(q, e)) /\ ~Emit(q, e).scan_error
    BY EmitGood, EmitScanError
  <2>3. Col(q) \in Nat /\ q.node_return \in ReturnState
    BY FieldTypes
  <2> QED BY <2>1, <2>2, <2>3, PushFrameGood DEF BlockOpen
<1>2. /\ Good(BlockOpen(q, "SEQUENCE_START", "BLOCK_SEQ"))
      /\ Good(BlockOpen(q, "MAPPING_START", "BLOCK_MAP"))
  BY <1>1, EventNames DEF BlockContext
<1>3. Fine(BlockNodeSeq(q)) /\ Fine(BlockNodeExplicitKey(q))
  BY <1>2, GotoFine, BlockNames DEF BlockNodeSeq, BlockNodeExplicitKey
<1>4. Fine(BlockNodeBareValue(q))
  BY <1>2, EmitGood, GotoFine, BlockNames, EventNames DEF BlockNodeBareValue
<1> QED BY <1>3, <1>4

\* ST_BLOCK_MAP_LOOP.
LEMMA BlockMapLoopGood ==
  ASSUME NEW q, Good(q)
  PROVE  Fine(BlockMapLoop(q))
<1> DEFINE r == Peek(q)
<1>1. Good(r) /\ Good(Emit(r, "SCALAR"))
  BY PeekGood, EmitGood, EventNames
<1> HIDE DEF r
<1> QED BY <1>1, GotoFine, BlockNames DEF BlockMapLoop, r

\* ST_BLOCK_MAP_EXPLICIT_KEY and ST_BLOCK_MAP_SIMPLE_KEY.
LEMMA BlockMapKeyGood ==
  ASSUME NEW q, Good(q)
  PROVE  Fine(BlockMapExplicitKey(q)) /\ Fine(BlockMapSimpleKey(q))
<1> DEFINE p == Peek(q)
           r == Peek(Consume(p))
<1>1. Good(p) /\ Good(r) /\ Held(r)
  BY PeekGood, ConsumeGood
<1> HIDE DEF p, r
<1>2. Good(Emit(r, "SCALAR"))
  BY <1>1, EmitGood, EventNames
<1>3. Tok(p) \in {"SCALAR", "ALIAS"} => Good(Emit(r, Tok(p)))
  BY <1>1, EmitGood, EventNames
<1>4. Fine(BlockMapExplicitKey(q))
  BY <1>1, <1>2, GotoFine, GotoNodeFine, BlockNames, NodeNames DEF BlockMapExplicitKey, p, r
<1>5. Fine(BlockMapSimpleKey(q))
  <2>1. /\ Fine(Goto(p, "EAGER_DRAIN")) /\ Fine(Goto(r, "EAGER_DRAIN"))
        /\ Tok(p) \in {"SCALAR", "ALIAS"} => Fine(Goto(Emit(r, Tok(p)), "BLOCK_MAP_VALUE"))
    BY <1>1, <1>3, GotoFine, BlockNames
  <2> QED BY <2>1 DEF BlockMapSimpleKey, p, r
<1> QED BY <1>4, <1>5

\* ST_BLOCK_MAP_POST_KEY.
LEMMA BlockMapPostKeyGood ==
  ASSUME NEW q, Good(q)
  PROVE  Fine(BlockMapPostKey(q))
<1> DEFINE r == Peek(q)
<1>1. Good(r) /\ Held(r) /\ Good(Emit(r, "SCALAR"))
  BY PeekGood, EmitGood, EventNames
<1> HIDE DEF r
<1>2. Fine(ParseError(r))
  BY <1>1, ParseErrorGood, HeldFine
<1> QED BY <1>1, <1>2, GotoFine, BlockNames DEF BlockMapPostKey, r

\* ST_BLOCK_MAP_VALUE.
LEMMA BlockMapValueGood ==
  ASSUME NEW q, Good(q)
  PROVE  Fine(BlockMapValue(q))
<1> DEFINE p == Peek(q)
           r == Peek(Consume(p))
           v == [r EXCEPT !.value_colon_line = p.current.line,
                          !.value_colon_starts_line = p.current.first]
<1>1. /\ Good(p) /\ Good(r) /\ Held(r)
      /\ p.current.line \in Nat /\ p.current.first \in BOOLEAN
  BY PeekGood, ConsumeGood, FieldTypes
<1>2. BlockMapValue(q) =
        IF Tok(p) # "BLOCK_MAP_VALUE" THEN Goto(Emit(p, "SCALAR"), "BLOCK_MAP_LOOP")
        ELSE IF NoNodeHere(v) THEN Goto(Emit(v, "SCALAR"), "BLOCK_MAP_LOOP")
        ELSE GotoNode(v, "BLOCK_NODE", "BLOCK_MAP_LOOP")
  BY DEF BlockMapValue
<1> HIDE DEF p, r
<1>3. v \in ParserRecord
  BY <1>1 DEF Good, ParserRecord
<1>4. Bounds(v) /\ Held(v)
  BY <1>1 DEF Good, ParserRecord, Bounds, Held
<1>5. Good(v)
  BY <1>3, <1>4 DEF Good
<1> HIDE DEF v
<1>6. Good(Emit(p, "SCALAR")) /\ Good(Emit(v, "SCALAR"))
  BY <1>1, <1>5, EmitGood, EventNames
<1> QED BY <1>2, <1>4, <1>5, <1>6, GotoFine, GotoNodeFine, BlockNames, NodeNames

\* ST_BLOCK_MAP_END and ST_BLOCK_SEQ_END.
LEMMA BlockEndGood ==
  ASSUME NEW q, Good(q)
  PROVE  Fine(BlockMapEnd(q)) /\ Fine(BlockSeqEnd(q))
<1>1. ASSUME NEW e \in Stream!Event PROVE Fine(BlockEnd(q, e))
  <2> DEFINE r == Emit(Peek(PopFrame(q)), e)
  <2>1. Good(r) /\ r.state \notin TokenStates
    <3>1. Good(PopFrame(q)) /\ PopFrame(q).state \notin TokenStates
      BY PopFrameGood
    <3>2. Good(Peek(PopFrame(q))) /\ Peek(PopFrame(q)).state = PopFrame(q).state
      BY <3>1, PeekGood, PeekState
    <3> QED BY <3>1, <3>2, EmitGood, EmitState
  <2> HIDE DEF r
  <2> QED BY <2>1, EndDocumentGood DEF BlockEnd, r, Fine
<1> QED BY <1>1, EventNames DEF BlockMapEnd, BlockSeqEnd

\* ST_BLOCK_SEQ_LOOP and ST_BLOCK_SEQ_ENTRY.
LEMMA BlockSeqGood ==
  ASSUME NEW q, Good(q)
  PROVE  Fine(BlockSeqLoop(q)) /\ Fine(BlockSeqEntry(q))
<1>1. Fine(BlockSeqLoop(q))
  BY PeekGood, GotoFine, BlockNames DEF BlockSeqLoop
<1> DEFINE r == Peek(Consume(Peek(q)))
<1>2. Good(r) /\ Held(r) /\ Good(Emit(r, "SCALAR"))
  BY PeekGood, ConsumeGood, EmitGood, EventNames
<1> HIDE DEF r
<1>3. Fine(BlockSeqEntry(q))
  BY <1>2, GotoFine, GotoNodeFine, BlockNames, NodeNames DEF BlockSeqEntry, r
<1> QED BY <1>1, <1>3

-----------------------------------------------------------------------------
(***************************************************************************)
(* The text the lookahead cache was read from.                             *)
(***************************************************************************)

\* An unterminated quote is the last lexeme there is.
QuoteEnds(x, last) ==
  \A i \in 1..Len(x) : x[i].kind = "OPENQUOTE" => i = Len(x) /\ last = "OPENQUOTE"

\* The cache is what a lookahead found in the first m lexemes after the bracket
\* at lo, and the scanner has read k of the text x that follows the bracket.
ReadFrom(q, x, lo, m, k) ==
  /\ q.fk = FkScan([buf |-> SubSeq(x, 1, m)], lo)
  /\ Settled(x, m, q.scanner.text_ended)
  /\ QuoteEnds(x, q.scanner.last)
  /\ q.scanner.pos = lo + k + 1
  /\ q.scanner.buf = SubSeq(x, k + 1, Len(x))
  /\ q.have_token /\ Tok(q) \in FlowStarts => KindAt(x, k) \in Openers

CacheKnown(q) ==
  q.fk.valid =>
    \E x \in Seq(Lexeme), lo \in Nat :
      \E m \in 0..Len(x), k \in 0..Len(x) : ReadFrom(q, x, lo, m, k)

\* The scanner has just read an opening bracket that is the token.
BracketRead(q) ==
  q.have_token /\ Tok(q) \in FlowStarts => q.scanner.pos = q.current.pos + 1

\* The fields the cache depends on, the count of the events delivered and the checkpoint.
CacheFields ==
  {"scanner", "current", "have_token", "fk", "scan_error", "starved", "events_delivered",
   "incremental", "ckpt"}

\* The checkpoint is the one the step found, or was taken in it, between two documents.
Marked(q, was) ==
  \/ q.ckpt = was.ckpt
  \/ was.state = "DOC_DIRECTIVES" /\ q.ckpt.set /\ q.ckpt.delivered = q.events_delivered

\* The record, at any point of the step that began with the record "was",
\* remembers where its cache is from; nothing is delivered in a step, no
\* more of the text gets known, and a checkpoint is taken between documents only.
Recalls(q, was) ==
  /\ CacheFields \subseteq DOMAIN q
  /\ q.scanner \in ScannerState /\ q.current \in Token
  /\ q.scanner.text_ended = was.scanner.text_ended
  /\ q.events_delivered = was.events_delivered /\ q.incremental = was.incremental
  /\ q.starved => ~was.scanner.text_ended
  /\ Marked(q, was)
  /\ ~q.scan_error /\ ~q.starved =>
       QuoteEnds(q.scanner.buf, q.scanner.last) /\ BracketRead(q) /\ CacheKnown(q)

\* What the cache depends on has not changed; the token may be gone.
SameText(r, q) ==
  /\ DOMAIN r = DOMAIN q
  /\ r.scanner = q.scanner /\ r.current = q.current /\ r.fk = q.fk
  /\ r.scan_error = q.scan_error /\ r.starved = q.starved
  /\ r.have_token => q.have_token

SameCache(r, q) ==
  /\ SameText(r, q)
  /\ r.events_delivered = q.events_delivered /\ r.incremental = q.incremental
  /\ r.ckpt = q.ckpt

\* Then the record still remembers, whatever it is counted from.
LEMMA TextRecalls ==
  ASSUME NEW q, NEW was, Recalls(q, was), NEW r, SameText(r, q),
         NEW now, now.scanner.text_ended = was.scanner.text_ended,
         r.events_delivered = now.events_delivered /\ r.incremental = now.incremental,
         Marked(r, now)
  PROVE  Recalls(r, now)
<1>1. BracketRead(q) => BracketRead(r)
  BY DEF BracketRead, SameText, Tok
<1>2. CacheKnown(q) => CacheKnown(r)
  <2>1. ASSUME NEW x, NEW lo, NEW m, NEW k, ReadFrom(q, x, lo, m, k)
        PROVE  ReadFrom(r, x, lo, m, k)
    BY <2>1 DEF ReadFrom, SameText, Tok
  <2>2. r.fk.valid => q.fk.valid
    BY DEF SameText
  <2> QED BY <2>1, <2>2 DEF CacheKnown
<1> QED BY <1>1, <1>2 DEF Recalls, SameText

\* In particular, some way further into the step.
LEMMA SameRecalls ==
  ASSUME NEW q, NEW was, Recalls(q, was), NEW r, SameCache(r, q)
  PROVE  Recalls(r, was)
<1>1. r.events_delivered = was.events_delivered /\ r.incremental = was.incremental
  BY DEF Recalls, SameCache
<1>2. Marked(r, was)
  BY DEF Recalls, SameCache, Marked
<1>3. r.scanner.text_ended = was.scanner.text_ended /\ SameText(r, q)
  BY DEF Recalls, SameCache, SameText
<1>4. was.scanner.text_ended = was.scanner.text_ended
  OBVIOUS
<1> QED BY <1>1, <1>2, <1>3, <1>4, TextRecalls

\* A text's rest.
LEMMA RestTail ==
  ASSUME NEW x \in Seq(Lexeme), NEW k \in 0..Len(x), SubSeq(x, k + 1, Len(x)) # <<>>
  PROVE  /\ k + 1 \in 0..Len(x)
         /\ Tail(SubSeq(x, k + 1, Len(x))) = SubSeq(x, (k + 1) + 1, Len(x))
         /\ Head(SubSeq(x, k + 1, Len(x))) = x[k + 1]
<1> DEFINE n == Len(x)
           u == SubSeq(x, k + 1, n)
           v == SubSeq(x, (k + 1) + 1, n)
<1>1. n \in Nat /\ k \in Nat /\ k <= n
  OBVIOUS
<1>2. u \in Seq(Lexeme) /\ Len(u) = n - k /\ \A j \in 1..(n - k) : u[j] = x[k + j]
  BY <1>1, SubText
<1>3. k + 1 <= n
  BY <1>1, <1>2
<1>4. v \in Seq(Lexeme) /\ Len(v) = n - (k + 1) /\ \A j \in 1..(n - (k + 1)) : v[j] = x[(k + 1) + j]
  BY <1>1, <1>3, SubText
<1> HIDE DEF n, u, v
<1>5. Tail(u) \in Seq(Lexeme) /\ Len(Tail(u)) = Len(v)
      /\ \A j \in 1..Len(v) : Tail(u)[j] = u[j + 1]
  BY <1>1, <1>2, <1>3, <1>4
<1>6. ASSUME NEW j \in 1..Len(v) PROVE Tail(u)[j] = v[j]
  <2>1. j + 1 \in 1..(n - k) /\ k + (j + 1) = (k + 1) + j /\ j \in 1..(n - (k + 1))
    BY <1>1, <1>3, <1>4
  <2> QED BY <1>2, <1>4, <1>5, <2>1
<1>7. Tail(u) = v
  BY <1>4, <1>5, <1>6, SeqEqual
<1>8. Head(u) = x[k + 1]
  <2>1. 1 \in 1..(n - k)
    BY <1>1, <1>3
  <2> QED BY <1>2, <2>1
<1> QED BY <1>1, <1>3, <1>7, <1>8 DEF n, u, v

\* A peek that gets a token reads on in the text.
LEMMA PeekRecalls ==
  ASSUME NEW q, NEW was, Recalls(q, was)
  PROVE  /\ Recalls(Peek(q), was)
         /\ ~Peek(q).scan_error /\ ~Peek(q).starved => Peek(q).have_token
<1> DEFINE s == q.scanner
           c == Scan(s)
           r == Peek(q)
<1>1. CASE q.have_token
  BY <1>1 DEF Peek
<1>2. CASE ~q.have_token
  <2>1. /\ c.s \in ScannerState /\ c.tok \in Token /\ c.res \in {"OK", "ERROR", "STARVED"}
        /\ MovesOn(s, c)
    BY ScanType, ScanMovesOn DEF Recalls, ScanResult
  <2>2. r = Peeked(q, c)
    BY <1>2 DEF Peek
  <2>3. CacheFields \subseteq DOMAIN q /\ q.scanner \in ScannerState /\ q.current \in Token
        /\ s.text_ended = was.scanner.text_ended /\ (q.starved => ~was.scanner.text_ended)
        /\ q.events_delivered = was.events_delivered /\ q.incremental = was.incremental
        /\ Marked(q, was)
    BY DEF Recalls
  <2> HIDE DEF c, r
  <2>4. CASE c.res = "ERROR"
    <3>1. /\ DOMAIN r = DOMAIN q /\ r.scanner = c.s /\ r.scan_error = TRUE
          /\ r.events_delivered = q.events_delivered /\ r.incremental = q.incremental
          /\ r.current = q.current /\ r.starved = q.starved /\ r.ckpt = q.ckpt
      BY <2>2, <2>3, <2>4 DEF Peeked, CacheFields
    <3>2. c.s.text_ended = was.scanner.text_ended
      BY <2>1, <2>3 DEF MovesOn
    <3> HIDE DEF s
    <3>3. Marked(r, was)
      BY <2>3, <3>1 DEF Marked
    <3> QED BY <2>1, <2>3, <3>1, <3>2, <3>3 DEF Recalls, r
  <2>5. CASE c.res = "STARVED"
    <3>1. /\ DOMAIN r = DOMAIN q /\ r.scanner = q.scanner /\ r.starved = TRUE
          /\ r.current = q.current /\ r.ckpt = q.ckpt
          /\ r.events_delivered = q.events_delivered /\ r.incremental = q.incremental
      BY <2>2, <2>3, <2>5 DEF Peeked, CacheFields
    <3>2. ~was.scanner.text_ended
      BY <2>1, <2>3, <2>5 DEF MovesOn
    <3>3. Marked(r, was)
      BY <2>3, <3>1 DEF Marked
    <3> QED BY <2>3, <3>1, <3>2, <3>3 DEF Recalls, r
  <2>6. CASE c.res = "OK"
    <3>1. /\ DOMAIN r = DOMAIN q /\ r.scanner = c.s /\ r.current = c.tok
          /\ r.have_token = TRUE /\ r.fk = q.fk /\ r.ckpt = q.ckpt
          /\ r.scan_error = q.scan_error /\ r.starved = q.starved
          /\ r.events_delivered = q.events_delivered /\ r.incremental = q.incremental
      BY <2>2, <2>3, <2>6 DEF Peeked, CacheFields
    <3>2. c.s.text_ended = was.scanner.text_ended /\ c.s.last = s.last
      BY <2>1, <2>3 DEF MovesOn
    <3>3. ASSUME ~r.scan_error, ~r.starved
          PROVE  QuoteEnds(r.scanner.buf, r.scanner.last) /\ BracketRead(r) /\ CacheKnown(r)
      <4>1. QuoteEnds(s.buf, s.last) /\ CacheKnown(q)
        BY <3>1, <3>3 DEF Recalls
      <4>2. s.buf \in Seq(Lexeme) /\ s.pos \in Nat /\ c.s.buf \in Seq(Lexeme)
        BY <2>1, <2>3 DEF ScannerState
      <4>3. CASE c.s.buf = s.buf /\ c.s.pos = s.pos /\ c.tok.type \notin Opening
        <5>1. Tok(r) \notin FlowStarts
          BY <3>1, <4>3 DEF Tok, Opening, FlowStarts
        <5>2. CacheKnown(r)
          <6>1. ASSUME NEW x, NEW lo, NEW m, NEW k, ReadFrom(q, x, lo, m, k)
                PROVE  ReadFrom(r, x, lo, m, k)
            BY <2>3, <3>1, <3>2, <4>3, <5>1, <6>1 DEF ReadFrom
          <6>2. r.fk.valid => q.fk.valid
            BY <3>1
          <6> QED BY <4>1, <6>1, <6>2 DEF CacheKnown
        <5> QED BY <3>1, <3>2, <4>1, <4>3, <5>1, <5>2 DEF BracketRead
      <4>4. CASE /\ s.buf # <<>> /\ c.s.buf = Tail(s.buf) /\ c.s.pos = s.pos + 1
                 /\ c.tok.type \in Opening => Head(s.buf).kind \in Openers /\ c.tok.pos = s.pos
        <5>1. BracketRead(r)
          BY <3>1, <4>4 DEF BracketRead, Tok, Opening, FlowStarts
        <5>2. QuoteEnds(r.scanner.buf, r.scanner.last)
          <6> SUFFICES ASSUME NEW i \in 1..Len(Tail(s.buf)), Tail(s.buf)[i].kind = "OPENQUOTE"
                       PROVE  i = Len(Tail(s.buf)) /\ s.last = "OPENQUOTE"
            BY <3>1, <3>2, <4>4 DEF QuoteEnds
          <6>1. Len(Tail(s.buf)) = Len(s.buf) - 1 /\ Tail(s.buf)[i] = s.buf[i + 1]
            BY <4>2, <4>4
          <6>2. i + 1 \in 1..Len(s.buf)
            BY <4>2, <4>4, <6>1
          <6>3. i + 1 = Len(s.buf) /\ s.last = "OPENQUOTE"
            BY <4>1, <6>1, <6>2 DEF QuoteEnds
          <6> QED BY <4>2, <6>1, <6>3
        <5>3. CacheKnown(r)
          <6> SUFFICES ASSUME r.fk.valid
                       PROVE  \E x \in Seq(Lexeme), lo \in Nat :
                                \E m \in 0..Len(x), k \in 0..Len(x) : ReadFrom(r, x, lo, m, k)
            BY DEF CacheKnown
          <6>1. PICK x \in Seq(Lexeme), lo \in Nat :
                  \E m \in 0..Len(x), k \in 0..Len(x) : ReadFrom(q, x, lo, m, k)
            BY <3>1, <4>1 DEF CacheKnown
          <6>2. PICK m \in 0..Len(x), k \in 0..Len(x) : ReadFrom(q, x, lo, m, k)
            BY <6>1
          <6>3. s.buf = SubSeq(x, k + 1, Len(x)) /\ s.pos = lo + k + 1
            BY <6>2 DEF ReadFrom
          <6>4. /\ k + 1 \in 0..Len(x)
                /\ Tail(s.buf) = SubSeq(x, (k + 1) + 1, Len(x))
                /\ Head(s.buf) = x[k + 1]
            BY <4>4, <6>3, RestTail
          <6>5. c.s.pos = lo + (k + 1) + 1
            BY <4>4, <6>3
          <6>6. c.tok.type \in Opening => KindAt(x, k + 1) \in Openers
            BY <4>4, <6>4 DEF KindAt
          <6>7. ReadFrom(r, x, lo, m, k + 1)
            <7>1. r.fk = FkScan([buf |-> SubSeq(x, 1, m)], lo)
              BY <3>1, <6>2 DEF ReadFrom
            <7>2. Settled(x, m, r.scanner.text_ended) /\ QuoteEnds(x, r.scanner.last)
              BY <2>3, <3>1, <3>2, <6>2 DEF ReadFrom
            <7>3. r.scanner.pos = lo + (k + 1) + 1 /\ r.scanner.buf = SubSeq(x, (k + 1) + 1, Len(x))
              BY <3>1, <4>4, <6>4, <6>5
            <7>4. Tok(r) \in FlowStarts => KindAt(x, k + 1) \in Openers
              BY <3>1, <6>6 DEF Tok, Opening, FlowStarts
            <7> QED BY <7>1, <7>2, <7>3, <7>4 DEF ReadFrom
          <6> QED BY <6>4, <6>7
        <5> QED BY <5>1, <5>2, <5>3
      <4> QED BY <2>1, <2>6, <4>3, <4>4 DEF MovesOn
    <3>4. Marked(r, was)
      BY <2>3, <3>1 DEF Marked
    <3>5. Recalls(r, was)
      BY <2>1, <2>3, <3>1, <3>2, <3>3, <3>4 DEF Recalls
    <3> QED BY <3>1, <3>5 DEF r
  <2> QED BY <2>1, <2>4, <2>5, <2>6
<1> QED BY <1>1, <1>2

\* A new lookahead reads the text ahead.
LEMMA LookAheadRecalls ==
  ASSUME NEW q, NEW was, Recalls(q, was), Tok(q) \in FlowStarts,
         ~q.scan_error /\ ~q.starved => q.have_token
  PROVE  /\ Recalls(LookAhead(q, q.current.pos), was)
         /\ Tok(LookAhead(q, q.current.pos)) = Tok(q)
<1> DEFINE s == q.scanner
           lo == q.current.pos
           c == FkScan(s, lo)
           r == [q EXCEPT !.starved = TRUE]
           t == [q EXCEPT !.fk = c]
<1>1. CacheFields \subseteq DOMAIN q /\ s \in ScannerState /\ q.current \in Token
      /\ s.text_ended = was.scanner.text_ended /\ (q.starved => ~was.scanner.text_ended)
      /\ q.events_delivered = was.events_delivered /\ q.incremental = was.incremental
      /\ Marked(q, was)
  BY DEF Recalls
<1>2. \/ LookAhead(q, lo) = q
      \/ LookAhead(q, lo) = r /\ FkUndecided(s)
      \/ LookAhead(q, lo) = t /\ ~FkUndecided(s)
  BY DEF LookAhead
<1>3. lo \in Nat /\ s.buf \in Seq(Lexeme)
  BY <1>1 DEF Token, ScannerState
<1>4. CASE LookAhead(q, lo) = q
  BY <1>4
<1>5. CASE LookAhead(q, lo) = r /\ FkUndecided(s)
  <2>1. /\ DOMAIN r = DOMAIN q /\ r.scanner = s /\ r.current = q.current /\ r.starved = TRUE
        /\ r.events_delivered = q.events_delivered /\ r.incremental = q.incremental
        /\ r.ckpt = q.ckpt
    BY <1>1 DEF CacheFields
  <2>2. ~was.scanner.text_ended
    BY <1>1, <1>5 DEF FkUndecided
  <2> HIDE DEF r
  <2>4. Marked(r, was)
    BY <1>1, <2>1 DEF Marked
  <2>3. Recalls(r, was)
    BY <1>1, <2>1, <2>2, <2>4 DEF Recalls
  <2> QED BY <1>5, <2>1, <2>3 DEF Tok
<1>6. CASE LookAhead(q, lo) = t /\ ~FkUndecided(s)
  <2>1. /\ DOMAIN t = DOMAIN q /\ t.scanner = s /\ t.current = q.current /\ t.fk = c
        /\ t.scan_error = q.scan_error /\ t.starved = q.starved /\ t.have_token = q.have_token
        /\ t.events_delivered = q.events_delivered /\ t.incremental = q.incremental
        /\ t.ckpt = q.ckpt
    BY <1>1 DEF CacheFields
  <2> HIDE DEF t, c
  <2>2. ASSUME ~t.scan_error, ~t.starved
        PROVE  QuoteEnds(t.scanner.buf, t.scanner.last) /\ BracketRead(t) /\ CacheKnown(t)
    <3>1. QuoteEnds(s.buf, s.last) /\ BracketRead(q) /\ q.have_token
      BY <2>1, <2>2 DEF Recalls
    <3>2. s.pos = lo + 1
      BY <3>1 DEF BracketRead
    <3> DEFINE x == s.buf
               n == Len(x)
    <3>3. n \in 0..n /\ 0 \in 0..n /\ SubSeq(x, 1, n) = x /\ SubSeq(x, 0 + 1, n) = x
      BY <1>3
    <3>4. ReadFrom(t, x, lo, n, 0)
      <4>1. FkScan(s, lo) = FkScan([buf |-> SubSeq(x, 1, n)], lo)
        <5> DEFINE u == [buf |-> SubSeq(x, 1, n)]
        <5>1. s.buf = u.buf
          BY <3>3
        <5> HIDE DEF u
        <5>2. FkScan(s, lo) = FkScan(u, lo)
          BY <5>1, ScanText
        <5> QED BY <5>2 DEF u
      <4>2. Settled(x, n, s.text_ended)
        BY <1>3, <1>6, DecidedSettled
      <4>3. KindAt(x, 0) \in Openers
        BY DEF KindAt, Openers
      <4>4. s.pos = lo + 0 + 1
        BY <1>3, <3>2
      <4> HIDE DEF x, n
      <4>5. t.fk = FkScan([buf |-> SubSeq(x, 1, n)], lo)
        BY <2>1, <4>1 DEF c
      <4>6. Settled(x, n, t.scanner.text_ended) /\ QuoteEnds(x, t.scanner.last)
        BY <2>1, <3>1, <4>2 DEF x
      <4>7. t.scanner.pos = lo + 0 + 1 /\ t.scanner.buf = SubSeq(x, 0 + 1, n)
        BY <2>1, <3>3, <4>4 DEF x
      <4> QED BY <4>3, <4>5, <4>6, <4>7 DEF ReadFrom, n
    <3>5. CacheKnown(t)
      <4> HIDE DEF x
      <4>1. x \in Seq(Lexeme)
        BY <1>3 DEF x
      <4> QED BY <1>3, <3>3, <3>4, <4>1 DEF CacheKnown
    <3>6. BracketRead(t)
      BY <2>1, <3>1 DEF BracketRead, Tok
    <3> QED BY <2>1, <3>1, <3>5, <3>6
  <2>3. Marked(t, was)
    BY <1>1, <2>1 DEF Marked
  <2>4. Recalls(t, was)
    BY <1>1, <2>1, <2>2, <2>3 DEF Recalls
  <2> QED BY <1>6, <2>1, <2>4 DEF Tok
<1> HIDE DEF r, t
<1> QED BY <1>2, <1>4, <1>5, <1>6

\* Nothing else a step does to its record concerns the cache.
LEMMA OthersSame ==
  ASSUME NEW q, CacheFields \subseteq DOMAIN q, NEW v, NEW w, NEW e
  PROVE  /\ SameCache(q, q)
         /\ SameCache(Goto(q, v), q) /\ SameCache(GotoNode(q, v, w), q)
         /\ SameCache(ParseError(q), q) /\ SameCache(StopWith(q, v), q)
         /\ SameCache(Consume(q), q) /\ SameCache(AttachProps(q), q)
         /\ SameCache(Emit(q, e), q) /\ SameCache(PopFrame(q), q)
         /\ SameCache(TakeProp(q), q)
<1> USE DEF SameCache, SameText, CacheFields
<1>1. SameCache(q, q)
  OBVIOUS
<1>2. SameCache(Goto(q, v), q) /\ SameCache(GotoNode(q, v, w), q)
  BY DEF Goto, GotoNode
<1>3. SameCache(ParseError(q), q) /\ SameCache(AttachProps(q), q)
  BY DEF ParseError, AttachProps
<1>4. SameCache(StopWith(q, v), q)
  BY DEF StopWith
<1>5. SameCache(Consume(q), q)
  BY DEF Consume
<1>6. SameCache(Emit(q, e), q)
  <2>1. SameCache(StopWith(q, "ERR_LIMIT"), q)
    BY DEF StopWith
  <2>2. SameCache([q EXCEPT !.out_buf = Append(@, e)], q)
    OBVIOUS
  <2> HIDE DEF SameCache, SameText, CacheFields
  <2> QED BY <1>1, <2>1, <2>2 DEF Emit
<1>7. SameCache(PopFrame(q), q)
  BY DEF PopFrame, Goto
<1>8. SameCache(TakeProp(q), q)
  BY DEF TakeProp, Consume
<1> QED BY <1>1, <1>2, <1>3, <1>4, <1>5, <1>6, <1>7, <1>8

\* So the record remembers through all of it.
LEMMA OthersRecall ==
  ASSUME NEW q, NEW was, Recalls(q, was), NEW v, NEW w, NEW e
  PROVE  /\ Recalls(Goto(q, v), was) /\ Recalls(GotoNode(q, v, w), was)
         /\ Recalls(ParseError(q), was) /\ Recalls(Consume(q), was)
         /\ Recalls(AttachProps(q), was) /\ Recalls(Emit(q, e), was)
         /\ Recalls(PopFrame(q), was) /\ Recalls(TakeProp(q), was)
         /\ Recalls(StopWith(q, v), was)
<1>1. CacheFields \subseteq DOMAIN q
  BY DEF Recalls
<1> QED BY <1>1, OthersSame, SameRecalls

\* A checkpoint is taken between two documents.
LEMMA CheckpointRecalls ==
  ASSUME NEW q, NEW was, Recalls(q, was), was.state = "DOC_DIRECTIVES"
  PROVE  Recalls(TakeCheckpoint(q), was)
<1> DEFINE n == q.events_delivered
           c == [set |-> TRUE, pos |-> q.current.pos, delivered |-> n]
           r == [q EXCEPT !.ckpt = c]
<1>1. /\ CacheFields \subseteq DOMAIN q /\ q.scanner.text_ended = was.scanner.text_ended
      /\ n = was.events_delivered /\ q.incremental = was.incremental
  BY DEF Recalls
<1>2. c.set /\ c.delivered = n
  OBVIOUS
<1> HIDE DEF c
<1>3. SameText(r, q) /\ r.events_delivered = n /\ r.incremental = q.incremental /\ r.ckpt = c
  BY <1>1 DEF SameText, CacheFields
<1>4. TakeCheckpoint(q) \in {q, r}
  BY DEF TakeCheckpoint, c
<1> HIDE DEF r
<1>5. Marked(r, was)
  BY <1>2, <1>3 DEF Marked
<1>6. Recalls(r, was)
  BY <1>1, <1>3, <1>5, TextRecalls
<1> QED BY <1>4, <1>6

\* A frame is none of the cache's concern either.
LEMMA PushRecalls ==
  ASSUME NEW q, NEW was, Recalls(q, was), NEW type, NEW indent, NEW n
  PROVE  Recalls(PushFrame(q, type, indent, n), was)
<1> DEFINE f == [type |-> type, indent |-> indent, return_state |-> n]
           a == [q EXCEPT !.out_buf = Withhold(@)]
           b == [q EXCEPT !.frames = Append(@, f)]
<1>1. CacheFields \subseteq DOMAIN q
  BY DEF Recalls
<1>2. SameCache(a, q) /\ SameCache(b, q)
  <2> HIDE DEF f
  <2> QED BY <1>1 DEF SameCache, SameText, CacheFields
<1>3. Recalls(a, was) /\ Recalls(b, was)
  <2> HIDE DEF a, b
  <2> QED BY <1>2, SameRecalls
<1>4. PushFrame(q, type, indent, n) \in {StopWith(q, "ERR_PARSE"), StopWith(a, "ERR_LIMIT"), b}
  BY DEF PushFrame
<1> HIDE DEF a, b
<1> QED BY <1>3, <1>4, OthersRecall

\* Nor is a scalar.
LEMMA ScalarRecalls ==
  ASSUME NEW q, NEW was, Recalls(q, was)
  PROVE  Recalls(EmitScalarToken(q), was)
<1>1. Recalls(StopWith(q, "ERR_LIMIT"), was) /\ Recalls(AttachProps(q), was)
  BY OthersRecall
<1>2. Recalls(Consume(Emit(AttachProps(q), "SCALAR")), was)
  BY <1>1, OthersRecall
<1> QED BY <1>1, <1>2 DEF EmitScalarToken

\* Properties are read one token at a time.
LEMMA PropsRecall ==
  ASSUME NEW q, NEW was, Recalls(q, was)
  PROVE  Recalls(ConsumeProps(q), was)
<1>1. ASSUME NEW p, Recalls(p, was) PROVE Recalls(TakePropIfAny(p), was)
  <2>1. Recalls(TakeProp(p), was)
    BY <1>1, OthersRecall
  <2>2. Recalls(Peek(TakeProp(p)), was)
    BY <2>1, PeekRecalls
  <2> QED BY <1>1, <2>2 DEF TakePropIfAny
<1>2. ASSUME NEW p, Recalls(p, was) PROVE Recalls(RefuseAliasWithProps(p), was)
  BY <1>2, OthersRecall DEF RefuseAliasWithProps
<1>3. Recalls(Peek(q), was)
  BY PeekRecalls
<1> QED BY <1>1, <1>2, <1>3 DEF ConsumeProps

\* The stream's and the documents' states.
LEMMA DocumentsRecall ==
  ASSUME NEW q, NEW was, Recalls(q, was)
  PROVE  /\ Recalls(StreamStart(q), was) /\ Recalls(StreamDocLoop(q), was)
         /\ Recalls(StreamEnd(q), was)
         /\ was.state = "DOC_DIRECTIVES" => Recalls(DocDirectives(q), was)
         /\ Recalls(DocStartExplicit(q), was) /\ Recalls(DocStartImplicit(q), was)
         /\ Recalls(DocContent(q), was) /\ Recalls(EndDocument(q), was)
<1> DEFINE p == Peek(q)
<1>1. Recalls(p, was)
  BY PeekRecalls
<1> HIDE DEF p
<1>2. ASSUME NEW r, Recalls(r, was), NEW line
      PROVE  Recalls(DocStart(r, line), was)
  <2> DEFINE d == Emit(r, "DOC_START")
             t == [d EXCEPT !.doc_start_line = line, !.doc_open = TRUE]
  <2>1. Recalls(d, was)
    BY <1>2, OthersRecall
  <2> HIDE DEF d
  <2>2. SameCache(t, d)
    BY <2>1 DEF SameCache, SameText, Recalls, CacheFields
  <2> HIDE DEF t
  <2>3. Recalls(Goto(t, "DOC_CONTENT"), was)
    BY <2>1, <2>2, SameRecalls, OthersRecall
  <2> QED BY <2>3 DEF DocStart, t, d
<1>3. ASSUME NEW r, Recalls(r, was), NEW state
      PROVE  Recalls(Goto([Emit(r, "DOC_END") EXCEPT !.doc_open = FALSE], state), was)
  <2> DEFINE d == Emit(r, "DOC_END")
             t == [d EXCEPT !.doc_open = FALSE]
  <2>1. Recalls(d, was)
    BY <1>3, OthersRecall
  <2> HIDE DEF d
  <2>2. SameCache(t, d)
    BY <2>1 DEF SameCache, SameText, Recalls, CacheFields
  <2> HIDE DEF t
  <2>3. Recalls(Goto(t, state), was)
    BY <2>1, <2>2, SameRecalls, OthersRecall
  <2> QED BY <2>3 DEF t, d
<1>4. Recalls(StreamStart(q), was) /\ Recalls(StreamEnd(q), was) /\ Recalls(StreamDocLoop(q), was)
  BY <1>1, OthersRecall DEF StreamStart, StreamEnd, StreamDocLoop, p
<1>5. ASSUME was.state = "DOC_DIRECTIVES" PROVE Recalls(DocDirectives(q), was)
  <2> DEFINE t == TakeCheckpoint(p)
  <2>1. Recalls(t, was)
    BY <1>1, <1>5, CheckpointRecalls
  <2> HIDE DEF t
  <2>2. Recalls(Consume(t), was) /\ \A v : Recalls(Goto(t, v), was)
    BY <2>1, OthersRecall
  <2>3. Recalls(Goto(Consume(t), "STREAM_DOC_LOOP"), was)
    BY <2>2, OthersRecall
  <2> QED BY <2>2, <2>3 DEF DocDirectives, p, t
<1>6. Recalls(DocStartExplicit(q), was) /\ Recalls(DocStartImplicit(q), was)
  <2>1. Recalls(Consume(p), was)
    BY <1>1, OthersRecall
  <2> QED BY <1>1, <1>2, <2>1 DEF DocStartExplicit, DocStartImplicit, p
<1>7. Recalls(DocContent(q), was)
  <2>1. Recalls(Emit(p, "SCALAR"), was) /\ Recalls(GotoNode(p, "BLOCK_NODE", "DOC_END_EXPLICIT"), was)
    BY <1>1, OthersRecall
  <2>2. \A v : Recalls(EmptyDocument(p, v), was)
    BY <1>3, <2>1 DEF EmptyDocument
  <2>3. Recalls(Goto(Emit(p, "SCALAR"), "DOC_END_EXPLICIT"), was)
    BY <2>1, OthersRecall
  <2> QED BY <2>1, <2>2, <2>3 DEF DocContent, p
<1>8. Recalls(EndDocument(q), was)
  <2> DEFINE c == IF Tok(p) = "DOC_END" THEN Consume(p) ELSE p
  <2>1. Recalls(c, was) /\ Recalls(ParseError(p), was)
    BY <1>1, OthersRecall
  <2> HIDE DEF c
  <2>2. Recalls(Goto([Emit(c, "DOC_END") EXCEPT !.doc_open = FALSE], "STREAM_DOC_LOOP"), was)
    BY <1>3, <2>1
  <2> QED BY <1>1, <2>1, <2>2 DEF EndDocument, p, c
<1> QED BY <1>4, <1>5, <1>6, <1>7, <1>8

\* The states of block collections.
LEMMA BlockRecalls ==
  ASSUME NEW q, NEW was, Recalls(q, was)
  PROVE  /\ Recalls(BlockMapLoop(q), was) /\ Recalls(BlockMapExplicitKey(q), was)
         /\ Recalls(BlockMapSimpleKey(q), was) /\ Recalls(BlockMapPostKey(q), was)
         /\ Recalls(BlockMapValue(q), was) /\ Recalls(BlockMapEnd(q), was)
         /\ Recalls(BlockSeqLoop(q), was) /\ Recalls(BlockSeqEntry(q), was)
         /\ Recalls(BlockSeqEnd(q), was)
<1> DEFINE p == Peek(q)
           n == Peek(Consume(p))
<1>1. Recalls(p, was)
  BY PeekRecalls
<1>2. Recalls(n, was)
  <2>1. Recalls(Consume(p), was)
    BY <1>1, OthersRecall
  <2> QED BY <2>1, PeekRecalls
<1> HIDE DEF p, n
<1>3. ASSUME NEW r, Recalls(r, was), NEW e, NEW v
      PROVE  Recalls(Goto(Emit(r, e), v), was)
  <2>1. Recalls(Emit(r, e), was)
    BY <1>3, OthersRecall
  <2> QED BY <2>1, OthersRecall
<1>4. Recalls(BlockMapLoop(q), was)
  BY <1>1, <1>3, OthersRecall DEF BlockMapLoop, p
<1>5. Recalls(BlockMapExplicitKey(q), was)
  BY <1>2, <1>3, OthersRecall DEF BlockMapExplicitKey, p, n
<1>6. Recalls(BlockMapSimpleKey(q), was)
  <2>1. \A v : Recalls(Goto(p, v), was) /\ Recalls(Goto(n, v), was)
    BY <1>1, <1>2, OthersRecall
  <2>2. \A e, v : Recalls(Goto(Emit(n, e), v), was)
    BY <1>2, <1>3
  <2> QED BY <2>1, <2>2 DEF BlockMapSimpleKey, p, n
<1>7. Recalls(BlockMapPostKey(q), was)
  BY <1>1, <1>3, OthersRecall DEF BlockMapPostKey, p
<1>8. Recalls(BlockMapValue(q), was)
  <2> DEFINE t == [n EXCEPT !.value_colon_line = p.current.line,
                            !.value_colon_starts_line = p.current.first]
  <2>1. SameCache(t, n)
    BY <1>2 DEF SameCache, SameText, Recalls, CacheFields
  <2> HIDE DEF t
  <2>2. Recalls(t, was)
    BY <1>2, <2>1, SameRecalls
  <2>3. Recalls(Goto(Emit(p, "SCALAR"), "BLOCK_MAP_LOOP"), was)
        /\ Recalls(Goto(Emit(t, "SCALAR"), "BLOCK_MAP_LOOP"), was)
    BY <1>1, <1>3, <2>2
  <2>4. Recalls(GotoNode(t, "BLOCK_NODE", "BLOCK_MAP_LOOP"), was)
    BY <2>2, OthersRecall
  <2> QED BY <2>3, <2>4 DEF BlockMapValue, p, n, t
<1>9. ASSUME NEW e PROVE Recalls(BlockEnd(q, e), was)
  <2> DEFINE t == Emit(Peek(PopFrame(q)), e)
  <2>1. Recalls(PopFrame(q), was)
    BY OthersRecall
  <2>2. Recalls(Peek(PopFrame(q)), was)
    BY <2>1, PeekRecalls
  <2>3. Recalls(t, was)
    BY <2>2, OthersRecall
  <2> HIDE DEF t
  <2>4. Recalls(EndDocument(t), was)
    BY <2>3, DocumentsRecall
  <2> QED BY <2>3, <2>4 DEF BlockEnd, t
<1>10. Recalls(BlockMapEnd(q), was) /\ Recalls(BlockSeqEnd(q), was)
  BY <1>9 DEF BlockMapEnd, BlockSeqEnd
<1>11. Recalls(BlockSeqLoop(q), was)
  BY <1>1, OthersRecall DEF BlockSeqLoop, p
<1>12. Recalls(BlockSeqEntry(q), was)
  BY <1>2, <1>3, OthersRecall DEF BlockSeqEntry, p, n
<1> QED BY <1>4, <1>5, <1>6, <1>7, <1>8, <1>10, <1>11, <1>12

\* The states of block nodes; a collection in brackets is looked ahead of.
LEMMA NodesRecall ==
  ASSUME NEW q, NEW was, Recalls(q, was)
  PROVE  /\ Recalls(BlockNode(q), was) /\ Recalls(BlockNodeScalar(q), was)
         /\ Recalls(BlockNodeAlias(q), was) /\ Recalls(BlockNodeKey(q), was)
         /\ Recalls(BlockNodeSeq(q), was) /\ Recalls(BlockNodeExplicitKey(q), was)
         /\ Recalls(BlockNodeBareValue(q), was)
<1> DEFINE p == Peek(q)
           n == Peek(Consume(p))
<1>1. Recalls(p, was) /\ (~p.scan_error /\ ~p.starved => p.have_token)
  BY PeekRecalls
<1>2. Recalls(n, was)
  <2>1. Recalls(Consume(p), was)
    BY <1>1, OthersRecall
  <2> QED BY <2>1, PeekRecalls
<1> HIDE DEF p, n
<1>3. Recalls(BlockNode(q), was)
  <2>1. \A v : Recalls(Goto(p, v), was)
    BY <1>1, OthersRecall
  <2>2. Recalls(ParseError(p), was)
    BY <1>1, OthersRecall
  <2>3. ASSUME Tok(p) \in FlowStarts PROVE Recalls(BlockNodeFlow(p), was)
    <3> DEFINE a == LookAhead(p, p.current.pos)
    <3>1. Recalls(a, was)
      BY <1>1, <2>3, LookAheadRecalls
    <3> HIDE DEF a
    <3>2. \A v : Recalls(Goto(a, v), was)
      BY <3>1, OthersRecall
    <3> QED BY <2>1, <3>2 DEF BlockNodeFlow, a
  <2> QED BY <2>1, <2>2, <2>3 DEF BlockNode, p, PropTokens, FlowStarts
<1>4. ASSUME NEW e, NEW key_state PROVE Recalls(BlockNodeLeaf(q, e, key_state), was)
  <2> DEFINE t == [n EXCEPT !.saved_node = e, !.saved_node_col = Col(p)]
  <2>1. SameCache(t, n)
    BY <1>2 DEF SameCache, SameText, Recalls, CacheFields
  <2> HIDE DEF t
  <2>2. Recalls(t, was)
    BY <1>2, <2>1, SameRecalls
  <2>3. Recalls(Goto(t, key_state), was)
    BY <2>2, OthersRecall
  <2>4. Recalls(Emit(n, e), was)
    BY <1>2, OthersRecall
  <2>5. Recalls(Goto(Emit(n, e), n.node_return), was)
    BY <2>4, OthersRecall
  <2> QED BY <2>3, <2>5 DEF BlockNodeLeaf, p, n, t
<1>5. Recalls(BlockNodeKey(q), was)
  <2> DEFINE a == Emit(q, "MAPPING_START")
             b == Emit(a, q.saved_node)
             c == PushFrame(b, "BLOCK_MAP", q.saved_node_col, q.node_return)
  <2>1. Recalls(a, was)
    BY OthersRecall
  <2>2. Recalls(b, was)
    <3> HIDE DEF a
    <3> QED BY <2>1, OthersRecall
  <2>3. Recalls(c, was)
    <3> HIDE DEF b
    <3> QED BY <2>2, PushRecalls
  <2>4. Recalls(Goto(c, "BLOCK_MAP_VALUE"), was)
    <3> HIDE DEF c
    <3> QED BY <2>3, OthersRecall
  <2> QED BY <2>4 DEF BlockNodeKey
<1>6. ASSUME NEW e, NEW context PROVE Recalls(BlockOpen(q, e, context), was)
  <2>1. Recalls(Emit(p, e), was)
    BY <1>1, OthersRecall
  <2>2. Recalls(PushFrame(Emit(p, e), context, Col(p), p.node_return), was)
    BY <2>1, PushRecalls
  <2> QED BY <2>2 DEF BlockOpen, p
<1>7. Recalls(BlockNodeSeq(q), was) /\ Recalls(BlockNodeExplicitKey(q), was)
  BY <1>6, OthersRecall DEF BlockNodeSeq, BlockNodeExplicitKey
<1>8. Recalls(BlockNodeBareValue(q), was)
  <2> DEFINE a == BlockOpen(q, "MAPPING_START", "BLOCK_MAP")
  <2>1. Recalls(a, was)
    BY <1>6
  <2> HIDE DEF a
  <2>2. Recalls(Emit(a, "SCALAR"), was)
    BY <2>1, OthersRecall
  <2>3. Recalls(Goto(Emit(a, "SCALAR"), "BLOCK_MAP_VALUE"), was)
    BY <2>2, OthersRecall
  <2> QED BY <2>3 DEF BlockNodeBareValue, a
<1> QED BY <1>3, <1>4, <1>5, <1>7, <1>8 DEF BlockNodeScalar, BlockNodeAlias

\* The helpers of the flow states.
LEMMA FlowMapsRecall ==
  ASSUME NEW q, NEW was, Recalls(q, was)
  PROVE  /\ \A in_seq : Recalls(FlowSep(q, in_seq), was)
         /\ Recalls(FlowMapValueNode(q), was)
         /\ \A ends, v : Recalls(PairNode(q, ends, v), was)
<1> DEFINE p == Peek(q)
<1>1. Recalls(p, was)
  BY PeekRecalls
<1> HIDE DEF p
<1>2. ASSUME NEW r, Recalls(r, was), NEW e, NEW v
      PROVE  Recalls(Goto(Emit(r, e), v), was)
  <2>1. Recalls(Emit(r, e), was)
    BY <1>2, OthersRecall
  <2> QED BY <2>1, OthersRecall
<1>3. ASSUME NEW r, Recalls(r, was), NEW in_seq
      PROVE  Recalls(FlowSep(r, in_seq), was)
  <2> DEFINE t == Peek(r)
  <2>1. Recalls(t, was)
    BY <1>3, PeekRecalls
  <2> HIDE DEF t
  <2>2. Recalls(Consume(t), was)
    BY <2>1, OthersRecall
  <2>3. \A v : Recalls(Goto(t, v), was) /\ Recalls(Goto(Consume(t), v), was)
    BY <2>1, <2>2, OthersRecall
  <2> QED BY <2>1, <2>3 DEF FlowSep, t
<1>4. Recalls(FlowMapValueNode(q), was)
  <2>1. Recalls(EmitScalarToken(p), was)
    BY <1>1, ScalarRecalls
  <2>2. Recalls(FlowSep(EmitScalarToken(p), FALSE), was)
    BY <1>3, <2>1
  <2>3. Recalls(Goto(Emit(p, "SCALAR"), "FLOW_MAP_SEP"), was)
    BY <1>1, <1>2
  <2>4. Recalls(GotoNode(p, "FLOW_NODE", "FLOW_MAP_SEP"), was)
    BY <1>1, OthersRecall
  <2> QED BY <1>1, <2>2, <2>3, <2>4 DEF FlowMapValueNode, p
<1>5. ASSUME NEW ends, NEW v PROVE Recalls(PairNode(q, ends, v), was)
  <2>1. Recalls(Goto(Emit(p, "SCALAR"), v), was)
    BY <1>1, <1>2
  <2>2. Recalls(GotoNode(p, "FLOW_NODE", v), was)
    BY <1>1, OthersRecall
  <2> QED BY <2>1, <2>2 DEF PairNode, p
<1> QED BY <1>3, <1>4, <1>5

\* A node's and a mapping's states themselves, and the end of a collection.
LEMMA FlowNodesRecall ==
  ASSUME NEW q, NEW was, Recalls(q, was)
  PROVE  /\ Recalls(FlowNode(q), was) /\ Recalls(FlowMapLoop(q), was)
         /\ Recalls(FlowMapValue(q), was) /\ Recalls(FlowMapSep(q), was)
         /\ Recalls(FlowMapEnd(q), was) /\ Recalls(FlowSeqEnd(q), was)
<1> DEFINE p == Peek(q)
<1>1. Recalls(p, was)
  BY PeekRecalls
<1> HIDE DEF p
<1>2. ASSUME NEW r, Recalls(r, was), NEW e
      PROVE  /\ \A v : Recalls(Goto(Emit(r, e), v), was)
             /\ \A v : Recalls(Goto(Emit(AttachProps(r), e), v), was)
             /\ \A v : Recalls(Goto(Emit(Consume(AttachProps(r)), e), v), was)
             /\ Recalls(Emit(Consume(AttachProps(r)), e), was)
  <2>1. Recalls(Emit(r, e), was) /\ Recalls(AttachProps(r), was)
    BY <1>2, OthersRecall
  <2>2. Recalls(Consume(AttachProps(r)), was) /\ Recalls(Emit(AttachProps(r), e), was)
    BY <2>1, OthersRecall
  <2>3. Recalls(Emit(Consume(AttachProps(r)), e), was)
    BY <2>2, OthersRecall
  <2> QED BY <2>1, <2>2, <2>3, OthersRecall
<1>3. ASSUME NEW r, Recalls(r, was) PROVE Recalls(FlowNodeAfterProps(r), was)
  <2>1. ASSUME NEW e, NEW context, NEW loop
        PROVE  Recalls(FlowOpen(r, e, context, loop), was)
    <3> DEFINE a == Emit(Consume(AttachProps(r)), e)
    <3>1. Recalls(a, was)
      BY <1>2, <1>3
    <3> HIDE DEF a
    <3>2. Recalls(PushFrame(a, context, Col(r), r.node_return), was)
      BY <3>1, PushRecalls
    <3>3. Recalls(Goto(PushFrame(a, context, Col(r), r.node_return), loop), was)
      BY <3>2, OthersRecall
    <3> QED BY <3>3 DEF FlowOpen, a
  <2>2. Recalls(EmitScalarToken(r), was)
    BY <1>3, ScalarRecalls
  <2>3. Recalls(Goto(EmitScalarToken(r), r.node_return), was)
    BY <2>2, OthersRecall
  <2>4. \A v : /\ Recalls(Goto(Emit(Consume(AttachProps(r)), "ALIAS"), v), was)
               /\ Recalls(Goto(Emit(AttachProps(r), "SCALAR"), v), was)
    BY <1>2, <1>3
  <2> QED BY <2>1, <2>3, <2>4 DEF FlowNodeAfterProps
<1>4. Recalls(FlowNode(q), was)
  <2>1. Recalls(ConsumeProps(p), was)
    BY <1>1, PropsRecall
  <2>2. Recalls(Peek(ConsumeProps(p)), was)
    BY <2>1, PeekRecalls
  <2> QED BY <1>1, <1>3, <2>1, <2>2 DEF FlowNode, p
<1>5. Recalls(FlowMapLoop(q), was)
  <2>1. Recalls(Consume(p), was) /\ Recalls(EmitScalarToken(p), was)
    BY <1>1, OthersRecall, ScalarRecalls
  <2>2. \A ends, v : Recalls(PairNode(Consume(p), ends, v), was)
    BY <2>1, FlowMapsRecall
  <2>3. Recalls(FlowScalarKey(p), was)
    <3> DEFINE g == Goto(EmitScalarToken(p), "FLOW_MAP_VALUE")
               r == Peek(g)
    <3>1. Recalls(g, was)
      BY <2>1, OthersRecall
    <3> HIDE DEF g
    <3>2. Recalls(r, was)
      BY <3>1, PeekRecalls
    <3> HIDE DEF r
    <3>3. Recalls(Consume(r), was)
      BY <3>2, OthersRecall
    <3>4. Recalls(FlowMapValueNode(Consume(r)), was)
      BY <3>3, FlowMapsRecall
    <3> QED BY <3>2, <3>4 DEF FlowScalarKey, r, g
  <2>4. /\ Recalls(Goto(p, "FLOW_MAP_END"), was) /\ Recalls(ParseError(p), was)
        /\ Recalls(GotoNode(p, "FLOW_NODE", "FLOW_MAP_VALUE"), was)
    BY <1>1, OthersRecall
  <2> QED BY <2>2, <2>3, <2>4 DEF FlowMapLoop, p
<1>6. Recalls(FlowMapValue(q), was)
  <2>1. Recalls(Consume(p), was)
    BY <1>1, OthersRecall
  <2>2. Recalls(FlowMapValueNode(Consume(p)), was)
    BY <2>1, FlowMapsRecall
  <2> QED BY <1>1, <1>2, <2>2 DEF FlowMapValue, p
<1>7. Recalls(FlowMapSep(q), was)
  <2>1. Recalls(Consume(p), was)
    BY <1>1, OthersRecall
  <2> QED BY <1>1, <2>1, OthersRecall DEF FlowMapSep, p
<1>8. ASSUME NEW e PROVE Recalls(FlowEnd(q, e), was)
  <2> DEFINE t == PopFrame(Emit(Consume(q), e))
  <2>1. Recalls(Consume(q), was)
    BY OthersRecall
  <2>2. Recalls(Emit(Consume(q), e), was)
    BY <2>1, OthersRecall
  <2>3. Recalls(t, was)
    BY <2>2, OthersRecall
  <2> HIDE DEF t
  <2>4. \A in_seq : Recalls(FlowSep(t, in_seq), was)
    BY <2>3, FlowMapsRecall
  <2> QED BY <2>3, <2>4 DEF FlowEnd, t
<1> QED BY <1>4, <1>5, <1>6, <1>7, <1>8 DEF FlowMapEnd, FlowSeqEnd

\* The states of flow sequences; a nested collection is looked ahead of.
LEMMA FlowSeqsRecall ==
  ASSUME NEW q, NEW was, Recalls(q, was)
  PROVE  /\ Recalls(FlowSeqLoop(q), was) /\ Recalls(FlowSeqEntryKey(q), was)
         /\ Recalls(FlowSeqPairEnd(q), was) /\ Recalls(FlowSeqExplicitKey(q), was)
         /\ Recalls(FlowSeqExplicitValue(q), was) /\ Recalls(FlowSeqSep(q), was)
<1> DEFINE p == Peek(q)
<1>1. Recalls(p, was) /\ (~p.scan_error /\ ~p.starved => p.have_token)
  BY PeekRecalls
<1> HIDE DEF p
<1>2. ASSUME NEW r, Recalls(r, was), NEW e, NEW v
      PROVE  Recalls(Goto(Emit(r, e), v), was)
  <2>1. Recalls(Emit(r, e), was)
    BY <1>2, OthersRecall
  <2> QED BY <2>1, OthersRecall
<1>3. ASSUME NEW r, Recalls(r, was), NEW e, NEW ends, NEW v
      PROVE  Recalls(PairNode(Consume(Emit(r, e)), ends, v), was)
  <2>1. Recalls(Emit(r, e), was)
    BY <1>3, OthersRecall
  <2>2. Recalls(Consume(Emit(r, e)), was)
    BY <2>1, OthersRecall
  <2> QED BY <2>2, FlowMapsRecall
<1>4. ASSUME NEW r, Recalls(r, was) PROVE Recalls(FlowSeqEntry(r), was)
  <2> DEFINE a == AttachProps(Peek(r))
             t == Peek(Consume(a))
  <2>1. Recalls(Peek(r), was)
    BY <1>4, PeekRecalls
  <2>2. Recalls(a, was)
    BY <2>1, OthersRecall
  <2>3. Recalls(t, was)
    <3> HIDE DEF a
    <3>1. Recalls(Consume(a), was)
      BY <2>2, OthersRecall
    <3> QED BY <3>1, PeekRecalls
  <2> HIDE DEF t
  <2>4. ASSUME NEW e PROVE Recalls(Goto([t EXCEPT !.saved_node = e], "FLOW_SEQ_ENTRY_KEY"), was)
    <3> DEFINE w == [t EXCEPT !.saved_node = e]
    <3>1. SameCache(w, t)
      BY <2>3 DEF SameCache, SameText, Recalls, CacheFields
    <3> HIDE DEF w
    <3>2. Recalls(w, was)
      BY <2>3, <3>1, SameRecalls
    <3>3. Recalls(Goto(w, "FLOW_SEQ_ENTRY_KEY"), was)
      BY <3>2, OthersRecall
    <3> QED BY <3>3 DEF w
  <2>5. ASSUME NEW e PROVE Recalls(FlowSep(Emit(t, e), TRUE), was)
    <3>1. Recalls(Emit(t, e), was)
      BY <2>3, OthersRecall
    <3> QED BY <3>1, FlowMapsRecall
  <2> QED BY <2>4, <2>5 DEF FlowSeqEntry, t, a
<1>5. ASSUME NEW r, Recalls(r, was) PROVE Recalls(FlowSeqProps(r), was)
  <2> DEFINE t == ConsumeProps(r)
  <2>1. Recalls(t, was)
    BY <1>5, PropsRecall
  <2> HIDE DEF t
  <2>2. Recalls(AttachProps(t), was) /\ Recalls(ParseError(t), was)
    BY <2>1, OthersRecall
  <2>3. Recalls(Emit(AttachProps(t), "SCALAR"), was)
    BY <2>2, OthersRecall
  <2>4. Recalls(FlowSep(Emit(AttachProps(t), "SCALAR"), TRUE), was)
    BY <2>3, FlowMapsRecall
  <2> QED BY <2>1, <2>2, <2>4 DEF FlowSeqProps, t
<1>6. Recalls(FlowSeqLoop(q), was)
  <2> DEFINE a == LookAhead(p, p.current.pos)
             m == Emit(AttachProps(p), "MAPPING_START")
  <2>1. \A v : Recalls(Goto(p, v), was)
    BY <1>1, OthersRecall
  <2>2. Recalls(ParseError(p), was) /\ Recalls(AttachProps(p), was)
    BY <1>1, OthersRecall
  <2>3. Recalls(FlowSeqEntry(Goto(p, "FLOW_SEQ_ENTRY")), was)
    BY <1>4, <2>1
  <2>4. Recalls(m, was)
    BY <2>2, OthersRecall
  <2>5. \A ends, v : Recalls(PairNode(Consume(Emit(m, "SCALAR")), ends, v), was)
    <3> HIDE DEF m
    <3> QED BY <1>3, <2>4
  <2>6. ASSUME Tok(p) \in FlowStarts
        PROVE  /\ Recalls(Goto(a, "EAGER_DRAIN"), was)
               /\ Recalls(GotoNode(a, "FLOW_NODE", "FLOW_SEQ_SEP"), was)
    <3>1. Recalls(a, was)
      BY <1>1, <2>6, LookAheadRecalls
    <3> HIDE DEF a
    <3> QED BY <3>1, OthersRecall
  <2>7. Recalls(FlowSeqProps(p), was)
    BY <1>1, <1>5
  <2> HIDE DEF a
  <2> QED BY <2>1, <2>2, <2>3, <2>5, <2>6, <2>7 DEF FlowSeqLoop, p, a, PropTokens, FlowStarts
<1>7. Recalls(FlowSeqEntryKey(q), was)
  <2> DEFINE m == Emit(q, "MAPPING_START")
  <2>1. Recalls(m, was)
    BY OthersRecall
  <2> HIDE DEF m
  <2>2. Recalls(PairNode(Consume(Emit(m, q.saved_node)), PairEnds, "FLOW_SEQ_IMPLICIT_END"), was)
    BY <1>3, <2>1
  <2> QED BY <2>2 DEF FlowSeqEntryKey, m
<1>8. Recalls(FlowSeqPairEnd(q), was)
  BY <1>1, <1>2 DEF FlowSeqPairEnd, p
<1>9. Recalls(FlowSeqExplicitKey(q), was)
  BY <1>3 DEF FlowSeqExplicitKey
<1>10. Recalls(FlowSeqExplicitValue(q), was)
  <2>1. Recalls(Consume(p), was)
    BY <1>1, OthersRecall
  <2>2. \A ends, v : Recalls(PairNode(Consume(p), ends, v), was)
    BY <2>1, FlowMapsRecall
  <2> QED BY <1>1, <1>2, <2>2 DEF FlowSeqExplicitValue, p
<1>11. Recalls(FlowSeqSep(q), was)
  <2>1. Recalls(Consume(p), was)
    BY <1>1, OthersRecall
  <2> QED BY <1>1, <2>1, OthersRecall DEF FlowSeqSep, p
<1> QED BY <1>6, <1>7, <1>8, <1>9, <1>10, <1>11


-----------------------------------------------------------------------------
(***************************************************************************)
(* The event stream.                                                       *)
(***************************************************************************)

\* The open levels stay levels, whatever event comes.
LEMMA AfterType ==
  ASSUME NEW levels \in Seq(Stream!Level), NEW e \in Stream!Event
  PROVE  Stream!After(levels, e) \in Seq(Stream!Level)
<1> DEFINE n == Len(levels)
           top == Stream!AfterNode(levels[n])
           parent == [levels EXCEPT ![n] = top]
<1>1. parent \in Seq(Stream!Level)
  <2>1. CASE levels = <<>>
    <3>1. parent = levels
      BY <2>1
    <3> QED BY <3>1
  <2>2. CASE levels # <<>>
    <3>1. n \in 1..Len(levels) /\ levels[n] \in Stream!Level
      BY <2>2
    <3>2. top \in Stream!Level
      BY <3>1 DEF Stream!AfterNode, Stream!Level
    <3> HIDE DEF n, top
    <3> QED BY <3>1, <3>2, ExceptSeq
  <2> QED BY <2>1, <2>2
<1>2. Stream!Below(levels) \in Seq(Stream!Level)
  <2>1. CASE levels = <<>>
    <3>1. SubSeq(levels, 1, Len(levels) - 1) = <<>>
      BY <2>1, SubSeqEmpty
    <3> QED BY <3>1 DEF Stream!Below
  <2>2. CASE levels # <<>>
    BY <2>2 DEF Stream!Below
  <2> QED BY <2>1, <2>2
<1>3. Stream!After(levels, e) \in
        {<<"STREAM">>, <<"END">>, Append(levels, "DOC"), Append(parent, "SEQ"),
         Append(parent, "KEY"), parent, Stream!Below(levels)}
  BY DEF Stream!After
<1> HIDE DEF parent
<1>4. {"STREAM", "END", "DOC", "SEQ", "KEY"} \subseteq Stream!Level
  BY DEF Stream!Level
<1>5. /\ <<"STREAM">> \in Seq(Stream!Level) /\ <<"END">> \in Seq(Stream!Level)
      /\ Append(levels, "DOC") \in Seq(Stream!Level)
      /\ Append(parent, "SEQ") \in Seq(Stream!Level)
      /\ Append(parent, "KEY") \in Seq(Stream!Level)
  BY <1>1, <1>4
<1> QED BY <1>1, <1>2, <1>3, <1>5

-----------------------------------------------------------------------------
(***************************************************************************)
(* The inductive invariant.  Between steps nothing is starved, the limits  *)
(* hold, and the states that rely on a token have it.                      *)
(***************************************************************************)

Limits(q) ==
  /\ MaxEvents > 0 => q.events_delivered + Len(q.out_buf) <= MaxEvents
  /\ MaxDepth > 0 => Len(q.frames) <= MaxDepth
  /\ q.ckpt.set => q.ckpt.delivered <= q.events_delivered

TokenHeld(q) == q.state \in TokenStates => q.have_token \/ q.scan_error

Kept(q) == q \in ParserRecord /\ Limits(q) /\ TokenHeld(q) /\ ~q.starved

Inv == Kept(parser) /\ result \in Result /\ open \in Seq(Stream!Level)

\* A new parser is one.
LEMMA NewParserKept == Kept(NewParser)
<1>1. NewParser \in ParserRecord
  <2>1. TokenAt(NewScanner, "NONE") \in Token
    BY NewScannerType, TokenAtType DEF TokenType
  <2>2. NoFlowKeys \in FlowKeys
    BY NoFlowKeysType
  <2>3. [set |-> FALSE, pos |-> 0, delivered |-> 0] \in Checkpoint
    BY DEF Checkpoint
  <2>4. /\ "STREAM_START" \in State /\ "STREAM_START" \in ReturnState
        /\ "SCALAR" \in Stream!Leaf /\ "none" \in Message
    BY DEF State, BlockStates, ReturnState, Stream!Leaf, Message
  <2>5. <<>> \in Seq(Frame) /\ <<>> \in Seq(Stream!Event) /\ 0 \in Nat /\ 0 \in Int
    OBVIOUS
  <2> QED BY <2>1, <2>2, <2>3, <2>4, <2>5, NewScannerType DEF NewParser, ParserRecord
<1>2. Limits(NewParser) /\ TokenHeld(NewParser) /\ ~NewParser.starved
  BY LimitsAssumption DEF NewParser, Limits, TokenHeld, TokenStates
<1> QED BY <1>1, <1>2 DEF Kept

\* It satisfies the invariant.
LEMMA InitInv == Init => Inv
<1> SUFFICES ASSUME Init PROVE Inv
  OBVIOUS
<1>1. result \in Result /\ open \in Seq(Stream!Level)
  BY DEF Init, Result, Stream!Level
<1> QED BY <1>1, NewParserKept DEF Init, Inv

\* A record that is stepped on is a good one.
LEMMA SteppingGood ==
  ASSUME Inv, NEW state, Stepping(state)
  PROVE  /\ Good(parser) /\ ~parser.scan_error /\ parser.state = state
         /\ state \in TokenStates => parser.have_token
BY DEF Inv, Kept, Limits, TokenHeld, Stepping, Good, Bounds

\* Learning more of the text keeps the invariant.
LEMMA MoreTextInv ==
  ASSUME Inv, MoreText
  PROVE  Inv'
<1> DEFINE s == parser.scanner
<1>1. parser \in ParserRecord /\ s \in ScannerState
  BY DEF Inv, Kept, ParserRecord
<1>2. PICK t \in ScannerState : parser' = [parser EXCEPT !.scanner = t]
  <2>1. CASE \E x \in Lexemes : parser' = [parser EXCEPT !.scanner = AppendLexeme(@, x)]
    <3>1. PICK x \in Lexemes : parser' = [parser EXCEPT !.scanner = AppendLexeme(@, x)]
      BY <2>1
    <3>2. AppendLexeme(s, x) \in ScannerState
      BY <1>1, AppendLexemeType
    <3> QED BY <3>1, <3>2
  <2>2. CASE parser' = [parser EXCEPT !.scanner = EndText(@)]
    <3>1. EndText(s) \in ScannerState
      BY <1>1, EndTextType
    <3> QED BY <2>2, <3>1
  <2> QED BY <2>1, <2>2 DEF MoreText
<1> HIDE DEF s
<1>3. parser' \in ParserRecord
  BY <1>1, <1>2 DEF ParserRecord
<1>4. Limits(parser)' /\ TokenHeld(parser)' /\ ~parser'.starved
  BY <1>1, <1>2 DEF Inv, Kept, Limits, TokenHeld, ParserRecord
<1>5. result' \in Result /\ open' \in Seq(Stream!Level)
  BY DEF MoreText, Inv
<1> QED BY <1>3, <1>4, <1>5 DEF Inv, Kept

\* Keeping the events before a scanner error shortens out_buf.
LEMMA KeepEventsGood ==
  ASSUME NEW q, Good(q)
  PROVE  Good(KeepEvents(q))
<1>1. CASE ~q.scan_error
  BY <1>1 DEF KeepEvents
<1>2. CASE q.scan_error
  <2> DEFINE n == q.scan_error_out
             out == SubSeq(q.out_buf, 1, n)
  <2>1. /\ n \in Nat /\ q.events_delivered \in Nat
        /\ q.out_buf \in Seq(Stream!Event) /\ Len(q.out_buf) \in Nat /\ n <= Len(q.out_buf)
    BY <1>2 DEF Good, ParserRecord, Bounds
  <2> HIDE DEF n
  <2>2. \A i \in 1..n : q.out_buf[i] \in Stream!Event
    BY <2>1
  <2>3. out \in Seq(Stream!Event) /\ Len(out) = IF 1 <= n THEN n - 1 + 1 ELSE 0
    BY <2>1, <2>2, SubSeqProperties
  <2>4. Len(out) = n
    BY <2>1, <2>3
  <2>5. MaxEvents > 0 => q.events_delivered + Len(q.out_buf) <= MaxEvents
    BY DEF Good, Bounds
  <2> HIDE DEF out
  <2>6. MaxEvents > 0 => q.events_delivered + Len(out) <= MaxEvents
    BY <2>1, <2>4, <2>5, LimitsAssumption
  <2>7. q.scan_error => q.scan_error_out <= Len(out)
    BY <2>1, <2>4 DEF n
  <2>8. KeepEvents(q) = [q EXCEPT !.out_buf = out]
    BY <1>2 DEF KeepEvents, out, n
  <2> QED BY <2>3, <2>6, <2>7, <2>8, OutGood
<1> QED BY <1>1, <1>2

\* Nothing else changes.
LEMMA KeepEventsFields ==
  ASSUME NEW q, Good(q)
  PROVE  /\ KeepEvents(q).state = q.state
         /\ KeepEvents(q).have_token = q.have_token
         /\ KeepEvents(q).scan_error = q.scan_error
         /\ KeepEvents(q).starved = q.starved
BY DEF KeepEvents, Good, ParserRecord

\* Whatever a step makes of the record, if it is fine next_event keeps the
\* invariant.
LEMMA FinishInv ==
  ASSUME Inv, NEW q, Fine(q), Finish(q)
  PROVE  Inv'
<1>1. CASE q.starved
  BY <1>1, MoreTextInv DEF Finish
<1>2. CASE ~q.starved
  <2> DEFINE kept == KeepEvents(q)
             r == [kept EXCEPT !.status = "OK"]
  <2>1. parser' = r /\ result' = Outcome(kept) /\ open' = open
    BY <1>2 DEF Finish
  <2>2. Good(kept)
    BY KeepEventsGood DEF Fine
  <2>3. ~kept.starved /\ TokenHeld(kept)
    <3>1. TokenHeld(q)
      BY <1>2 DEF Fine, Held, TokenHeld
    <3> QED BY <1>2, <3>1, KeepEventsFields DEF Fine, TokenHeld
  <2> HIDE DEF kept
  <2>4. r \in ParserRecord
    BY <2>2 DEF Good, ParserRecord
  <2>5. Limits(r) /\ TokenHeld(r) /\ ~r.starved
    BY <2>2, <2>3 DEF Good, ParserRecord, Bounds, Limits, TokenHeld
  <2>6. Outcome(kept) \in Result
    BY <2>2 DEF Outcome, Result, Errors, Good, ParserRecord
  <2> HIDE DEF r
  <2> QED BY <2>1, <2>4, <2>5, <2>6 DEF Inv, Kept
<1> QED BY <1>1, <1>2

\* Delivering an event keeps the invariant.
LEMMA DeliverInv ==
  ASSUME Inv, Deliver
  PROVE  Inv'
<1> DEFINE out == Tail(parser.out_buf)
           d == parser.events_delivered + 1
           r == [parser EXCEPT !.out_buf = out, !.events_delivered = d]
<1>1. /\ parser.out_buf \in Seq(Stream!Event) /\ parser.out_buf # <<>>
      /\ parser.events_delivered \in Nat
  BY DEF Inv, Kept, ParserRecord, Deliver
<1>2. /\ out \in Seq(Stream!Event) /\ Len(out) = Len(parser.out_buf) - 1
      /\ Head(parser.out_buf) \in Stream!Event /\ Len(parser.out_buf) \in Nat
  BY <1>1
<1>3. /\ d \in Nat /\ d + Len(out) = parser.events_delivered + Len(parser.out_buf)
      /\ parser.ckpt.set => parser.ckpt.delivered <= d
  <2>1. parser.ckpt.set => parser.ckpt.delivered <= parser.events_delivered
    BY DEF Inv, Kept, Limits
  <2>2. parser.ckpt.delivered \in Nat
    BY DEF Inv, Kept, ParserRecord, Checkpoint
  <2>3. d \in Nat /\ (parser.ckpt.set => parser.ckpt.delivered <= d)
    BY <1>1, <2>1, <2>2
  <2> QED BY <1>1, <1>2, <2>3
<1>4. parser' = r /\ result' = "OK" /\ open' = Stream!After(open, Head(parser.out_buf))
  BY DEF Deliver
<1> HIDE DEF out, d
<1>5. r \in ParserRecord
  BY <1>2, <1>3 DEF Inv, Kept, ParserRecord
<1>6. Limits(r) /\ TokenHeld(r) /\ ~r.starved
  BY <1>3 DEF Inv, Kept, ParserRecord, Limits, TokenHeld
<1>7. open' \in Seq(Stream!Level)
  BY <1>2, <1>4, AfterType DEF Inv
<1> HIDE DEF r
<1> QED BY <1>4, <1>5, <1>6, <1>7 DEF Inv, Kept, Result

\* So does the fallback to the eager parser.
LEMMA FallBackInv ==
  ASSUME Inv, FallBack
  PROVE  Inv'
<1> DEFINE base == IF parser.ckpt.set THEN parser.ckpt.delivered ELSE 0
           skip == parser.events_delivered - base
           c == [parser.ckpt EXCEPT !.set = FALSE]
           h == parser.ckpt.set
           r == [parser EXCEPT !.incremental = FALSE, !.state = "DONE",
                               !.doc_open = FALSE, !.have_token = h,
                               !.has_anchor = FALSE, !.has_tag = FALSE,
                               !.events_delivered = 0, !.ckpt = c,
                               !.evt_base = base, !.skip_n = skip]
<1>1. /\ parser \in ParserRecord /\ parser.out_buf = <<>>
      /\ parser.ckpt \in Checkpoint /\ parser.events_delivered \in Nat
  BY DEF Inv, Kept, ParserRecord, FallBack, Stepping
<1>2. base \in Nat /\ skip \in Nat /\ c \in Checkpoint /\ h \in BOOLEAN
  <2>1. /\ parser.ckpt.set \in BOOLEAN /\ parser.ckpt.delivered \in Nat
        /\ parser.ckpt.pos \in Nat
    BY <1>1 DEF Checkpoint
  <2>2. base \in Nat
    BY <2>1
  <2>3. c \in Checkpoint
    BY <1>1 DEF Checkpoint
  <2>4. base <= parser.events_delivered
    BY <1>1 DEF Inv, Kept, Limits
  <2> HIDE DEF base
  <2>5. skip \in Nat
    BY <1>1, <2>2, <2>4
  <2> QED BY <2>1, <2>2, <2>3, <2>5
<1>3. "DONE" \in State /\ "DONE" \notin TokenStates
  BY DEF State, TokenStates
<1>4. c.set = FALSE
  BY <1>1 DEF Checkpoint
<1>5. parser' = r /\ result' = result /\ open' = open
  BY DEF FallBack
<1> HIDE DEF base, skip, c, h
<1>6. r \in ParserRecord
  BY <1>1, <1>2, <1>3 DEF ParserRecord
<1>7. Limits(r) /\ TokenHeld(r) /\ ~r.starved
  BY <1>1, <1>3, <1>4, LimitsAssumption DEF Inv, Kept, ParserRecord, Limits, TokenHeld
<1> HIDE DEF r
<1> QED BY <1>5, <1>6, <1>7 DEF Inv, Kept

\* Every step of the stream's and the documents' states keeps the invariant.
LEMMA DocumentStepInv ==
  ASSUME Inv, DocumentStep
  PROVE  Inv'
<1>1. CASE DoStreamStart
  BY <1>1, SteppingGood, StreamGood, FinishInv DEF DoStreamStart
<1>2. CASE DoStreamDocLoop
  BY <1>2, SteppingGood, StreamGood, FinishInv DEF DoStreamDocLoop
<1>3. CASE DoStreamEnd
  BY <1>3, SteppingGood, StreamGood, FinishInv DEF DoStreamEnd
<1>4. CASE DoDocDirectives
  BY <1>4, SteppingGood, DocDirectivesGood, FinishInv DEF DoDocDirectives
<1>5. CASE DoDocStartExplicit
  BY <1>5, SteppingGood, DocStartGood, FinishInv DEF DoDocStartExplicit
<1>6. CASE DoDocStartImplicit
  BY <1>6, SteppingGood, DocStartGood, FinishInv DEF DoDocStartImplicit
<1>7. CASE DoDocContent
  BY <1>7, SteppingGood, DocContentGood, FinishInv DEF DoDocContent
<1>8. CASE DoDocEndExplicit
  BY <1>8, SteppingGood, EndDocumentGood, FinishInv DEF DoDocEndExplicit
<1> QED BY <1>1, <1>2, <1>3, <1>4, <1>5, <1>6, <1>7, <1>8 DEF DocumentStep

\* Every step of the block states does.
LEMMA BlockStepInv ==
  ASSUME Inv, BlockStep
  PROVE  Inv'
<1>1. CASE DoBlockNode
  BY <1>1, SteppingGood, BlockNodeGood, FinishInv DEF DoBlockNode
<1>2. CASE DoBlockNodeScalar
  BY <1>2, SteppingGood, BlockNodeLeafGood, FinishInv DEF DoBlockNodeScalar
<1>3. CASE DoBlockNodeScalarKey
  BY <1>3, SteppingGood, BlockNodeKeyGood, FinishInv DEF DoBlockNodeScalarKey
<1>4. CASE DoBlockNodeAlias
  BY <1>4, SteppingGood, BlockNodeLeafGood, FinishInv DEF DoBlockNodeAlias
<1>5. CASE DoBlockNodeAliasKey
  BY <1>5, SteppingGood, BlockNodeKeyGood, FinishInv DEF DoBlockNodeAliasKey
<1>6. CASE DoBlockNodeSeq
  BY <1>6, SteppingGood, BlockOpenGood, FinishInv DEF DoBlockNodeSeq, TokenStates
<1>7. CASE DoBlockNodeExplicitKey
  BY <1>7, SteppingGood, BlockOpenGood, FinishInv DEF DoBlockNodeExplicitKey, TokenStates
<1>8. CASE DoBlockNodeBareValue
  BY <1>8, SteppingGood, BlockOpenGood, FinishInv DEF DoBlockNodeBareValue, TokenStates
<1>9. CASE DoBlockMapLoop
  BY <1>9, SteppingGood, BlockMapLoopGood, FinishInv DEF DoBlockMapLoop
<1>10. CASE DoBlockMapExplicitKey
  BY <1>10, SteppingGood, BlockMapKeyGood, FinishInv DEF DoBlockMapExplicitKey
<1>11. CASE DoBlockMapSimpleKey
  BY <1>11, SteppingGood, BlockMapKeyGood, FinishInv DEF DoBlockMapSimpleKey
<1>12. CASE DoBlockMapPostKey
  BY <1>12, SteppingGood, BlockMapPostKeyGood, FinishInv DEF DoBlockMapPostKey
<1>13. CASE DoBlockMapValue
  BY <1>13, SteppingGood, BlockMapValueGood, FinishInv DEF DoBlockMapValue
<1>14. CASE DoBlockMapEnd
  BY <1>14, SteppingGood, BlockEndGood, FinishInv DEF DoBlockMapEnd
<1>15. CASE DoBlockSeqLoop
  BY <1>15, SteppingGood, BlockSeqGood, FinishInv DEF DoBlockSeqLoop
<1>16. CASE DoBlockSeqEntry
  BY <1>16, SteppingGood, BlockSeqGood, FinishInv DEF DoBlockSeqEntry
<1>17. CASE DoBlockSeqEnd
  BY <1>17, SteppingGood, BlockEndGood, FinishInv DEF DoBlockSeqEnd
<1> QED BY <1>1, <1>2, <1>3, <1>4, <1>5, <1>6, <1>7, <1>8, <1>9, <1>10, <1>11, <1>12,
           <1>13, <1>14, <1>15, <1>16, <1>17
        DEF BlockStep

\* Every step of the flow states does.
LEMMA FlowStepInv ==
  ASSUME Inv, FlowStep
  PROVE  Inv'
<1>1. CASE DoFlowNode
  BY <1>1, SteppingGood, FlowNodeGood, FinishInv DEF DoFlowNode, TokenStates
<1>2. CASE DoFlowMapLoop
  BY <1>2, SteppingGood, FlowMapLoopGood, FinishInv DEF DoFlowMapLoop
<1>3. CASE DoFlowMapValue
  BY <1>3, SteppingGood, FlowMapValueGood, FinishInv DEF DoFlowMapValue
<1>4. CASE DoFlowMapSep
  BY <1>4, SteppingGood, FlowSepStateGood, FinishInv DEF DoFlowMapSep
<1>5. CASE DoFlowMapEnd
  BY <1>5, SteppingGood, FlowEndGood, FinishInv DEF DoFlowMapEnd
<1>6. CASE DoFlowSeqLoop
  BY <1>6, SteppingGood, FlowSeqLoopGood, FinishInv DEF DoFlowSeqLoop
<1>7. CASE DoFlowSeqEntryKey
  BY <1>7, SteppingGood, FlowSeqPairGood, FinishInv DEF DoFlowSeqEntryKey
<1>8. CASE DoFlowSeqImplicitEnd
  BY <1>8, SteppingGood, FlowSeqPairGood, FinishInv DEF DoFlowSeqImplicitEnd
<1>9. CASE DoFlowSeqExplicitKey
  BY <1>9, SteppingGood, FlowSeqPairGood, FinishInv DEF DoFlowSeqExplicitKey
<1>10. CASE DoFlowSeqExplicitValue
  BY <1>10, SteppingGood, FlowSeqPairGood, FinishInv DEF DoFlowSeqExplicitValue
<1>11. CASE DoFlowSeqExplicitEnd
  BY <1>11, SteppingGood, FlowSeqPairGood, FinishInv DEF DoFlowSeqExplicitEnd
<1>12. CASE DoFlowSeqSep
  BY <1>12, SteppingGood, FlowSepStateGood, FinishInv DEF DoFlowSeqSep
<1>13. CASE DoFlowSeqEnd
  BY <1>13, SteppingGood, FlowEndGood, FinishInv DEF DoFlowSeqEnd
<1> QED BY <1>1, <1>2, <1>3, <1>4, <1>5, <1>6, <1>7, <1>8, <1>9, <1>10, <1>11, <1>12,
           <1>13
        DEF FlowStep

\* The invariant is inductive.
LEMMA NextInv == Inv /\ [Next]_vars => Inv'
<1> SUFFICES ASSUME Inv, [Next]_vars PROVE Inv'
  OBVIOUS
<1>1. CASE Call
  BY <1>1 DEF Call, Inv, Result
<1>2. CASE Deliver
  BY <1>2, DeliverInv
<1>3. ASSUME NEW status \in {"NONE", "ERR_SCAN", "ERR_LIMIT", "ERR_PARSE"}, Return(status)
      PROVE  Inv'
  BY <1>3 DEF Return, Inv, Result, Errors
<1>4. CASE ReturnNone \/ ReturnScanError \/ ReturnStopped
  BY <1>3, <1>4 DEF ReturnNone, ReturnScanError, ReturnStopped, Inv, Kept, ParserRecord
<1>5. CASE DocumentStep \/ BlockStep \/ FlowStep
  BY <1>5, DocumentStepInv, BlockStepInv, FlowStepInv
<1>6. CASE FallBack
  BY <1>6, FallBackInv
<1>7. CASE EagerParser \/ UNCHANGED vars
  BY <1>7 DEF EagerParser, vars, Inv
<1> QED BY <1>1, <1>2, <1>4, <1>5, <1>6, <1>7 DEF Next, Work

\* The invariant holds in every behaviour.
THEOREM Invariance == Spec => []Inv
BY InitInv, NextInv, PTL DEF Spec

-----------------------------------------------------------------------------
(***************************************************************************)
(* The theorems.                                                           *)
(***************************************************************************)

\* Every field keeps its type, no step reaches an unused state of the state
\* machine, and every collection returns to a state that waits for one: for
\* every text and every limit (TypeOK).
THEOREM TypeCorrect == Spec => []TypeOK
<1>1. Inv => TypeOK
  BY DEF Inv, Kept, TypeOK
<1> QED BY <1>1, Invariance, PTL

\* oyl_parser_set_max_events: the events delivered and queued never exceed the
\* limit, whatever the text, the errors and the fallback (EventLimit).
THEOREM EventsWithinLimit == Spec => []EventLimit
<1>1. Inv => EventLimit
  BY DEF Inv, Kept, Limits, EventLimit
<1> QED BY <1>1, Invariance, PTL

\* oyl_parser_set_max_depth: the frames never exceed the limit (FrameLimit).
THEOREM FramesWithinLimit == Spec => []FrameLimit
<1>1. Inv => FrameLimit
  BY DEF Inv, Kept, Limits, FrameLimit
<1> QED BY <1>1, Invariance, PTL

\* After an error or the fallback nothing is stepped; what was queued before
\* it is delivered first.
LEMMA SoundStepping ==
  ASSUME NEW state, Stepping(state)
  PROVE  Sound(parser)
BY DEF Stepping, Sound

\* Once a scanner error, a limit or a stop is met and the events queued before
\* it are delivered, no call produces another (StaysStopped).
THEOREM StoppedStays == Spec => StaysStopped
<1> DEFINE Stopped == parser.incremental /\ ~Sound(parser) /\ parser.out_buf = <<>>
           A == Stopped => parser'.out_buf = <<>> /\ open' = open
<1>1. [Next]_vars => [A]_vars
  <2> SUFFICES ASSUME Next, Stopped
               PROVE  parser'.out_buf = <<>> /\ open' = open
    OBVIOUS
  <2>1. CASE Call \/ EagerParser
    BY <2>1 DEF Call, EagerParser, vars
  <2>2. CASE ReturnNone \/ ReturnScanError \/ ReturnStopped
    BY <2>2 DEF ReturnNone, ReturnScanError, ReturnStopped, Return
  <2>3. CASE Deliver
    BY <2>3 DEF Deliver
  <2>4. CASE FallBack
    BY <2>4, SoundStepping DEF FallBack
  <2>5. CASE DocumentStep
    BY <2>5, SoundStepping
       DEF DocumentStep, DoStreamStart, DoStreamDocLoop, DoStreamEnd, DoDocDirectives,
           DoDocStartExplicit, DoDocStartImplicit, DoDocContent, DoDocEndExplicit
  <2>6. CASE BlockStep
    BY <2>6, SoundStepping
       DEF BlockStep, DoBlockNode, DoBlockNodeScalar, DoBlockNodeScalarKey,
           DoBlockNodeAlias, DoBlockNodeAliasKey, DoBlockNodeSeq, DoBlockNodeExplicitKey,
           DoBlockNodeBareValue, DoBlockMapLoop, DoBlockMapExplicitKey,
           DoBlockMapSimpleKey, DoBlockMapPostKey, DoBlockMapValue, DoBlockMapEnd,
           DoBlockSeqLoop, DoBlockSeqEntry, DoBlockSeqEnd
  <2>7. CASE FlowStep
    BY <2>7, SoundStepping
       DEF FlowStep, DoFlowNode, DoFlowMapLoop, DoFlowMapValue, DoFlowMapSep,
           DoFlowMapEnd, DoFlowSeqLoop, DoFlowSeqEntryKey, DoFlowSeqImplicitEnd,
           DoFlowSeqExplicitKey, DoFlowSeqExplicitValue, DoFlowSeqExplicitEnd,
           DoFlowSeqSep, DoFlowSeqEnd
  <2> QED BY <2>1, <2>2, <2>3, <2>4, <2>5, <2>6, <2>7 DEF Next, Work
<1> QED BY <1>1, PTL DEF Spec, StaysStopped

=============================================================================
