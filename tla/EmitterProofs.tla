---------------------------- MODULE EmitterProofs ----------------------------
(***************************************************************************)
(* For every stream of events and all settings: the contexts of the        *)
(* emitter are the collections open in its events, its flags are never     *)
(* stale, and no two lexemes of its text run together.                     *)
(***************************************************************************)
EXTENDS EmitterProperties, SequenceTheorems, TLAPS

\* f is e with some text, and perhaps the properties of a node, added.
Text(e, f) ==
  /\ f \in Emitter
  /\ f.stack = e.stack /\ f.indent = e.indent /\ f.style = e.style /\ f.first_doc = e.first_doc
  /\ f.after_seq_dash = e.after_seq_dash /\ f.key_was_alias = e.key_was_alias

\* A pending "- " is a sequence's, or a flow collection's right after it, or
\* a mapping's that has no key yet, and then the text ends with it.
DashInPlace(e) ==
  e.after_seq_dash =>
    /\ e.stack # <<>>
    /\ ~AtBlockValue(e)
    /\ AtBlockKey(e) => Last(e.stack).count = 0 /\ EndsInDash(e)

KeysOpen(e) ==
  \A i \in 1..Len(e.stack) :
    e.stack[i].complex_key => e.stack[i].type = "BLOCK_MAP" /\ ~e.stack[i].expect_key

AliasPending(e) == e.key_was_alias => InContext(e, MapTypes) /\ ~AtKey(e)

Settled(e) == e \in Emitter /\ DashInPlace(e) /\ KeysOpen(e) /\ AliasPending(e)

-----------------------------------------------------------------------------
(***************************************************************************)
(* Text.                                                                   *)
(***************************************************************************)

\* A sequence that is not empty, but for its last element.
LEMMA FrontAndLast ==
  ASSUME NEW S, NEW s \in Seq(S), s # <<>>
  PROVE  /\ Len(s) \in Nat \ {0} /\ Last(s) = s[Len(s)] /\ Last(s) \in S
         /\ Front(s) \in Seq(S) /\ Len(Front(s)) = Len(s) - 1
         /\ \A i \in 1..Len(s) - 1 : Front(s)[i] = s[i]
<1>1. Len(s) \in Nat \ {0}
  BY EmptySeq
<1>2. Last(s) \in S
  BY <1>1, ElementOfSeq DEF Last
<1>3. PICK m \in Nat : Len(s) = m + 1
  BY <1>1
<1>4. \A i \in 1..m : s[i] \in S
  BY <1>3, ElementOfSeq
<1>5. \A i \in 1..m - 1 + 1 : SubSeq(s, 1, m)[i] = s[1 + i - 1]
  BY <1>4, SubSeqProperties
<1>6. /\ SubSeq(s, 1, m) \in Seq(S) /\ Len(SubSeq(s, 1, m)) = m
      /\ \A i \in 1..m : SubSeq(s, 1, m)[i] = s[i]
  BY <1>4, <1>5, SubSeqProperties
<1>7. Front(s) = SubSeq(s, 1, m) /\ Len(s) - 1 = m
  BY <1>3 DEF Front
<1> QED BY <1>1, <1>2, <1>6, <1>7 DEF Last

\* The last two elements of a sequence that two were added to.
LEMMA PairAtEnd ==
  ASSUME NEW S, NEW s \in Seq(S), NEW a \in S, NEW b \in S
  PROVE  LET t == s \o <<a, b>>
         IN  Len(t) >= 2 /\ SubSeq(t, Len(t) - 1, Len(t)) = <<a, b>>
<1> DEFINE pair == <<a, b>>
           t == s \o pair
<1>1. pair \in Seq(S) /\ Len(pair) = 2 /\ pair[1] = a /\ pair[2] = b
  OBVIOUS
<1>2. PICK n \in Nat : Len(s) = n
  OBVIOUS
<1> HIDE DEF pair
<1>3. /\ t \in Seq(S) /\ Len(t) = n + 2
      /\ \A i \in 1..n + 2 : t[i] = IF i <= n THEN s[i] ELSE pair[i - n]
  <2>1. /\ t \in Seq(S) /\ Len(t) = Len(s) + Len(pair)
        /\ \A i \in 1..Len(s) + Len(pair) :
             t[i] = IF i <= Len(s) THEN s[i] ELSE pair[i - Len(s)]
    BY <1>1, ConcatProperties, Zenon
  <2> QED BY <1>1, <1>2, <2>1
<1> HIDE DEF t
<1>4. t[n + 1] = a /\ t[n + 2] = b
  <2>1. /\ n + 1 \in 1..n + 2 /\ ~(n + 1 <= n) /\ n + 1 - n = 1
        /\ n + 2 \in 1..n + 2 /\ ~(n + 2 <= n) /\ n + 2 - n = 2
    OBVIOUS
  <2> QED BY <1>1, <1>3, <2>1
<1>5. n + 1 \in Int /\ n + 2 \in Int /\ \A i \in n + 1..n + 2 : t[i] \in S
  BY <1>3, ElementOfSeq
<1>6. /\ SubSeq(t, n + 1, n + 2) \in Seq(S) /\ Len(SubSeq(t, n + 1, n + 2)) = 2
      /\ \A i \in 1..2 : SubSeq(t, n + 1, n + 2)[i] = t[n + 1 + i - 1]
  BY <1>5, SubSeqProperties
<1>7. SubSeq(t, n + 1, n + 2)[1] = a /\ SubSeq(t, n + 1, n + 2)[2] = b
  BY <1>4, <1>6
<1>8. SubSeq(t, n + 1, n + 2) = <<a, b>>
  <2> DEFINE u == SubSeq(t, n + 1, n + 2)
  <2>1. u \in Seq(S) /\ Len(u) = 2 /\ u[1] = a /\ u[2] = b
    BY <1>6, <1>7
  <2> HIDE DEF u
  <2>2. u = <<a, b>>
    BY <2>1
  <2> QED BY <2>2 DEF u
<1>9. Len(t) >= 2 /\ Len(t) - 1 = n + 1 /\ Len(t) = n + 2
  BY <1>3
<1> QED BY <1>8, <1>9 DEF t, pair

\* Text added twice is text added.
LEMMA TextTransitive ==
  ASSUME NEW e, NEW f, NEW g, Text(e, f), Text(f, g)
  PROVE  Text(e, g)
BY DEF Text

\* No text is added.
LEMMA TextItself ==
  ASSUME NEW e \in Emitter
  PROVE  Text(e, e)
BY DEF Text

\* Symbols are added to the text.
LEMMA PutText ==
  ASSUME NEW e \in Emitter, NEW symbols \in Seq(Symbol)
  PROVE  Text(e, Put(e, symbols)) /\ Put(e, symbols).out = e.out \o symbols
<1>1. e.out \o symbols \in Seq(Symbol)
  BY DEF Emitter
<1> QED BY <1>1 DEF Text, Put, Emitter

\* A run of blanks.
LEMMA BlanksText ==
  ASSUME NEW n \in Nat
  PROVE  Blanks(n) \in Seq(Symbol)
<1>1. " " \in Symbol
  BY DEF Symbol
<1>2. Blanks(n) \in [1..n -> Symbol]
  BY <1>1 DEF Blanks
<1> QED BY <1>2, SeqDef

\* emitter_newline adds text.
LEMMA NewLineText ==
  ASSUME NEW e \in Emitter
  PROVE  Text(e, NewLine(e))
<1>1. <<"\n">> \in Seq(Symbol)
  BY DEF Symbol
<1> QED BY <1>1, PutText, TextItself DEF NewLine

\* So does a new line with its indentation.
LEMMA NewLineAtText ==
  ASSUME NEW e \in Emitter, NEW column \in Nat
  PROVE  Text(e, NewLineAt(e, column))
<1>1. NewLine(e) \in Emitter
  BY NewLineText DEF Text
<1> QED BY <1>1, NewLineText, BlanksText, PutText, TextTransitive DEF NewLineAt

\* A blank taken back is a text changed.
LEMMA DropBlankText ==
  ASSUME NEW e \in Emitter
  PROVE  Text(e, DropBlank(e))
<1>1. CASE EndsWith(e, {" "})
  <2>1. Front(e.out) \in Seq(Symbol)
    BY <1>1, FrontAndLast DEF EndsWith, Emitter
  <2> QED BY <1>1, <2>1 DEF DropBlank, Text, Emitter
<1>2. CASE ~EndsWith(e, {" "})
  BY <1>2, TextItself DEF DropBlank
<1> QED BY <1>1, <1>2

\* The anchor and the tag of a node are text.
LEMMA PropsText ==
  ASSUME NEW e \in Emitter, NEW evt \in EmitterEvent
  PROVE  Text(e, EmitProps(e, evt))
<1> DEFINE anchor == IF evt.anchor THEN <<"&", " ">> ELSE <<>>
<1> DEFINE tag == IF evt.tag # "none" THEN <<"!", " ">> ELSE <<>>
<1>1. <<"&", " ">> \in Seq(Symbol) /\ <<"!", " ">> \in Seq(Symbol) /\ <<>> \in Seq(Symbol)
  BY DEF Symbol
<1>2. anchor \o tag \in Seq(Symbol)
  <2>1. anchor \in Seq(Symbol) /\ tag \in Seq(Symbol)
    BY <1>1, Zenon
  <2> HIDE DEF anchor, tag
  <2> QED BY <2>1, ConcatProperties
<1>3. Text(e, Put(e, anchor \o tag))
  BY <1>2, PutText
<1>4. HasProps(evt) \in BOOLEAN
  BY DEF HasProps, EmitterEvent
<1> HIDE DEF anchor, tag
<1>5. EmitProps(e, evt) = [Put(e, anchor \o tag) EXCEPT !.wrote_props = HasProps(evt)]
  BY DEF EmitProps, anchor, tag
<1> QED BY <1>3, <1>4, <1>5 DEF Text, Emitter

\* So are the properties of a block collection.
LEMMA BlockPropsText ==
  ASSUME NEW e \in Emitter, NEW evt \in EmitterEvent, NEW after_key
  PROVE  Text(e, BlockCollectionProps(e, evt, after_key))
<1> DEFINE f == IF after_key THEN Put(e, <<" ">>) ELSE e
<1>1. <<" ">> \in Seq(Symbol)
  BY DEF Symbol
<1>2. Text(e, f)
  BY <1>1, PutText, TextItself
<1>3. f \in Emitter
  BY <1>2 DEF Text
<1> HIDE DEF f
<1>4. Text(f, EmitProps(f, evt)) /\ EmitProps(f, evt) \in Emitter
  BY <1>3, PropsText DEF Text
<1>5. Text(e, DropBlank(EmitProps(f, evt)))
  BY <1>2, <1>4, DropBlankText, TextTransitive
<1> QED BY <1>5, TextItself DEF BlockCollectionProps, f

\* And the ',' of a flow collection.
LEMMA EntrySeparatorText ==
  ASSUME NEW e \in Emitter
  PROVE  Text(e, EntrySeparator(e))
<1>1. <<",">> \in Seq(Symbol) /\ <<",", " ">> \in Seq(Symbol)
  BY DEF Symbol
<1> QED BY <1>1, PutText, TextItself DEF EntrySeparator

\* And the value of a scalar.
LEMMA ValueText ==
  ASSUME NEW e \in Emitter, NEW evt \in EmitterEvent
  PROVE  Text(e, EmitValue(e, evt))
<1>1. /\ <<"~">> \in Seq(Symbol) /\ <<"WORD">> \in Seq(Symbol)
      /\ <<"QUOTED">> \in Seq(Symbol) /\ <<"LITERAL", "\n">> \in Seq(Symbol)
  BY DEF Symbol
<1>2. Text(e, EmptyPlain(e))
  BY <1>1, PutText, DropBlankText, TextItself DEF EmptyPlain
<1>3. ASSUME NEW flow_ctx, NEW is_key
      PROVE  ChooseStyle(evt, flow_ctx, is_key) \in {"PLAIN", "QUOTED", "LITERAL"}
  BY DEF ChooseStyle
<1> DEFINE style == ChooseStyle(evt, InAnyFlow(e) \/ e.style # "BLOCK", AtKey(e))
<1>4. style \in {"PLAIN", "QUOTED", "LITERAL"}
  BY <1>3
<1> HIDE DEF style
<1>5. EmitValue(e, evt) =
        CASE style = "PLAIN" /\ evt.value = "EMPTY" -> EmptyPlain(e)
          [] style = "PLAIN" /\ evt.value # "EMPTY" -> Put(e, <<"WORD">>)
          [] style = "QUOTED" -> Put(e, <<"QUOTED">>)
          [] style = "LITERAL" -> Put(e, <<"LITERAL", "\n">>)
  BY DEF EmitValue, style
<1>6. EmitValue(e, evt) \in {EmptyPlain(e), Put(e, <<"WORD">>), Put(e, <<"QUOTED">>),
                              Put(e, <<"LITERAL", "\n">>)}
  BY <1>4, <1>5
<1> QED BY <1>1, <1>2, <1>6, PutText

-----------------------------------------------------------------------------
(***************************************************************************)
(* Contexts.                                                               *)
(***************************************************************************)

\* All but the last of the contexts are the same.
SameBelow(s, t) ==
  Len(t) = Len(s) /\ \A i \in 1..Len(s) - 1 : t[i] = s[i]

\* The last context is changed, and no other.
LEMMA SetTopContext ==
  ASSUME NEW e \in Emitter, e.stack # <<>>, NEW ctx \in Context
  PROVE  LET f == SetTop(e, ctx)
         IN  /\ f \in Emitter /\ f = [e EXCEPT !.stack = f.stack]
             /\ SameBelow(e.stack, f.stack) /\ f.stack # <<>>
             /\ f.stack[Len(f.stack)] = ctx /\ Last(f.stack) = ctx
<1> DEFINE stack == Append(Front(e.stack), ctx)
<1>1. e.stack \in Seq(Context)
  BY DEF Emitter
<1>2. /\ Len(e.stack) \in Nat \ {0} /\ Front(e.stack) \in Seq(Context)
      /\ Len(Front(e.stack)) = Len(e.stack) - 1
      /\ \A i \in 1..Len(e.stack) - 1 : Front(e.stack)[i] = e.stack[i]
  BY <1>1, FrontAndLast
<1>3. /\ stack \in Seq(Context) /\ Len(stack) = Len(e.stack) /\ stack[Len(stack)] = ctx
      /\ \A i \in 1..Len(e.stack) - 1 : stack[i] = e.stack[i]
  BY <1>2, AppendProperties
<1> HIDE DEF stack
<1>4. stack # <<>> /\ Last(stack) = ctx
  BY <1>2, <1>3, EmptySeq DEF Last
<1>5. SetTop(e, ctx) = [e EXCEPT !.stack = stack] /\ SetTop(e, ctx).stack = stack
  BY DEF SetTop, stack, Emitter
<1>6. SetTop(e, ctx) \in Emitter
  BY <1>3, <1>5 DEF Emitter
<1> QED BY <1>3, <1>4, <1>5, <1>6 DEF SameBelow

\* A context is added above the others.
LEMMA PushContext ==
  ASSUME NEW e \in Emitter, NEW ctx \in Context
  PROVE  LET s == Append(e.stack, ctx)
         IN  /\ s \in Seq(Context) /\ s # <<>> /\ Len(s) = Len(e.stack) + 1 /\ Len(e.stack) \in Nat
             /\ Last(s) = ctx /\ s[Len(e.stack) + 1] = ctx
             /\ \A i \in 1..Len(e.stack) : s[i] = e.stack[i]
<1>1. e.stack \in Seq(Context) /\ Len(e.stack) \in Nat
  BY DEF Emitter
<1> DEFINE s == Append(e.stack, ctx)
<1>2. /\ s \in Seq(Context) /\ Len(s) = Len(e.stack) + 1 /\ s[Len(e.stack) + 1] = ctx
      /\ \A i \in 1..Len(e.stack) : s[i] = e.stack[i]
  BY <1>1, AppendProperties
<1> HIDE DEF s
<1>3. s # <<>> /\ Last(s) = ctx
  BY <1>1, <1>2, EmptySeq DEF Last
<1> QED BY <1>1, <1>2, <1>3 DEF s

\* A text does not move the contexts; only the end of a "- " can be lost.
LEMMA TextContexts ==
  ASSUME NEW e, NEW f, Text(e, f)
  PROVE  /\ f.stack = e.stack /\ (AtKey(f) <=> AtKey(e)) /\ (AtBlockKey(f) <=> AtBlockKey(e))
         /\ (AtBlockValue(f) <=> AtBlockValue(e)) /\ (KeysOpen(f) <=> KeysOpen(e))
         /\ (InAnyFlow(f) <=> InAnyFlow(e))
BY DEF Text, AtKey, AtBlockKey, AtBlockValue, KeysOpen, InContext, InAnyFlow

\* What advance_ctx makes of the last context.
Advanced(ctx, after) ==
  /\ after.type = ctx.type /\ after.complex_key = ctx.complex_key
  /\ ctx.type \in MapTypes => after.expect_key = ~ctx.expect_key
  /\ ctx.type \notin MapTypes => after.expect_key = ctx.expect_key
  /\ (ctx.type \in MapTypes => ~ctx.expect_key) => after.count = ctx.count + 1

\* What advance_ctx does to the last context, and to the flags.
LEMMA AdvanceMoves ==
  ASSUME NEW e \in Emitter, e.stack # <<>>
  PROVE  LET f == AdvanceContext(e)
         IN  /\ f \in Emitter /\ SameBelow(e.stack, f.stack) /\ f.stack # <<>>
             /\ Advanced(Last(e.stack), Last(f.stack)) /\ Last(f.stack) = f.stack[Len(f.stack)]
             /\ ~f.after_seq_dash /\ f.key_was_alias = e.key_was_alias
             /\ f.style = e.style /\ f.indent = e.indent /\ f.first_doc = e.first_doc
             /\ f.out = e.out
<1> DEFINE ctx == Last(e.stack)
           toggled == IF ctx.type \in MapTypes THEN ~ctx.expect_key ELSE ctx.expect_key
           entry_ends == ctx.type \in MapTypes => ~ctx.expect_key
           count == IF entry_ends THEN ctx.count + 1 ELSE ctx.count
           next == [ctx EXCEPT !.expect_key = toggled, !.count = count]
<1>1. e.stack \in Seq(Context)
  BY DEF Emitter
<1>2. ctx \in Context
  BY <1>1, FrontAndLast
<1> HIDE DEF ctx
<1>3. toggled \in BOOLEAN /\ count \in Nat
  <2>1. ctx.expect_key \in BOOLEAN /\ ctx.count \in Nat
    BY <1>2 DEF Context
  <2>2. toggled \in BOOLEAN
    BY <2>1, Zenon
  <2> HIDE DEF entry_ends
  <2>3. count \in Nat
    BY <2>1
  <2> QED BY <2>2, <2>3
<1> HIDE DEF toggled, count
<1>4. next \in Context /\ next.expect_key = toggled /\ next.type = ctx.type
      /\ next.complex_key = ctx.complex_key /\ next.count = count
  BY <1>2, <1>3 DEF Context
<1>5. Advanced(ctx, next)
  BY <1>2, <1>4 DEF Advanced, toggled, count
<1> HIDE DEF next
<1>6. AdvanceContext(e) = [SetTop(e, next) EXCEPT !.after_seq_dash = FALSE]
  BY DEF AdvanceContext, next, ctx, toggled, entry_ends, count
<1>7. /\ SetTop(e, next) \in Emitter /\ SetTop(e, next) = [e EXCEPT !.stack = SetTop(e, next).stack]
      /\ SameBelow(e.stack, SetTop(e, next).stack) /\ SetTop(e, next).stack # <<>>
      /\ Last(SetTop(e, next).stack) = next
      /\ SetTop(e, next).stack[Len(SetTop(e, next).stack)] = next
  BY <1>4, SetTopContext
<1>8. AdvanceContext(e) \in Emitter /\ AdvanceContext(e).stack = SetTop(e, next).stack
  BY <1>6, <1>7 DEF Emitter
<1> QED BY <1>5, <1>6, <1>7, <1>8 DEF Emitter, ctx

-----------------------------------------------------------------------------
(***************************************************************************)
(* Before a node.                                                          *)
(***************************************************************************)

\* f is e with a node begun: the contexts are where they were, but for the
\* "? key" of the last, which is over, or begins.
Begun(e, f) ==
  /\ f \in Emitter /\ Len(f.stack) = Len(e.stack) /\ f.first_doc = e.first_doc
  /\ \A i \in 1..Len(e.stack) :
       /\ f.stack[i].type = e.stack[i].type /\ f.stack[i].expect_key = e.stack[i].expect_key
       /\ f.stack[i].count = e.stack[i].count
  /\ \A i \in 1..Len(e.stack) - 1 : f.stack[i].complex_key = e.stack[i].complex_key
  /\ f.stack # <<>> => (Last(f.stack).complex_key => AtBlockKey(f))
  /\ f.after_seq_dash => f.stack # <<>>

\* The properties and the text of the node may follow.
Ready(f) ==
  /\ ~f.key_was_alias
  /\ f.stack # <<>> => ~Last(f.stack).complex_key
  /\ f.after_seq_dash /\ ~AtBlockKey(f) /\ ~InAnyFlow(f) => EndsInDash(f)

\* The last context is there unless there is none.
LEMMA LastContext ==
  ASSUME NEW e \in Emitter
  PROVE  /\ e.stack \in Seq(Context) /\ Len(e.stack) \in Nat
         /\ (e.stack = <<>>) <=> (Len(e.stack) = 0)
         /\ \A i \in 1..Len(e.stack) : e.stack[i] \in Context
         /\ e.stack # <<>> => /\ Last(e.stack) = e.stack[Len(e.stack)]
                              /\ Last(e.stack) \in Context
                              /\ Len(e.stack) \in 1..Len(e.stack)
<1>1. e.stack \in Seq(Context)
  BY DEF Emitter
<1>2. Len(e.stack) \in Nat /\ (e.stack = <<>> <=> Len(e.stack) = 0)
  BY <1>1, EmptySeq
<1>3. \A i \in 1..Len(e.stack) : e.stack[i] \in Context
  BY <1>1, ElementOfSeq
<1>4. CASE e.stack = <<>>
  BY <1>1, <1>2, <1>3, <1>4
<1>5. CASE e.stack # <<>>
  <2>1. Last(e.stack) = e.stack[Len(e.stack)] /\ Len(e.stack) \in 1..Len(e.stack)
    BY <1>2, <1>5 DEF Last
  <2> QED BY <1>1, <1>2, <1>3, <2>1
<1> QED BY <1>4, <1>5

\* The blank after an alias that is a key; its flag is over.
LEMMA AfterAliasKeyText ==
  ASSUME NEW e \in Emitter
  PROVE  LET f == AfterAliasKey(e)
         IN  /\ f \in Emitter /\ f.stack = e.stack /\ f.style = e.style /\ f.indent = e.indent
             /\ f.after_seq_dash = e.after_seq_dash /\ ~f.key_was_alias
             /\ f.first_doc = e.first_doc
<1>1. <<" ">> \in Seq(Symbol)
  BY DEF Symbol
<1>2. Text(e, Put(e, <<" ">>))
  BY <1>1, PutText
<1>3. CASE e.key_was_alias
  BY <1>2, <1>3 DEF AfterAliasKey, Text, Emitter
<1>4. CASE ~e.key_was_alias
  BY <1>4 DEF AfterAliasKey
<1> QED BY <1>3, <1>4

\* An unchanged stack without a "? key" on top is a node begun.
LEMMA StackBegun ==
  ASSUME NEW e \in Emitter, NEW f \in Emitter, f.stack = e.stack, f.first_doc = e.first_doc,
         f.stack # <<>> => ~Last(f.stack).complex_key,
         f.after_seq_dash => f.stack # <<>>
  PROVE  Begun(e, f)
BY DEF Begun

\* The ':' of a block mapping.
LEMMA BeforeValueReady ==
  ASSUME NEW e, Settled(e), AtBlockValue(e), NEW is_collection
  PROVE  LET f == BeforeValue(e, is_collection)
         IN  /\ Begun(e, f) /\ Ready(f) /\ f.style = e.style /\ f.indent = e.indent
             /\ ~f.after_seq_dash
<1> DEFINE ctx == Last(e.stack)
           over == [ctx EXCEPT !.complex_key = FALSE]
           line == NewLineAt(e, ctx.indent)
           at == IF ctx.complex_key THEN SetTop(line, over) ELSE e
           colon == IF is_collection THEN <<":">> ELSE <<":", " ">>
           f == BeforeValue(e, is_collection)
<1>1. e \in Emitter /\ e.stack # <<>> /\ ~e.after_seq_dash
  BY DEF Settled, DashInPlace, AtBlockValue, InContext
<1>2. ctx \in Context /\ ctx.indent \in Nat
  BY <1>1, LastContext DEF Context
<1>3. over \in Context /\ over.type = ctx.type /\ over.expect_key = ctx.expect_key
      /\ ~over.complex_key /\ over.count = ctx.count
  BY <1>2 DEF Context
<1>4. Text(e, line) /\ line \in Emitter /\ line.stack = e.stack
  BY <1>1, <1>2, NewLineAtText DEF Text
<1> HIDE DEF over, line
<1>5. /\ at \in Emitter /\ at.style = e.style /\ at.indent = e.indent /\ ~at.after_seq_dash
      /\ at.first_doc = e.first_doc /\ Last(at.stack).count = ctx.count
      /\ SameBelow(e.stack, at.stack) /\ at.stack # <<>> /\ ~Last(at.stack).complex_key
      /\ Last(at.stack).type = ctx.type /\ Last(at.stack).expect_key = ctx.expect_key
  <2>1. CASE ctx.complex_key
    <3>1. LET g == SetTop(line, over)
          IN  /\ g \in Emitter /\ g = [line EXCEPT !.stack = g.stack]
              /\ SameBelow(e.stack, g.stack) /\ g.stack # <<>> /\ Last(g.stack) = over
      BY <1>1, <1>3, <1>4, SetTopContext
    <3>2. LET g == SetTop(line, over)
          IN  g.style = line.style /\ g.indent = line.indent /\ g.first_doc = line.first_doc
              /\ g.after_seq_dash = line.after_seq_dash
      BY <1>4, <3>1 DEF Emitter
    <3> QED BY <2>1, <1>1, <1>3, <1>4, <3>1, <3>2 DEF Text
  <2>2. CASE ~ctx.complex_key
    BY <2>2, <1>1 DEF SameBelow
  <2> QED BY <2>1, <2>2
<1> HIDE DEF at
<1>6. LET g == AfterAliasKey(at)
      IN  /\ g \in Emitter /\ g.stack = at.stack /\ g.style = at.style /\ g.indent = at.indent
          /\ g.after_seq_dash = at.after_seq_dash /\ ~g.key_was_alias
          /\ g.first_doc = at.first_doc
  BY <1>5, AfterAliasKeyText
<1>7. <<":">> \in Seq(Symbol) /\ <<":", " ">> \in Seq(Symbol)
  BY DEF Symbol
<1>8. f = Put(AfterAliasKey(at), colon) /\ colon \in Seq(Symbol)
  BY <1>7 DEF BeforeValue, at, line, over
<1> HIDE DEF colon, f
<1>9. Text(AfterAliasKey(at), f)
  BY <1>6, <1>8, PutText
<1>10. /\ f \in Emitter /\ f.stack = at.stack /\ f.style = e.style /\ f.indent = e.indent
       /\ ~f.after_seq_dash /\ ~f.key_was_alias /\ f.first_doc = e.first_doc
  BY <1>5, <1>6, <1>9 DEF Text
<1>11. Ready(f)
  BY <1>5, <1>10 DEF Ready
<1>12. Begun(e, f)
  <2>1. Len(f.stack) = Len(e.stack) /\ \A i \in 1..Len(e.stack) - 1 : f.stack[i] = e.stack[i]
    BY <1>5, <1>10 DEF SameBelow
  <2>2. /\ f.stack[Len(e.stack)].type = e.stack[Len(e.stack)].type
        /\ f.stack[Len(e.stack)].expect_key = e.stack[Len(e.stack)].expect_key
        /\ f.stack[Len(e.stack)].count = e.stack[Len(e.stack)].count
    BY <1>1, <1>5, <1>10, <2>1, LastContext
  <2>3. ASSUME NEW i \in 1..Len(e.stack)
        PROVE  /\ f.stack[i].type = e.stack[i].type /\ f.stack[i].expect_key = e.stack[i].expect_key
               /\ f.stack[i].count = e.stack[i].count
    <3>1. i = Len(e.stack) \/ i \in 1..Len(e.stack) - 1
      BY <1>1, LastContext
    <3> QED BY <3>1, <2>1, <2>2
  <2> QED BY <1>5, <1>10, <2>1, <2>3 DEF Begun
<1> QED BY <1>10, <1>11, <1>12 DEF f

\* Text alone makes an unchanged state ready.
LEMMA TextReady ==
  ASSUME NEW e, Settled(e), NEW f, Text(e, f), ~AtBlockValue(e), ~e.key_was_alias,
         e.after_seq_dash => AtBlockKey(e) \/ InAnyFlow(e)
  PROVE  Begun(e, f) /\ Ready(f) /\ f.style = e.style /\ f.indent = e.indent
<1>1. e \in Emitter /\ f \in Emitter /\ f.stack = e.stack /\ f.first_doc = e.first_doc
  BY DEF Settled, Text
<1>2. f.stack # <<>> => ~Last(f.stack).complex_key
  BY <1>1, LastContext DEF Settled, KeysOpen, AtBlockValue, InContext
<1>3. f.after_seq_dash => f.stack # <<>>
  BY <1>1 DEF Settled, DashInPlace, Text
<1>4. Begun(e, f)
  BY <1>1, <1>2, <1>3, StackBegun
<1>5. f.after_seq_dash => AtBlockKey(f) \/ InAnyFlow(f)
  BY TextContexts DEF Text
<1> QED BY <1>2, <1>4, <1>5 DEF Ready, Text

\* A new line for a key, unless it follows a "- ".
LEMMA BeforeKeyText ==
  ASSUME NEW e, Settled(e), AtBlockKey(e)
  PROVE  Text(e, BeforeKey(e))
<1>1. e \in Emitter /\ e.stack # <<>>
  BY DEF Settled, AtBlockKey, InContext
<1>2. Last(e.stack).indent \in Nat
  BY <1>1, LastContext DEF Context
<1> QED BY <1>1, <1>2, NewLineAtText, TextItself DEF BeforeKey

\* The "- " of a block sequence.
LEMMA BeforeEntryReady ==
  ASSUME NEW e, Settled(e), InContext(e, {"BLOCK_SEQ"})
  PROVE  LET f == BeforeEntry(e)
         IN  Begun(e, f) /\ Ready(f) /\ f.style = e.style /\ f.indent = e.indent
<1> DEFINE line == NewLineAt(e, Last(e.stack).indent)
           put == Put(line, <<"-", " ">>)
           f == BeforeEntry(e)
<1>1. e \in Emitter /\ e.stack # <<>> /\ Last(e.stack).type = "BLOCK_SEQ"
  BY DEF Settled, InContext
<1>2. Last(e.stack).indent \in Nat
  BY <1>1, LastContext DEF Context
<1>3. Text(e, line) /\ line \in Emitter
  BY <1>1, <1>2, NewLineAtText DEF Text
<1>4. <<"-", " ">> \in Seq(Symbol)
  BY DEF Symbol
<1> HIDE DEF line
<1>5. Text(line, put) /\ put.out = line.out \o <<"-", " ">>
  BY <1>3, <1>4, PutText
<1>6. Text(e, put)
  BY <1>3, <1>5, TextTransitive
<1>7. line.out \in Seq(Symbol) /\ Len(line.out) \in Nat
  BY <1>3 DEF Emitter
<1>8. EndsInDash(put)
  <2>1. "-" \in Symbol /\ " " \in Symbol
    BY Zenon DEF Symbol
  <2> QED BY <1>5, <1>7, <2>1, PairAtEnd, Zenon DEF EndsInDash
<1> HIDE DEF put
<1>9. f = [put EXCEPT !.after_seq_dash = TRUE]
  BY DEF BeforeEntry, put, line
<1>10. /\ f \in Emitter /\ f.stack = e.stack /\ f.style = e.style /\ f.indent = e.indent
       /\ f.key_was_alias = e.key_was_alias /\ f.first_doc = e.first_doc /\ EndsInDash(f)
  BY <1>6, <1>8, <1>9 DEF Text, Emitter, EndsInDash
<1>11. ~Last(f.stack).complex_key /\ ~f.key_was_alias
  BY <1>1, <1>10, LastContext
     DEF Settled, KeysOpen, AliasPending, InContext, MapTypes
<1>12. Begun(e, f)
  BY <1>1, <1>10, <1>11, StackBegun
<1> QED BY <1>10, <1>11, <1>12 DEF Ready

\* The ':' of a flow mapping.
LEMMA FlowValueReady ==
  ASSUME NEW e, Settled(e), InContext(e, {"FLOW_MAP"}), ~AtKey(e)
  PROVE  LET f == Put(AfterAliasKey(e), <<":", " ">>)
         IN  Begun(e, f) /\ Ready(f) /\ f.style = e.style /\ f.indent = e.indent
<1> DEFINE f == Put(AfterAliasKey(e), <<":", " ">>)
<1>1. e \in Emitter /\ e.stack # <<>> /\ Last(e.stack).type = "FLOW_MAP"
  BY DEF Settled, InContext
<1>2. <<":", " ">> \in Seq(Symbol)
  BY DEF Symbol
<1>3. /\ f \in Emitter /\ f.stack = e.stack /\ f.style = e.style /\ f.indent = e.indent
      /\ f.after_seq_dash = e.after_seq_dash /\ ~f.key_was_alias /\ f.first_doc = e.first_doc
  <2> DEFINE a == AfterAliasKey(e)
             symbols == <<":", " ">>
  <2>1. /\ a \in Emitter /\ a.stack = e.stack /\ a.style = e.style /\ a.indent = e.indent
        /\ a.after_seq_dash = e.after_seq_dash /\ ~a.key_was_alias
        /\ a.first_doc = e.first_doc
    BY <1>1, AfterAliasKeyText
  <2>2. f = Put(a, symbols) /\ symbols \in Seq(Symbol)
    BY <1>2
  <2> HIDE DEF f, a, symbols
  <2>3. Text(a, f)
    BY <2>1, <2>2, PutText
  <2> QED BY <2>1, <2>3 DEF Text
<1>4. ~Last(f.stack).complex_key
  BY <1>1, <1>3, LastContext DEF Settled, KeysOpen
<1>5. InAnyFlow(f)
  BY <1>1, <1>3, LastContext DEF InAnyFlow, FlowTypes
<1> QED BY <1>1, <1>3, <1>4, <1>5, StackBegun DEF Ready

\* emit_pre_node, in each context: a node is begun.
LEMMA PreNodeReady ==
  ASSUME NEW e, Settled(e), NEW is_collection
  PROVE  LET f == EmitPreNode(e, is_collection)
         IN  Begun(e, f) /\ Ready(f) /\ f.style = e.style /\ f.indent = e.indent
<1> DEFINE f == EmitPreNode(e, is_collection)
<1>1. e \in Emitter
  BY DEF Settled
<1>2. e.stack # <<>> => Last(e.stack).type \in MapTypes \cup FlowTypes \cup {"BLOCK_SEQ"}
  BY <1>1, LastContext DEF Context
<1>3. CASE e.stack = <<>>
  <2>1. f = NewLine(e)
    BY <1>3 DEF EmitPreNode, AtBlockKey, AtBlockValue, InContext
  <2>2. Text(e, f)
    BY <1>1, <2>1, NewLineText
  <2>3. ~AtBlockValue(e) /\ ~e.key_was_alias /\ ~e.after_seq_dash
    BY <1>3 DEF AtBlockValue, InContext, Settled, AliasPending, DashInPlace
  <2> QED BY <2>2, <2>3, TextReady
<1>4. CASE AtBlockKey(e)
  <2>1. f = BeforeKey(e)
    BY <1>4 DEF EmitPreNode, AtBlockKey, AtBlockValue, InContext
  <2>2. Text(e, f)
    BY <1>4, <2>1, BeforeKeyText
  <2>3. ~AtBlockValue(e) /\ ~e.key_was_alias
    BY <1>4 DEF AtBlockKey, AtBlockValue, InContext, AtKey, Settled, AliasPending, MapTypes
  <2> QED BY <1>4, <2>2, <2>3, TextReady
<1>5. CASE AtBlockValue(e)
  <2>1. f = BeforeValue(e, is_collection)
    BY <1>5 DEF EmitPreNode, AtBlockKey, AtBlockValue, InContext
  <2> QED BY <1>5, <2>1, BeforeValueReady
<1>6. CASE InContext(e, {"BLOCK_SEQ"})
  <2>1. f = BeforeEntry(e)
    BY <1>6 DEF EmitPreNode, AtBlockKey, AtBlockValue, InContext
  <2> QED BY <1>6, <2>1, BeforeEntryReady
<1>7. CASE InContext(e, {"FLOW_MAP"}) /\ ~AtKey(e)
  <2>1. f = Put(AfterAliasKey(e), <<":", " ">>)
    BY <1>7 DEF EmitPreNode, AtBlockKey, AtBlockValue, InContext
  <2> QED BY <1>7, <2>1, FlowValueReady
<1>8. CASE \/ InContext(e, {"FLOW_SEQ"})
           \/ InContext(e, {"FLOW_MAP"}) /\ AtKey(e)
  <2>1. f = EntrySeparator(e) /\ Text(e, f)
    BY <1>1, <1>8, EntrySeparatorText DEF EmitPreNode, AtBlockKey, AtBlockValue, InContext
  <2>2. ~AtBlockValue(e) /\ ~e.key_was_alias
    BY <1>8 DEF AtBlockValue, InContext, AtKey, Settled, AliasPending, MapTypes
  <2>3. InAnyFlow(e)
    BY <1>1, <1>8, LastContext DEF InAnyFlow, FlowTypes, InContext
  <2> QED BY <2>1, <2>2, <2>3, TextReady
<1> QED BY <1>2, <1>3, <1>4, <1>5, <1>6, <1>7, <1>8
       DEF InContext, AtBlockKey, AtBlockValue, AtKey, MapTypes, FlowTypes

-----------------------------------------------------------------------------
(***************************************************************************)
(* A node.                                                                 *)
(***************************************************************************)

\* The levels of the contexts t are those of s once a node has started in the
\* last; t may have one more.
NodeIn(s, t) ==
  /\ Len(t) >= Len(s)
  /\ \A i \in 1..Len(s) - 1 : LevelOf(t[i]) = LevelOf(s[i])
  /\ s # <<>> => LevelOf(t[Len(s)]) = Stream!AfterNode(LevelOf(s[Len(s)]))

\* The level a context stands for.
LEMMA LevelTypes ==
  ASSUME NEW ctx
  PROVE  /\ LevelOf(ctx) \in {"SEQ", "KEY", "VALUE"}
         /\ (LevelOf(ctx) = "SEQ") <=> (ctx.type \notin MapTypes)
         /\ (LevelOf(ctx) = "KEY") <=> (ctx.type \in MapTypes /\ ctx.expect_key)
         /\ (LevelOf(ctx) = "VALUE") <=> (ctx.type \in MapTypes /\ ~ctx.expect_key)
BY DEF LevelOf

\* advance_ctx moves the level as a node moves the stream's.
LEMMA AdvancedLevel ==
  ASSUME NEW ctx, NEW after, Advanced(ctx, after)
  PROVE  LevelOf(after) = Stream!AfterNode(LevelOf(ctx))
<1>1. CASE LevelOf(ctx) = "SEQ"
  <2>1. LevelOf(after) = "SEQ"
    BY <1>1, LevelTypes DEF Advanced
  <2> QED BY <1>1, <2>1 DEF Stream!AfterNode
<1>2. CASE LevelOf(ctx) = "KEY"
  <2>1. LevelOf(after) = "VALUE"
    BY <1>2, LevelTypes DEF Advanced
  <2> QED BY <1>2, <2>1 DEF Stream!AfterNode
<1>3. CASE LevelOf(ctx) = "VALUE"
  <2>1. LevelOf(after) = "KEY"
    BY <1>3, LevelTypes DEF Advanced
  <2> QED BY <1>3, <2>1 DEF Stream!AfterNode
<1> QED BY <1>1, <1>2, <1>3, LevelTypes

\* advance_ctx, once a node has begun.
LEMMA AdvanceBegun ==
  ASSUME NEW e, Settled(e), NEW f, Begun(e, f), f.key_was_alias => AtKey(f)
  PROVE  LET g == AdvanceContext(f)
         IN  /\ Settled(g) /\ ~g.after_seq_dash /\ g.key_was_alias = f.key_was_alias
             /\ Len(g.stack) = Len(e.stack) /\ NodeIn(e.stack, g.stack)
             /\ g.style = f.style /\ g.indent = f.indent /\ g.first_doc = f.first_doc
<1> DEFINE g == AdvanceContext(f)
           n == Len(e.stack)
<1>1. e \in Emitter /\ f \in Emitter /\ n \in Nat /\ Len(f.stack) = n
      /\ (e.stack = <<>> <=> n = 0) /\ (f.stack = <<>> <=> n = 0)
  BY LastContext DEF Settled, Begun
<1>2. CASE f.stack = <<>>
  <2>1. g = f /\ ~f.after_seq_dash /\ ~f.key_was_alias
    BY <1>2 DEF AdvanceContext, Begun, AtKey, InContext
  <2>2. Settled(g)
    BY <1>1, <1>2, <2>1 DEF Settled, DashInPlace, KeysOpen, AliasPending
  <2> QED BY <1>1, <1>2, <2>1, <2>2 DEF NodeIn
<1>3. CASE f.stack # <<>>
  <2>1. /\ g \in Emitter /\ SameBelow(f.stack, g.stack) /\ g.stack # <<>>
        /\ Advanced(Last(f.stack), Last(g.stack)) /\ Last(g.stack) = g.stack[Len(g.stack)]
        /\ ~g.after_seq_dash /\ g.key_was_alias = f.key_was_alias
        /\ g.style = f.style /\ g.indent = f.indent /\ g.first_doc = f.first_doc
    BY <1>1, <1>3, AdvanceMoves
  <2> HIDE DEF g
  <2>2. /\ Len(g.stack) = n /\ n \in Nat \ {0} /\ Last(f.stack) = f.stack[n]
        /\ Last(f.stack) \in Context /\ Last(g.stack) = g.stack[n]
        /\ \A i \in 1..n - 1 : g.stack[i] = f.stack[i]
    BY <1>1, <1>3, <2>1, LastContext DEF SameBelow
  <2>3. DashInPlace(g)
    BY <2>1 DEF DashInPlace
  <2>4. Last(f.stack).complex_key => Last(f.stack).type = "BLOCK_MAP" /\ Last(f.stack).expect_key
    BY <1>3 DEF Begun, AtBlockKey, InContext
  <2>5. Last(g.stack).complex_key => Last(g.stack).type = "BLOCK_MAP" /\ ~Last(g.stack).expect_key
    BY <2>1, <2>4 DEF Advanced, MapTypes
  <2>6. KeysOpen(g)
    <3>1. ASSUME NEW i \in 1..n, g.stack[i].complex_key
          PROVE  g.stack[i].type = "BLOCK_MAP" /\ ~g.stack[i].expect_key
      <4>1. CASE i = n
        BY <2>2, <2>5, <3>1, <4>1
      <4>2. CASE i \in 1..n - 1
        BY <2>2, <3>1, <4>2 DEF Begun, Settled, KeysOpen
      <4> QED BY <2>2, <4>1, <4>2
    <3> QED BY <2>2, <3>1 DEF KeysOpen
  <2>7. AliasPending(g)
    BY <1>3, <2>1 DEF AliasPending, AtKey, InContext, Advanced
  <2>8. NodeIn(e.stack, g.stack)
    <3>1. ASSUME NEW i \in 1..n
          PROVE  LevelOf(f.stack[i]) = LevelOf(e.stack[i])
      BY DEF Begun, LevelOf
    <3>2. LevelOf(g.stack[n]) = Stream!AfterNode(LevelOf(f.stack[n]))
      BY <2>1, <2>2, AdvancedLevel
    <3> QED BY <2>2, <3>1, <3>2 DEF NodeIn
  <2> QED BY <2>1, <2>2, <2>3, <2>6, <2>7, <2>8 DEF Settled, g
<1> QED BY <1>2, <1>3

\* push_ctx, and advance_ctx for the parent.
LEMMA OpenBegun ==
  ASSUME NEW e, Settled(e), NEW f, Begun(e, f), ~f.key_was_alias,
         NEW type \in MapTypes \cup FlowTypes \cup {"BLOCK_SEQ"}, NEW indent \in Nat,
         f.after_seq_dash /\ type = "BLOCK_MAP" => EndsInDash(f)
  PROVE  LET g == OpenContext(f, type, indent)
         IN  /\ Settled(g) /\ Len(g.stack) = Len(e.stack) + 1 /\ NodeIn(e.stack, g.stack)
             /\ LevelOf(g.stack[Len(e.stack) + 1]) = IF type \in MapTypes THEN "KEY" ELSE "SEQ"
             /\ g.first_doc = f.first_doc
<1> DEFINE a == AdvanceContext(f)
           ctx == NewContext(type, indent)
           g == OpenContext(f, type, indent)
           n == Len(e.stack)
<1>1. /\ Settled(a) /\ a \in Emitter /\ ~a.key_was_alias /\ Len(a.stack) = n
      /\ NodeIn(e.stack, a.stack) /\ a.first_doc = f.first_doc
  BY AdvanceBegun DEF Settled
<1>2. f \in Emitter /\ n \in Nat
  BY LastContext DEF Settled, Begun
<1>3. a.out = f.out
  BY <1>2 DEF AdvanceContext, SetTop, Emitter
<1>4. /\ ctx \in Context /\ ctx.type = type /\ ctx.count = 0 /\ ~ctx.complex_key
      /\ ctx.expect_key = (type \in MapTypes)
  BY DEF NewContext, Context
<1>5. g = [a EXCEPT !.stack = Append(@, ctx), !.after_seq_dash = f.after_seq_dash]
  BY DEF OpenContext
<1> HIDE DEF a, ctx, g
<1>6. /\ Append(a.stack, ctx) \in Seq(Context) /\ Append(a.stack, ctx) # <<>>
      /\ Len(Append(a.stack, ctx)) = n + 1 /\ Last(Append(a.stack, ctx)) = ctx
      /\ Append(a.stack, ctx)[n + 1] = ctx
      /\ \A i \in 1..n : Append(a.stack, ctx)[i] = a.stack[i]
  BY <1>1, <1>4, PushContext
<1>7. /\ g \in Emitter /\ g.stack = Append(a.stack, ctx) /\ ~g.key_was_alias
      /\ g.after_seq_dash = f.after_seq_dash /\ g.out = f.out /\ g.first_doc = f.first_doc
  BY <1>1, <1>2, <1>3, <1>5, <1>6 DEF Emitter
<1>8. DashInPlace(g)
  <2>1. EndsInDash(f) => EndsInDash(g)
    BY <1>7, Zenon DEF EndsInDash
  <2>2. g.stack # <<>> /\ Last(g.stack) = ctx
    BY <1>6, <1>7
  <2>3. ~AtBlockValue(g) /\ (AtBlockKey(g) => type = "BLOCK_MAP")
    BY <1>4, <2>2 DEF AtBlockValue, AtBlockKey, InContext, MapTypes
  <2> QED BY <1>4, <1>7, <2>1, <2>2, <2>3 DEF DashInPlace
<1>9. KeysOpen(g)
  <2>1. ASSUME NEW i \in 1..n + 1, g.stack[i].complex_key
        PROVE  g.stack[i].type = "BLOCK_MAP" /\ ~g.stack[i].expect_key
    <3>1. i \in 1..n
      BY <1>2, <1>4, <1>6, <1>7, <2>1
    <3> QED BY <1>1, <1>6, <1>7, <2>1, <3>1 DEF Settled, KeysOpen
  <2> QED BY <1>6, <1>7, <2>1 DEF KeysOpen
<1>10. NodeIn(e.stack, g.stack)
  BY <1>1, <1>2, <1>6, <1>7, LastContext DEF NodeIn, Settled
<1>11. LevelOf(g.stack[n + 1]) = IF type \in MapTypes THEN "KEY" ELSE "SEQ"
  BY <1>4, <1>6, <1>7, LevelTypes
<1> QED BY <1>6, <1>7, <1>8, <1>9, <1>10, <1>11 DEF Settled, AliasPending, g

\* A node stays begun when text is added.
LEMMA BegunText ==
  ASSUME NEW e, NEW f, Begun(e, f), NEW g, Text(f, g)
  PROVE  Begun(e, g)
BY TextContexts DEF Begun, Text

\* A node begun is where it was.
LEMMA BegunPlace ==
  ASSUME NEW e \in Emitter, NEW f, Begun(e, f)
  PROVE  (AtKey(f) <=> AtKey(e)) /\ (InAnyFlow(f) <=> InAnyFlow(e))
<1>1. f \in Emitter /\ (e.stack = <<>> <=> f.stack = <<>>) /\ Len(f.stack) = Len(e.stack)
  BY LastContext DEF Begun
<1>2. f.stack # <<>> => /\ Last(f.stack).type = Last(e.stack).type
                        /\ Last(f.stack).expect_key = Last(e.stack).expect_key
  BY <1>1, LastContext DEF Begun
<1>3. AtKey(f) <=> AtKey(e)
  BY <1>1, <1>2 DEF AtKey, InContext
<1>4. InAnyFlow(f) <=> InAnyFlow(e)
  BY <1>1 DEF InAnyFlow, Begun
<1> QED BY <1>3, <1>4

\* What a call leaves: a node more in the last collection, and with starts a
\* collection of its own.
LeafDone(e, r) ==
  /\ Settled(r) /\ Len(r.stack) = Len(e.stack) /\ NodeIn(e.stack, r.stack)
  /\ r.first_doc = e.first_doc
StartDone(e, r, level) ==
  /\ Settled(r) /\ Len(r.stack) = Len(e.stack) + 1 /\ NodeIn(e.stack, r.stack)
  /\ LevelOf(r.stack[Len(e.stack) + 1]) = level /\ r.first_doc = e.first_doc

StartLevel(evt) == IF evt.type = "MAPPING_START" THEN "KEY" ELSE "SEQ"

\* A scalar is a node, whatever its style and place.
LEMMA ScalarDone ==
  ASSUME NEW e, Settled(e), NEW evt \in EmitterEvent
  PROVE  LeafDone(e, ScalarText(e, evt))
<1> DEFINE p == EmitPreNode(e, FALSE)
           q == EmitValue(EmitProps(p, evt), evt)
<1>1. Begun(e, p) /\ ~p.key_was_alias /\ p \in Emitter
  <2>1. Begun(e, p) /\ Ready(p)
    BY PreNodeReady
  <2> QED BY <2>1 DEF Ready, Begun
<1> HIDE DEF p
<1>2. Text(p, EmitProps(p, evt)) /\ EmitProps(p, evt) \in Emitter
  BY <1>1, PropsText DEF Text
<1>3. Text(p, q)
  BY <1>2, ValueText, TextTransitive
<1> HIDE DEF q
<1>4. Begun(e, q) /\ ~q.key_was_alias
  BY <1>1, <1>3, BegunText DEF Text
<1>5. q.first_doc = e.first_doc
  BY <1>4 DEF Begun
<1> QED BY <1>4, <1>5, AdvanceBegun DEF ScalarText, LeafDone, p, q

\* So is an alias.
LEMMA AliasDone ==
  ASSUME NEW e, Settled(e)
  PROVE  LeafDone(e, AliasText(e))
<1> DEFINE p == EmitPreNode(e, FALSE)
           named == [p EXCEPT !.key_was_alias = AtKey(e)]
           q == Put(named, <<"*">>)
<1>1. Begun(e, p) /\ p \in Emitter
  <2>1. Begun(e, p)
    BY PreNodeReady
  <2> QED BY <2>1 DEF Begun
<1> HIDE DEF p
<1>2. AtKey(e) \in BOOLEAN
  <2>1. e \in Emitter
    BY DEF Settled
  <2>2. e.stack # <<>> => Last(e.stack).expect_key \in BOOLEAN
    BY <2>1, LastContext DEF Context
  <2> QED BY <2>2 DEF AtKey, InContext
<1>3. named \in Emitter /\ named.stack = p.stack /\ named.key_was_alias = AtKey(e)
      /\ named.after_seq_dash = p.after_seq_dash /\ named.first_doc = p.first_doc
  BY <1>1, <1>2 DEF Emitter
<1> HIDE DEF named
<1>4. <<"*">> \in Seq(Symbol)
  BY DEF Symbol
<1>5. Text(named, q)
  BY <1>3, <1>4, PutText
<1> HIDE DEF q
<1>6. /\ q \in Emitter /\ q.stack = p.stack /\ q.key_was_alias = AtKey(e)
      /\ q.after_seq_dash = p.after_seq_dash /\ q.first_doc = p.first_doc
  BY <1>3, <1>5 DEF Text
<1>7. Begun(e, q)
  BY <1>1, <1>6 DEF Begun, AtBlockKey, InContext
<1>8. q.key_was_alias => AtKey(q)
  BY <1>6, <1>7, BegunPlace DEF Settled
<1>9. q.first_doc = e.first_doc
  BY <1>7 DEF Begun
<1> QED BY <1>7, <1>8, <1>9, AdvanceBegun DEF AliasText, LeafDone, p, named, q

\* The start of a flow collection.
LEMMA FlowStartDone ==
  ASSUME NEW e, Settled(e), NEW evt \in EmitterEvent
  PROVE  StartDone(e, FlowStartText(e, evt), StartLevel(evt))
<1> DEFINE p == EmitPreNode(e, FALSE)
           type == FlowType(evt)
           bracket == <<Brackets(type)[1]>>
           q == Put(EmitProps(p, evt), bracket)
<1>1. Begun(e, p) /\ ~p.key_was_alias /\ p \in Emitter
  <2>1. Begun(e, p) /\ Ready(p)
    BY PreNodeReady
  <2> QED BY <2>1 DEF Ready, Begun
<1> HIDE DEF p
<1>2. Text(p, EmitProps(p, evt)) /\ EmitProps(p, evt) \in Emitter
  BY <1>1, PropsText DEF Text
<1>3. bracket \in Seq(Symbol)
  <2>1. Brackets(type)[1] \in {"{", "["}
    BY DEF Brackets
  <2>2. Brackets(type)[1] \in Symbol
    BY <2>1 DEF Symbol
  <2> QED BY <2>2
<1> HIDE DEF bracket
<1>4. Text(p, q)
  BY <1>2, <1>3, PutText, TextTransitive
<1> HIDE DEF q
<1>5. Begun(e, q) /\ ~q.key_was_alias
  BY <1>1, <1>4, BegunText DEF Text
<1>6. /\ type \in FlowTypes /\ type # "BLOCK_MAP" /\ 0 \in Nat
      /\ StartLevel(evt) = IF type \in MapTypes THEN "KEY" ELSE "SEQ"
  BY DEF FlowType, FlowTypes, MapTypes, StartLevel
<1> HIDE DEF type
<1>7. StartDone(e, OpenContext(q, type, 0), StartLevel(evt))
  BY <1>5, <1>6, OpenBegun DEF StartDone, Begun
<1> QED BY <1>7 DEF FlowStartText, p, q, bracket, type

\* The "?" of a collection that is a key.
LEMMA ComplexKeyBegun ==
  ASSUME NEW e, Settled(e), NEW p, Begun(e, p), Ready(p), AtBlockKey(p),
         NEW evt \in EmitterEvent
  PROVE  LET f == ComplexKeyOpen(p, evt)
         IN  /\ Begun(e, f) /\ ~f.key_was_alias /\ ~f.after_seq_dash /\ f.indent = p.indent
             /\ Last(f.stack).complex_key
             /\ f.out = BlockCollectionProps(Put(p, <<"?">>), evt, TRUE).out
<1> DEFINE put == BlockCollectionProps(Put(p, <<"?">>), evt, TRUE)
           key == [Last(put.stack) EXCEPT !.complex_key = TRUE]
           g == SetTop(put, key)
           f == ComplexKeyOpen(p, evt)
<1>1. p \in Emitter /\ p.stack # <<>> /\ ~p.key_was_alias
  BY DEF Begun, Ready, AtBlockKey, InContext
<1>2. <<"?">> \in Seq(Symbol)
  BY DEF Symbol
<1>3. Text(p, put) /\ put \in Emitter /\ put.stack = p.stack
  <2>1. Text(p, Put(p, <<"?">>)) /\ Put(p, <<"?">>) \in Emitter
    BY <1>1, <1>2, PutText DEF Text
  <2>2. Text(Put(p, <<"?">>), put)
    BY <2>1, BlockPropsText
  <2> QED BY <2>1, <2>2, TextTransitive DEF Text
<1> HIDE DEF put
<1>4. Last(put.stack) \in Context /\ put.stack # <<>>
  BY <1>1, <1>3, LastContext
<1>5. key \in Context /\ key.type = Last(p.stack).type /\ key.expect_key = Last(p.stack).expect_key
      /\ key.count = Last(p.stack).count /\ key.complex_key
  BY <1>3, <1>4 DEF Context
<1> HIDE DEF key
<1>6. /\ g \in Emitter /\ g = [put EXCEPT !.stack = g.stack]
      /\ SameBelow(put.stack, g.stack) /\ g.stack # <<>>
      /\ g.stack[Len(g.stack)] = key /\ Last(g.stack) = key
  BY <1>3, <1>4, <1>5, SetTopContext
<1> HIDE DEF g
<1>7. g.key_was_alias = put.key_was_alias /\ g.indent = put.indent /\ g.first_doc = put.first_doc
      /\ g.out = put.out
  BY <1>3, <1>6 DEF Emitter
<1>8. f = [g EXCEPT !.after_seq_dash = FALSE]
  BY DEF ComplexKeyOpen, g, key, put
<1> HIDE DEF f
<1>9. /\ f \in Emitter /\ f.stack = g.stack /\ ~f.after_seq_dash /\ ~f.key_was_alias
      /\ f.indent = p.indent /\ f.first_doc = p.first_doc /\ f.out = put.out
  BY <1>1, <1>3, <1>6, <1>7, <1>8 DEF Emitter, Text
<1>10. AtBlockKey(f)
  BY <1>5, <1>6, <1>9 DEF AtBlockKey, InContext
<1>11. Begun(e, f)
  <2> DEFINE n == Len(e.stack)
  <2>1. /\ Len(f.stack) = n /\ n \in Nat \ {0} /\ Len(p.stack) = n /\ Last(p.stack) = p.stack[n]
        /\ \A i \in 1..n - 1 : f.stack[i] = p.stack[i]
        /\ f.stack[n] = key
    BY <1>1, <1>3, <1>6, <1>9, LastContext DEF SameBelow, Begun
  <2>2. ASSUME NEW i \in 1..n
        PROVE  /\ f.stack[i].type = p.stack[i].type /\ f.stack[i].expect_key = p.stack[i].expect_key
               /\ f.stack[i].count = p.stack[i].count
    <3>1. i = n \/ i \in 1..n - 1
      BY <2>1
    <3> QED BY <1>5, <2>1, <3>1
  <2> HIDE DEF n
  <2>3. \A i \in 1..n : /\ f.stack[i].type = e.stack[i].type
                        /\ f.stack[i].expect_key = e.stack[i].expect_key
                        /\ f.stack[i].count = e.stack[i].count
    BY <2>2 DEF Begun, n
  <2>4. \A i \in 1..n - 1 : f.stack[i].complex_key = e.stack[i].complex_key
    BY <2>1 DEF Begun, n
  <2> QED BY <1>9, <1>10, <2>1, <2>3, <2>4 DEF Begun, n
<1> QED BY <1>5, <1>6, <1>9, <1>11 DEF f, put

\* A block collection that is no key: its properties, on the line of what it
\* follows.
LEMMA BlockValueBegun ==
  ASSUME NEW e, Settled(e), ~InAnyFlow(e), NEW p, Begun(e, p), Ready(p), ~AtBlockKey(p),
         NEW evt \in EmitterEvent
  PROVE  LET f == BlockValueOpen(p, evt)
         IN  /\ Begun(e, f) /\ ~f.key_was_alias /\ f.indent = p.indent /\ f.stack = p.stack
             /\ f.out = BlockCollectionProps(p, evt, AtBlockValue(p)).out
             /\ f.after_seq_dash /\ BlockType(evt) = "BLOCK_MAP" => EndsInDash(f)
<1> DEFINE put == BlockCollectionProps(p, evt, AtBlockValue(p))
           shares == ~(evt.type = "MAPPING_START" /\ HasProps(evt))
           f == BlockValueOpen(p, evt)
<1>1. p \in Emitter /\ ~p.key_was_alias
  BY DEF Begun, Ready
<1>2. Text(p, put) /\ put \in Emitter
  BY <1>1, BlockPropsText DEF Text
<1> HIDE DEF put
<1>3. f = [put EXCEPT !.after_seq_dash = put.after_seq_dash /\ shares]
  BY DEF BlockValueOpen, put
<1>4. (put.after_seq_dash /\ shares) \in BOOLEAN
  BY <1>2 DEF Emitter
<1> HIDE DEF shares, f
<1>5. /\ f \in Emitter /\ f.stack = p.stack /\ ~f.key_was_alias /\ f.indent = p.indent
      /\ f.first_doc = p.first_doc
      /\ f.after_seq_dash => p.after_seq_dash /\ shares
      /\ f.out = put.out
  BY <1>1, <1>2, <1>3, <1>4 DEF Emitter, Text
<1>6. Begun(e, f)
  <2>1. AtBlockKey(f) <=> AtBlockKey(p)
    BY <1>5 DEF AtBlockKey, InContext
  <2> QED BY <1>5, <2>1 DEF Begun
<1>7. ASSUME f.after_seq_dash, BlockType(evt) = "BLOCK_MAP"
      PROVE  EndsInDash(f)
  <2>1. ~HasProps(evt)
    BY <1>5, <1>7 DEF BlockType, shares
  <2>2. put = p
    BY <2>1 DEF put, BlockCollectionProps
  <2>3. ~InAnyFlow(p)
    BY BegunPlace DEF Settled
  <2>4. EndsInDash(p)
    BY <1>5, <1>7, <2>3 DEF Ready
  <2> QED BY <1>5, <2>2, <2>4, Zenon DEF EndsInDash
<1> QED BY <1>5, <1>6, <1>7 DEF f, put

\* The start of a block collection.
LEMMA BlockStartDone ==
  ASSUME NEW e, Settled(e), ~InAnyFlow(e), NEW evt \in EmitterEvent
  PROVE  StartDone(e, BlockStartText(e, evt), StartLevel(evt))
<1> DEFINE p == EmitPreNode(e, TRUE)
           f == IF AtBlockKey(p) THEN ComplexKeyOpen(p, evt) ELSE BlockValueOpen(p, evt)
           type == BlockType(evt)
           indent == BlockIndent(f, type)
<1>1. Begun(e, p) /\ Ready(p) /\ p \in Emitter
  <2>1. Begun(e, p) /\ Ready(p)
    BY PreNodeReady
  <2> HIDE DEF p
  <2> QED BY <2>1 DEF Begun
<1> HIDE DEF p
<1>2. /\ Begun(e, f) /\ ~f.key_was_alias /\ f.indent = p.indent
      /\ f.after_seq_dash /\ BlockType(evt) = "BLOCK_MAP" => EndsInDash(f)
  <2>1. CASE AtBlockKey(p)
    BY <1>1, <2>1, ComplexKeyBegun
  <2>2. CASE ~AtBlockKey(p)
    BY <1>1, <2>2, BlockValueBegun
  <2> QED BY <2>1, <2>2
<1> HIDE DEF f
<1>3. /\ type \in MapTypes \cup FlowTypes \cup {"BLOCK_SEQ"}
      /\ StartLevel(evt) = IF type \in MapTypes THEN "KEY" ELSE "SEQ"
  BY DEF BlockType, FlowTypes, MapTypes, StartLevel
<1>4. indent \in Nat
  <2>1. f \in Emitter /\ f.indent \in Nat
    BY <1>2 DEF Begun, Emitter
  <2>2. f.stack # <<>> => Last(f.stack).indent \in Nat
    BY <2>1, LastContext DEF Context
  <2> QED BY <2>1, <2>2 DEF BlockIndent, DashWidth, InContext
<1> HIDE DEF type, indent
<1>5. StartDone(e, OpenContext(f, type, indent), StartLevel(evt))
  <2>1. f.first_doc = e.first_doc
    BY <1>2 DEF Begun
  <2> QED BY <1>2, <1>3, <1>4, <2>1, OpenBegun DEF StartDone, type
<1> QED BY <1>5 DEF BlockStartText, p, f, type, indent

\* The start of any collection.
LEMMA StartTextDone ==
  ASSUME NEW e, Settled(e), NEW evt \in EmitterEvent
  PROVE  StartDone(e, StartText(e, evt), StartLevel(evt))
BY FlowStartDone, BlockStartDone DEF StartText, UseFlow

\* The end of the last collection, where the stream allows one.
LEMMA EndDone ==
  ASSUME NEW e, Settled(e), e.stack # <<>>, LevelOf(Last(e.stack)) # "VALUE"
  PROVE  /\ Settled(EndText(e)) /\ EndText(e).stack = Front(e.stack)
         /\ EndText(e).first_doc = e.first_doc
         /\ ~EndText(e).key_was_alias
<1> DEFINE ctx == Last(e.stack)
           brackets == Brackets(ctx.type)
           close == IF ctx.type \in FlowTypes THEN Put(e, <<brackets[2]>>)
                    ELSE IF ctx.count > 0 THEN e
                    ELSE IF e.out = <<>> \/ EndsWith(e, {" ", "\n"}) THEN Put(e, brackets)
                    ELSE Put(e, <<" ">> \o brackets)
           f == EndText(e)
<1>1. e \in Emitter /\ ~e.key_was_alias
  BY LevelTypes DEF Settled, AliasPending, InContext, AtKey
<1>2. /\ <<brackets[2]>> \in Seq(Symbol) /\ brackets \in Seq(Symbol)
      /\ <<" ">> \o brackets \in Seq(Symbol)
  <2>1. brackets = <<"{", "}">> \/ brackets = <<"[", "]">>
    BY Zenon DEF Brackets
  <2> HIDE DEF brackets
  <2>2. <<" ">> \in Seq(Symbol) /\ <<"{", "}">> \in Seq(Symbol) /\ <<"[", "]">> \in Seq(Symbol)
    BY DEF Symbol
  <2>3. brackets[2] \in Symbol
    <3>1. ASSUME NEW a, NEW b PROVE Len(<<a, b>>) = 2
      OBVIOUS
    <3>2. Len(brackets) = 2
      BY <2>1, <3>1, Zenon
    <3>3. brackets \in Seq(Symbol)
      BY <2>1, <2>2
    <3> QED BY <3>2, <3>3, ElementOfSeq
  <2>4. <<brackets[2]>> \in Seq(Symbol)
    BY <2>3
  <2> QED BY <2>1, <2>2, <2>4, ConcatProperties, Zenon
<1> HIDE DEF brackets
<1>3. close \in {e, Put(e, <<brackets[2]>>), Put(e, brackets), Put(e, <<" ">> \o brackets)}
  BY Zenon
<1>4. Text(e, close)
  BY <1>1, <1>2, <1>3, PutText, TextItself
<1> HIDE DEF close
<1>5. f = [close EXCEPT !.stack = Front(@), !.after_seq_dash = FALSE]
  BY DEF EndText, close, brackets
<1> HIDE DEF f
<1>6. /\ e.stack \in Seq(Context) /\ Len(e.stack) \in Nat \ {0} /\ Front(e.stack) \in Seq(Context)
      /\ Len(Front(e.stack)) = Len(e.stack) - 1
      /\ \A i \in 1..Len(e.stack) - 1 : Front(e.stack)[i] = e.stack[i]
  BY <1>1, LastContext, FrontAndLast
<1>7. /\ f \in Emitter /\ f.stack = Front(e.stack) /\ ~f.after_seq_dash /\ ~f.key_was_alias
      /\ f.first_doc = e.first_doc
  BY <1>1, <1>4, <1>5, <1>6 DEF Text, Emitter
<1>8. KeysOpen(f)
  BY <1>6, <1>7, SMTT(30) DEF KeysOpen, Settled
<1> QED BY <1>7, <1>8 DEF Settled, DashInPlace, AliasPending, f

-----------------------------------------------------------------------------
(***************************************************************************)
(* The invariant: the flags are settled, and the levels of the stream are  *)
(* the stream's, the document's and one for each context.                  *)
(***************************************************************************)

Shape ==
  /\ Len(open) = 1 => emitter.stack = <<>> /\ open[1] \in {"BEGIN", "STREAM", "END"}
  /\ Len(open) # 1 => /\ Len(open) = Len(emitter.stack) + 2
                      /\ open[1] = "STREAM" /\ open[2] \in {"DOC", "DOC_DONE"}
  /\ Len(open) > 2 => open[2] = "DOC_DONE"
  /\ \A i \in 1..Len(emitter.stack) : LevelOf(emitter.stack[i]) = open[i + 2]

EInv == TypeOK /\ Settled(emitter) /\ Shape

\* The level on top tells how many contexts there are.
LEMMA ShapeTop ==
  ASSUME EInv
  PROVE  /\ Len(open) \in Nat /\ Len(emitter.stack) \in Nat
         /\ \/ Len(open) = 1 /\ Stream!Top(open) \in {"BEGIN", "STREAM", "END"}
            \/ Len(open) = 2 /\ Stream!Top(open) \in {"DOC", "DOC_DONE"}
            \/ /\ Len(open) > 2 /\ emitter.stack # <<>>
               /\ Stream!Top(open) = LevelOf(Last(emitter.stack))
               /\ Stream!Top(open) \in {"SEQ", "KEY", "VALUE"}
<1>1. emitter \in Emitter /\ open \in Seq(Stream!Level) /\ Len(open) \in Nat
  BY DEF EInv, TypeOK
<1>2. Len(emitter.stack) \in Nat
  BY <1>1, LastContext
<1>3. CASE Len(open) = 1
  BY <1>1, <1>2, <1>3 DEF EInv, Shape, Stream!Top
<1>4. CASE Len(open) = 2
  BY <1>1, <1>2, <1>4 DEF EInv, Shape, Stream!Top
<1>5. CASE Len(open) \notin {1, 2}
  <2>1. /\ Len(open) = Len(emitter.stack) + 2
        /\ emitter.stack # <<>> /\ Len(emitter.stack) \in Nat \ {0}
    <3>1. emitter.stack = <<>> <=> Len(emitter.stack) = 0
      BY <1>1, LastContext
    <3>2. Len(open) = Len(emitter.stack) + 2
      BY <1>5 DEF EInv, Shape
    <3> QED BY <1>2, <1>5, <3>1, <3>2
  <2>2. Stream!Top(open) = LevelOf(Last(emitter.stack))
    BY <1>1, <2>1, LastContext DEF EInv, Shape, Stream!Top
  <2> QED BY <1>1, <1>2, <2>1, <2>2, LevelTypes
<1> QED BY <1>3, <1>4, <1>5

\* The emitter outside of a document.
LEMMA SettledRoot ==
  ASSUME NEW e, Settled(e), e.stack = <<>>, NEW f \in Emitter, f.stack = <<>>,
         f.after_seq_dash = e.after_seq_dash, f.key_was_alias = e.key_was_alias
  PROVE  Settled(f)
BY DEF Settled, DashInPlace, KeysOpen, AliasPending, InContext

\* An event without properties is one the emitter takes.
LEMMA PlainEvent ==
  ASSUME NEW type \in Leaf \cup CollectionStart \cup OtherEvent, NEW implicit \in BOOLEAN
  PROVE  /\ Plain(type) \in EmitterEvent /\ Plain(type).type = type
         /\ [Plain(type) EXCEPT !.implicit = implicit] \in EmitterEvent
         /\ [Plain(type) EXCEPT !.implicit = implicit].type = type
BY DEF Plain, EmitterEvent, Tag, Value, RequestedStyle

\* An event emitted keeps the types.
LEMMA EmitsHistory ==
  ASSUME EInv, NEW evt \in EmitterEvent, NEW e \in Emitter, Emits(evt, e),
         open' \in Seq(Stream!Level)
  PROVE  TypeOK'
<1>1. emitted \in Seq(EmitterEvent) /\ changes \in 0..MaxSettings
  BY DEF EInv, TypeOK
<1>2. emitted' \in Seq(EmitterEvent)
  BY <1>1, AppendProperties DEF Emits
<1> QED BY <1>1, <1>2 DEF TypeOK, Emits

\* Events between the documents, or a document's own.
LEMMA OutsideKeeps ==
  ASSUME EInv, NEW evt \in EmitterEvent, NEW e, Emits(evt, e), emitter.stack = <<>>,
         e \in Emitter, e.stack = <<>>, e.after_seq_dash = emitter.after_seq_dash,
         e.key_was_alias = emitter.key_was_alias,
         open' \in {<<"STREAM">>, <<"END">>, <<"STREAM", "DOC">>}
  PROVE  EInv'
<1>1. Settled(e)
  BY SettledRoot DEF EInv
<1>2. /\ <<"STREAM">> \in Seq(Stream!Level) /\ <<"END">> \in Seq(Stream!Level)
      /\ <<"STREAM", "DOC">> \in Seq(Stream!Level)
  BY DEF Stream!Level
<1>3. TypeOK'
  BY <1>2, EmitsHistory
<1>4. emitter' = e /\ Len(emitter'.stack) = 0
  BY DEF Emits
<1>5. Shape'
  <2>1. CASE open' \in {<<"STREAM">>, <<"END">>}
    <3>1. Len(open') = 1 /\ open'[1] \in {"STREAM", "END"}
      BY <2>1
    <3> QED BY <1>4, <3>1 DEF Shape
  <2>2. CASE open' = <<"STREAM", "DOC">>
    <3>1. Len(open') = 2 /\ open'[1] = "STREAM" /\ open'[2] = "DOC"
      BY <2>2
    <3> QED BY <1>4, <3>1 DEF Shape
  <2> QED BY <2>1, <2>2
<1> QED BY <1>1, <1>3, <1>4, <1>5 DEF EInv

\* The stream starts: no context, and no document yet.
LEMMA StreamStartKeeps == EInv /\ EmitStreamStart => EInv'
<1> SUFFICES ASSUME EInv, EmitStreamStart PROVE EInv'
  OBVIOUS
<1> DEFINE e == [emitter EXCEPT !.first_doc = TRUE]
<1>1. Emits(Plain("STREAM_START"), e)
  BY DEF EmitStreamStart
<1>2. Plain("STREAM_START") \in EmitterEvent /\ Plain("STREAM_START").type = "STREAM_START"
  BY PlainEvent DEF OtherEvent
<1>3. "STREAM_START" \in Stream!Accepts(open) /\ open' = Stream!After(open, "STREAM_START")
  BY <1>1, <1>2 DEF Emits, Continues
<1>4. Stream!Top(open) = "BEGIN"
  BY <1>3 DEF Stream!Accepts, Stream!NodeStart, Stream!Leaf
<1>5. emitter.stack = <<>>
  BY <1>4, ShapeTop DEF EInv, Shape
<1>6. open' = <<"STREAM">>
  BY <1>3 DEF Stream!After, Stream!Leaf
<1>7. /\ e \in Emitter /\ e.stack = emitter.stack /\ e.after_seq_dash = emitter.after_seq_dash
      /\ e.key_was_alias = emitter.key_was_alias
  BY DEF EInv, TypeOK, Emitter
<1> HIDE DEF e
<1> QED BY <1>1, <1>2, <1>5, <1>6, <1>7, OutsideKeeps

\* The stream ends outside of any document.
LEMMA StreamEndKeeps == EInv /\ EmitStreamEnd => EInv'
<1> SUFFICES ASSUME EInv, EmitStreamEnd PROVE EInv'
  OBVIOUS
<1>1. Emits(Plain("STREAM_END"), NewLine(emitter))
  BY DEF EmitStreamEnd
<1>2. Plain("STREAM_END") \in EmitterEvent /\ Plain("STREAM_END").type = "STREAM_END"
  BY PlainEvent DEF OtherEvent
<1>3. "STREAM_END" \in Stream!Accepts(open) /\ open' = Stream!After(open, "STREAM_END")
  BY <1>1, <1>2 DEF Emits, Continues
<1>4. Stream!Top(open) = "STREAM"
  BY <1>3 DEF Stream!Accepts, Stream!NodeStart, Stream!Leaf
<1>5. emitter.stack = <<>>
  BY <1>4, ShapeTop DEF EInv, Shape
<1>6. open' = <<"END">>
  BY <1>3 DEF Stream!After, Stream!Leaf
<1>7. Text(emitter, NewLine(emitter))
  BY NewLineText DEF EInv, TypeOK
<1> QED BY <1>1, <1>2, <1>5, <1>6, <1>7, OutsideKeeps DEF Text

\* A document starts outside of any other.
LEMMA DocumentStartKeeps == EInv /\ EmitDocumentStart => EInv'
<1> SUFFICES ASSUME EInv, EmitDocumentStart PROVE EInv'
  OBVIOUS
<1>1. PICK implicit \in BOOLEAN :
        Emits([Plain("DOC_START") EXCEPT !.implicit = implicit],
              [(IF implicit THEN emitter
                ELSE Put(IF emitter.first_doc THEN emitter ELSE NewLine(emitter), <<"---">>))
                 EXCEPT !.first_doc = FALSE])
  BY DEF EmitDocumentStart
<1> DEFINE evt == [Plain("DOC_START") EXCEPT !.implicit = implicit]
           line == IF emitter.first_doc THEN emitter ELSE NewLine(emitter)
           put == IF implicit THEN emitter ELSE Put(line, <<"---">>)
           e == [put EXCEPT !.first_doc = FALSE]
<1>2. evt \in EmitterEvent /\ evt.type = "DOC_START"
  BY PlainEvent DEF OtherEvent
<1> HIDE DEF evt
<1>3. Emits(evt, e)
  BY <1>1 DEF evt
<1>4. "DOC_START" \in Stream!Accepts(open) /\ open' = Stream!After(open, "DOC_START")
  BY <1>2, <1>3 DEF Emits, Continues
<1>5. Stream!Top(open) = "STREAM"
  BY <1>4 DEF Stream!Accepts, Stream!NodeStart, Stream!Leaf
<1>6. Len(open) = 1 /\ open[1] = "STREAM" /\ emitter.stack = <<>> /\ open \in Seq(Stream!Level)
  BY <1>5, ShapeTop DEF EInv, TypeOK, Shape, Stream!Top
<1>7. open = <<"STREAM">>
  BY <1>6
<1>8. open' = <<"STREAM", "DOC">>
  <2>1. open' = Append(open, "DOC")
    BY <1>4 DEF Stream!After, Stream!Leaf
  <2>2. PICK level \in Stream!Level : level = "DOC"
    BY DEF Stream!Level
  <2> DEFINE longer == Append(open, level)
  <2>3. longer \in Seq(Stream!Level) /\ Len(longer) = 2 /\ longer[1] = open[1] /\ longer[2] = level
    BY <1>6, AppendProperties
  <2>4. open' = longer
    BY <2>1, <2>2
  <2> HIDE DEF longer
  <2>5. /\ open' \in Seq(Stream!Level) /\ Len(open') = 2
        /\ open'[1] = "STREAM" /\ open'[2] = "DOC"
    BY <1>6, <2>2, <2>3, <2>4
  <2> QED BY <2>5
<1>9. emitter \in Emitter
  BY DEF EInv, TypeOK
<1>10. Text(emitter, line) /\ line \in Emitter
  BY <1>9, NewLineText, TextItself DEF Text
<1> HIDE DEF line
<1>11. <<"---">> \in Seq(Symbol)
  BY DEF Symbol
<1>12. Text(emitter, put) /\ put \in Emitter
  BY <1>9, <1>10, <1>11, PutText, TextItself, TextTransitive DEF Text
<1> HIDE DEF put
<1>13. /\ e \in Emitter /\ e.stack = emitter.stack /\ e.after_seq_dash = emitter.after_seq_dash
       /\ e.key_was_alias = emitter.key_was_alias
  BY <1>12 DEF Text, Emitter
<1> HIDE DEF e
<1> QED BY <1>2, <1>3, <1>6, <1>8, <1>13, OutsideKeeps

\* A document ends with all its collections closed.
LEMMA DocumentEndKeeps == EInv /\ EmitDocumentEnd => EInv'
<1> SUFFICES ASSUME EInv, EmitDocumentEnd PROVE EInv'
  OBVIOUS
<1>1. PICK implicit \in BOOLEAN :
        Emits([Plain("DOC_END") EXCEPT !.implicit = implicit],
              IF implicit THEN emitter ELSE Put(NewLine(emitter), <<"...", "\n">>))
  BY DEF EmitDocumentEnd
<1> DEFINE evt == [Plain("DOC_END") EXCEPT !.implicit = implicit]
           e == IF implicit THEN emitter ELSE Put(NewLine(emitter), <<"...", "\n">>)
<1>2. evt \in EmitterEvent /\ evt.type = "DOC_END"
  BY PlainEvent DEF OtherEvent
<1> HIDE DEF evt
<1>3. Emits(evt, e)
  BY <1>1 DEF evt
<1>4. "DOC_END" \in Stream!Accepts(open) /\ open' = Stream!After(open, "DOC_END")
  BY <1>2, <1>3 DEF Emits, Continues
<1>5. Stream!Top(open) = "DOC_DONE"
  BY <1>4 DEF Stream!Accepts, Stream!NodeStart, Stream!Leaf
<1>6. Len(open) = 2 /\ open[1] = "STREAM" /\ open \in Seq(Stream!Level)
  <2>1. Len(open) = 2
    BY <1>5, ShapeTop
  <2> QED BY <2>1 DEF EInv, TypeOK, Shape
<1>7. emitter \in Emitter /\ emitter.stack = <<>>
  BY <1>6, LastContext DEF EInv, TypeOK, Shape
<1>8. open' = <<"STREAM">>
  <2>1. open' = SubSeq(open, 1, 1)
    BY <1>4, <1>6 DEF Stream!After, Stream!Leaf, Stream!Below
  <2>2. 1 \in Int /\ \A i \in 1..1 : open[i] \in Stream!Level
    BY <1>6, ElementOfSeq
  <2>3. /\ SubSeq(open, 1, 1) \in Seq(Stream!Level) /\ Len(SubSeq(open, 1, 1)) = 1
        /\ \A i \in 1..1 : SubSeq(open, 1, 1)[i] = open[1 + i - 1]
    BY <2>2, SubSeqProperties
  <2>4. /\ open' \in Seq(Stream!Level) /\ Len(open') = 1 /\ open'[1] = "STREAM"
    BY <1>6, <2>1, <2>3
  <2> QED BY <2>4
<1>9. <<"...", "\n">> \in Seq(Symbol)
  BY DEF Symbol
<1>10. Text(emitter, e)
  <2>1. Text(emitter, NewLine(emitter)) /\ NewLine(emitter) \in Emitter
    BY <1>7, NewLineText DEF Text
  <2>2. Text(emitter, Put(NewLine(emitter), <<"...", "\n">>))
    BY <1>9, <2>1, PutText, TextTransitive
  <2> QED BY <1>7, <2>2, TextItself
<1> HIDE DEF e
<1> QED BY <1>2, <1>3, <1>7, <1>8, <1>10, OutsideKeeps DEF Text

\* The levels once a node has started in the last.
Parents(levels) == [levels EXCEPT ![Len(levels)] = Stream!AfterNode(@)]

\* The other levels stay when a node starts.
LEMMA ParentLevels ==
  ASSUME EInv, Len(open) >= 2
  PROVE  /\ Parents(open) \in Seq(Stream!Level) /\ Len(Parents(open)) = Len(open)
         /\ \A i \in 1..Len(open) - 1 : Parents(open)[i] = open[i]
         /\ Parents(open)[Len(open)] = Stream!AfterNode(Stream!Top(open))
<1>1. open \in Seq(Stream!Level) /\ Len(open) \in Nat /\ Len(open) \in 1..Len(open)
  BY ShapeTop DEF EInv, TypeOK
<1>2. Stream!Top(open) = open[Len(open)] /\ Stream!Top(open) \in Stream!Level
  BY <1>1, ElementOfSeq DEF Stream!Top
<1>3. Stream!AfterNode(Stream!Top(open)) \in Stream!Level
  BY <1>2 DEF Stream!AfterNode, Stream!Level
<1>4. Parents(open) = [open EXCEPT ![Len(open)] = Stream!AfterNode(Stream!Top(open))]
  BY <1>1, <1>2 DEF Parents
<1> QED BY <1>1, <1>3, <1>4, ExceptSeq

\* A node's start keeps the invariant.
LEMMA NodeShape ==
  ASSUME EInv, Stream!Top(open) \in {"DOC", "SEQ", "KEY", "VALUE"},
         Settled(emitter'), NodeIn(emitter.stack, emitter'.stack),
         NEW level \in {"SEQ", "KEY"},
         \/ Len(emitter'.stack) = Len(emitter.stack) /\ open' = Parents(open)
         \/ /\ Len(emitter'.stack) = Len(emitter.stack) + 1 /\ open' = Append(Parents(open), level)
            /\ LevelOf(emitter'.stack[Len(emitter.stack) + 1]) = level
  PROVE  Shape' /\ open' \in Seq(Stream!Level)
<1> DEFINE n == Len(emitter.stack)
           parents == Parents(open)
<1>1. /\ Len(open) = n + 2 /\ n \in Nat /\ Len(open) >= 2 /\ open[1] = "STREAM"
      /\ n = 0 => Stream!Top(open) = "DOC"
      /\ n # 0 => Stream!Top(open) = open[n + 2] /\ open[2] = "DOC_DONE"
      /\ \A i \in 1..n : LevelOf(emitter.stack[i]) = open[i + 2]
  BY ShapeTop DEF EInv, Shape, Stream!Top
<1>2. /\ parents \in Seq(Stream!Level) /\ Len(parents) = n + 2
      /\ \A i \in 1..n + 1 : parents[i] = open[i]
      /\ parents[n + 2] = Stream!AfterNode(Stream!Top(open))
  BY <1>1, ParentLevels
<1> HIDE DEF parents
<1>3. parents[1] = "STREAM" /\ parents[2] = "DOC_DONE"
  <2>1. CASE n = 0
    BY <1>1, <1>2, <2>1 DEF Stream!AfterNode
  <2>2. CASE n # 0
    BY <1>1, <1>2, <2>2
  <2> QED BY <2>1, <2>2
<1>4. \A i \in 1..n : LevelOf(emitter'.stack[i]) = parents[i + 2]
  <2>1. n # 0 => emitter.stack # <<>>
    BY LastContext DEF EInv, TypeOK
  <2>2. ASSUME NEW i \in 1..n
        PROVE  LevelOf(emitter'.stack[i]) = parents[i + 2]
    <3>1. CASE i = n
      BY <1>1, <1>2, <2>1, <2>2, <3>1 DEF NodeIn
    <3>2. CASE i \in 1..n - 1
      BY <1>1, <1>2, <2>2, <3>2 DEF NodeIn
    <3> QED BY <1>1, <3>1, <3>2
  <2> QED BY <2>2
<1>5. CASE Len(emitter'.stack) = n /\ open' = parents
  BY <1>1, <1>2, <1>3, <1>4, <1>5 DEF Shape
<1>6. CASE /\ Len(emitter'.stack) = n + 1 /\ open' = Append(parents, level)
           /\ LevelOf(emitter'.stack[n + 1]) = level
  <2>1. level \in Stream!Level
    BY DEF Stream!Level
  <2>2. /\ open' \in Seq(Stream!Level) /\ Len(open') = n + 3
        /\ \A i \in 1..n + 2 : open'[i] = parents[i]
        /\ open'[n + 3] = level
    BY <1>1, <1>2, <1>6, <2>1, AppendProperties
  <2>3. ASSUME NEW i \in 1..n + 1
        PROVE  LevelOf(emitter'.stack[i]) = open'[i + 2]
    <3>1. CASE i = n + 1
      <4>1. i + 2 = n + 3
        BY <1>1, <3>1
      <4> QED BY <1>6, <2>2, <3>1, <4>1
    <3>2. CASE i \in 1..n
      <4>1. i + 2 \in 1..n + 2
        BY <1>1, <3>2
      <4> QED BY <1>4, <2>2, <3>2, <4>1
    <3> QED BY <1>1, <3>1, <3>2
  <2>4. 1 \in 1..n + 2 /\ 2 \in 1..n + 2 /\ n + 3 > 2 /\ n + 3 # 1 /\ n + 1 + 2 = n + 3
    BY <1>1
  <2>5. open'[1] = "STREAM" /\ open'[2] = "DOC_DONE"
    BY <1>3, <2>2, <2>4
  <2>6. Shape'
    BY <1>6, <2>2, <2>3, <2>4, <2>5 DEF Shape
  <2> QED BY <2>2, <2>6
<1> QED BY <1>5, <1>6 DEF parents

\* A scalar, an alias or a start: the level of the stream and the context move
\* together.
LEMMA NodeKeeps == EInv /\ EmitNode => EInv'
<1> SUFFICES ASSUME EInv, EmitNode PROVE EInv'
  OBVIOUS
<1>1. Settled(emitter)
  BY DEF EInv
<1>2. Stream!Top(open) \in {"DOC", "SEQ", "KEY", "VALUE"}
  <2>1. "SCALAR" \in Stream!Accepts(open)
    BY DEF EmitNode, Continues
  <2> QED BY <2>1 DEF Stream!Accepts, Stream!NodeStart, Stream!Leaf
<1>3. PICK evt \in Nodes : EmitScalar(evt) \/ EmitAlias(evt) \/ EmitStart(evt)
  BY DEF EmitNode
<1>4. evt \in EmitterEvent
  BY EmitterNodes
<1>5. ASSUME NEW e, evt.type \in Leaf, Emits(evt, e), LeafDone(emitter, e)
      PROVE  EInv'
  <2>1. emitter' = e /\ open' = Parents(open)
    BY <1>5 DEF Emits, Stream!After, Stream!Leaf, Leaf, Parents
  <2>2. Shape' /\ open' \in Seq(Stream!Level)
    BY <1>2, <1>5, <2>1, NodeShape DEF LeafDone
  <2>3. Settled(emitter')
    BY <1>5, <2>1 DEF LeafDone
  <2>4. TypeOK'
    BY <1>4, <1>5, <2>1, <2>2, <2>3, EmitsHistory DEF Settled
  <2> QED BY <2>2, <2>3, <2>4 DEF EInv
<1>6. CASE EmitScalar(evt)
  BY <1>1, <1>4, <1>5, <1>6, ScalarDone DEF EmitScalar, Leaf
<1>7. CASE EmitAlias(evt)
  BY <1>1, <1>5, <1>7, AliasDone DEF EmitAlias, Leaf
<1>8. CASE EmitStart(evt)
  <2> DEFINE e == StartText(emitter, evt)
             level == StartLevel(evt)
  <2>1. Emits(evt, e) /\ evt.type \in CollectionStart
    BY <1>8 DEF EmitStart
  <2>2. StartDone(emitter, e, level)
    BY <1>1, <1>4, StartTextDone
  <2>3. level \in {"SEQ", "KEY"}
    BY DEF StartLevel
  <2>4. emitter' = e /\ open' = Append(Parents(open), level)
    BY <2>1 DEF Emits, Stream!After, Stream!Leaf, Parents, CollectionStart, StartLevel
  <2> HIDE DEF e, level
  <2>5. Shape' /\ open' \in Seq(Stream!Level)
    BY <1>2, <2>2, <2>3, <2>4, NodeShape DEF StartDone
  <2>6. Settled(emitter')
    BY <2>2, <2>4 DEF StartDone
  <2>7. TypeOK'
    BY <1>4, <2>1, <2>4, <2>5, <2>6, EmitsHistory DEF Settled
  <2> QED BY <2>5, <2>6, <2>7 DEF EInv
<1> QED BY <1>3, <1>6, <1>7, <1>8

\* An end closes the last context, and the last level.
LEMMA EndKeeps == EInv /\ EmitEnd => EInv'
<1> SUFFICES ASSUME EInv, EmitEnd PROVE EInv'
  OBVIOUS
<1>1. PICK type \in {"MAPPING_END", "SEQUENCE_END"} : Emits(Plain(type), EndText(emitter))
  BY DEF EmitEnd
<1>2. Plain(type) \in EmitterEvent /\ Plain(type).type = type
  BY PlainEvent DEF OtherEvent
<1>3. type \in Stream!Accepts(open) /\ open' = Stream!After(open, type) /\ emitter' = EndText(emitter)
  BY <1>1, <1>2 DEF Emits, Continues
<1>4. Stream!Top(open) \in {"SEQ", "KEY"}
  BY <1>3 DEF Stream!Accepts, Stream!NodeStart, Stream!Leaf
<1>5. /\ Len(open) > 2 /\ emitter.stack # <<>> /\ LevelOf(Last(emitter.stack)) # "VALUE"
      /\ emitter \in Emitter /\ open \in Seq(Stream!Level)
  BY <1>4, ShapeTop DEF EInv, TypeOK
<1>6. Settled(emitter') /\ emitter'.stack = Front(emitter.stack)
  BY <1>3, <1>5, EndDone DEF EInv
<1>7. open' = SubSeq(open, 1, Len(open) - 1)
  BY <1>3 DEF Stream!After, Stream!Leaf, Stream!Below
<1>8. open' = Front(open) /\ open # <<>>
  BY <1>5, <1>7, EmptySeq DEF Front
<1>9. /\ open' \in Seq(Stream!Level) /\ Len(open') = Len(open) - 1 /\ Len(open) \in Nat
      /\ \A i \in 1..Len(open) - 1 : open'[i] = open[i]
  BY <1>5, <1>8, FrontAndLast
<1>10. /\ Len(emitter'.stack) = Len(emitter.stack) - 1 /\ Len(emitter.stack) \in Nat \ {0}
       /\ \A i \in 1..Len(emitter.stack) - 1 : emitter'.stack[i] = emitter.stack[i]
  BY <1>5, <1>6, LastContext, FrontAndLast
<1>11. Shape'
  <2>1. /\ Len(open) = Len(emitter.stack) + 2 /\ open[1] = "STREAM" /\ open[2] = "DOC_DONE"
        /\ \A i \in 1..Len(emitter.stack) : LevelOf(emitter.stack[i]) = open[i + 2]
    BY <1>5, <1>9 DEF EInv, Shape
  <2> DEFINE n == Len(emitter.stack)
  <2>2. /\ n \in Nat \ {0} /\ Len(open) = n + 2 /\ Len(open') = n + 1
        /\ Len(emitter'.stack) = n - 1
        /\ \A i \in 1..n + 1 : open'[i] = open[i]
    BY <1>9, <1>10, <2>1
  <2>3. ASSUME NEW i \in 1..n - 1
        PROVE  LevelOf(emitter'.stack[i]) = open'[i + 2]
    <3>1. i \in 1..n /\ i + 2 \in 1..n + 1
      BY <2>2
    <3> QED BY <1>10, <2>1, <2>2, <3>1
  <2>4. open'[1] = "STREAM" /\ open'[2] = "DOC_DONE"
    BY <2>1, <2>2
  <2> HIDE DEF n
  <2>5. Len(open') # 1 /\ Len(open') = Len(emitter'.stack) + 2
    BY <2>2
  <2> QED BY <2>2, <2>3, <2>4, <2>5 DEF Shape
<1>12. TypeOK'
  BY <1>1, <1>2, <1>3, <1>6, <1>9, EmitsHistory DEF Settled
<1> QED BY <1>6, <1>11, <1>12 DEF EInv

\* A setting between two events touches neither contexts nor flags.
LEMMA SetKeeps == EInv /\ Set => EInv'
<1> SUFFICES ASSUME EInv, Set PROVE EInv'
  OBVIOUS
<1>1. emitter \in Emitter
  BY DEF EInv, TypeOK
<1> DEFINE Same ==
      /\ emitter' \in Emitter /\ emitter'.stack = emitter.stack /\ emitter'.out = emitter.out
      /\ emitter'.after_seq_dash = emitter.after_seq_dash
      /\ emitter'.key_was_alias = emitter.key_was_alias
<1>2. Same
  <2>1. ASSUME NEW style \in Styles \cap EmitStyle, emitter' = [emitter EXCEPT !.style = style]
        PROVE  Same
    BY <1>1, <2>1 DEF Emitter
  <2>2. ASSUME NEW indent \in Indents,
               emitter' = [emitter EXCEPT !.indent = AllowedIndent(indent)]
        PROVE  Same
    <3>1. AllowedIndent(indent) \in 1..10
      BY EmitterSettings DEF AllowedIndent
    <3> QED BY <1>1, <2>2, <3>1 DEF Emitter
  <2> HIDE DEF Same
  <2> QED BY <2>1, <2>2 DEF Set
<1>3. EndsInDash(emitter) => EndsInDash(emitter')
  BY <1>2, Zenon DEF EndsInDash
<1>4. Settled(emitter')
  BY <1>2, <1>3 DEF EInv, Settled, DashInPlace, KeysOpen, AliasPending, InContext, AtKey,
                    AtBlockKey, AtBlockValue
<1>5. TypeOK'
  BY <1>2, EmitterBounds DEF EInv, TypeOK, Set
<1>6. Shape'
  BY <1>2 DEF EInv, Shape, Set
<1> QED BY <1>4, <1>5, <1>6 DEF EInv

\* A new emitter is settled.
LEMMA InitHolds == Init => EInv
<1> SUFFICES ASSUME Init PROVE EInv
  OBVIOUS
<1>1. emitter = NewEmitter /\ open = <<"BEGIN">> /\ emitted = <<>> /\ changes = 0
  BY DEF Init
<1>2. emitter \in Emitter /\ emitter.stack = <<>>
  BY <1>1 DEF NewEmitter, Emitter, EmitStyle
<1>3. open \in Seq(Stream!Level) /\ Len(open) = 1 /\ open[1] = "BEGIN"
  BY <1>1 DEF Stream!Level
<1>4. TypeOK
  BY <1>1, <1>2, <1>3, EmitterBounds DEF TypeOK
<1>5. Settled(emitter)
  BY <1>1, <1>2 DEF Settled, NewEmitter, DashInPlace, KeysOpen, AliasPending
<1>6. Shape
  BY <1>2, <1>3 DEF Shape
<1> QED BY <1>4, <1>5, <1>6 DEF EInv

\* Every call keeps the invariant.
LEMMA StepKeeps == EInv /\ [Next]_vars => EInv'
<1> SUFFICES ASSUME EInv, [Next]_vars PROVE EInv'
  OBVIOUS
<1>1. CASE UNCHANGED vars
  BY <1>1 DEF vars, EInv, TypeOK, Settled, DashInPlace, KeysOpen, AliasPending, Shape,
              InContext, AtKey, AtBlockKey, AtBlockValue
<1>2. CASE EmitUnmatchedEnd
  BY <1>1, <1>2 DEF EmitUnmatchedEnd
<1> QED BY <1>1, <1>2, StreamStartKeeps, DocumentStartKeeps, DocumentEndKeeps, StreamEndKeeps,
           NodeKeeps, EndKeeps, SetKeeps DEF Next

\* The invariant holds always.
LEMMA EInvAlways == Spec => []EInv
BY InitHolds, StepKeeps, PTL DEF Spec

\* The fields of the emitter keep their types.
THEOREM EmitterTypes == Spec => []TypeOK
<1>1. EInv => TypeOK
  BY DEF EInv
<1> QED BY <1>1, EInvAlways, PTL

\* The contexts of the emitter are the collections open in the events, each
\* expecting what the stream does (oyl_emit, push_ctx, advance_ctx).
THEOREM ContextsAlways == Spec => []ContextsFollowEvents
<1>1. EInv => ContextsFollowEvents
  <2> SUFFICES ASSUME EInv PROVE ContextsFollowEvents
    OBVIOUS
  <2>1. emitter.stack # <<>> \/ Len(open) > 2 => Len(open) # 1
    BY ShapeTop DEF EInv, Shape
  <2> QED BY <2>1 DEF ContextsFollowEvents, EInv, Shape
<1> QED BY <1>1, EInvAlways, PTL

\* The flags one event leaves for the next are never stale (emit_pre_node,
\* emit_complex_key_open, emit_alias).
THEOREM FlagsAlways == Spec => []FlagsMatchPlace
<1>1. EInv => FlagsMatchPlace
  BY DEF EInv, Settled, DashInPlace, KeysOpen, AliasPending, FlagsMatchPlace
<1> QED BY <1>1, EInvAlways, PTL

-----------------------------------------------------------------------------
(***************************************************************************)
(* What is written next to what.                                           *)
(***************************************************************************)

\* What anything, a ':', and what ends or separates an entry may follow.
Touchable == Blank \cup {"[", "{", ","}
Colonable == Touchable \cup {"WORD", "~", "QUOTED", "]", "}"}
Closable == Colonable \cup {":", "*"}

Ends(e, symbols) == e.out = <<>> \/ Last(e.out) \in symbols

\* All in a flow context is flow; a block mapping whose value is due has a
\* "? " if its key was a block collection; and a flow context whose next
\* entry is due has one already if a collection is open in it.
Nested(stack) ==
  /\ \A i \in 1..Len(stack) : \A j \in i..Len(stack) :
       stack[i].type \in FlowTypes => stack[j].type \in FlowTypes
  /\ \A i \in 1..Len(stack) - 1 :
       /\ LevelOf(stack[i]) = "VALUE" /\ stack[i + 1].type \notin FlowTypes => stack[i].complex_key
       /\ stack[i].type \in FlowTypes /\ LevelOf(stack[i]) # "VALUE" => stack[i].count > 0

\* The value of an ordinary key is due.
ValueDue(e) ==
  InContext(e, MapTypes) /\ ~AtKey(e) /\ ~e.key_was_alias /\ ~Last(e.stack).complex_key

\* The first entry of a flow context is due.
FirstDue(e) ==
  InContext(e, FlowTypes) /\ LevelOf(Last(e.stack)) # "VALUE" /\ Last(e.stack).count = 0

\* What the text must end with for what may be written next.
Apart(e) ==
  /\ Separated(e.out)
  /\ Nested(e.stack)
  /\ InContext(e, FlowTypes) => Ends(e, Closable)
  /\ ValueDue(e) => Ends(e, Colonable)
  /\ FirstDue(e) => Ends(e, {"[", "{"})

\* Which symbols may touch.
LEMMA WhatJoins ==
  ASSUME NEW left, NEW right
  PROVE  /\ left \in Touchable \/ right \in Blank => Joins(left, right)
         /\ left \in Colonable /\ right = ":" => Joins(left, right)
         /\ left \in Closable /\ right \in {",", "]", "}"} => Joins(left, right)
<1>1. left \in {"[", "{", ","} => MayTouch(left, right)
  BY DEF MayTouch
<1>2. left \in {"WORD", "~", "QUOTED", "]", "}"} /\ right \in {":", ",", "]", "}"} =>
        MayTouch(left, right)
  BY DEF MayTouch
<1>3. left \in {":", "*"} /\ right \in {",", "]", "}"} => MayTouch(left, right)
  BY DEF MayTouch
<1> QED BY <1>1, <1>2, <1>3 DEF Joins, Touchable, Colonable, Closable, Blank

\* A text and what is written after it.
LEMMA ConcatApart ==
  ASSUME NEW s \in Seq(Symbol), NEW t \in Seq(Symbol), t # <<>>, Separated(s), Separated(t),
         s # <<>> => Joins(Last(s), t[1])
  PROVE  Separated(s \o t) /\ s \o t # <<>> /\ Last(s \o t) = Last(t)
<1> DEFINE u == s \o t
<1>1. PICK m \in Nat, n \in Nat : m = Len(s) /\ n = Len(t)
  OBVIOUS
<1>2. n > 0
  BY <1>1, EmptySeq
<1>3. /\ u \in Seq(Symbol) /\ Len(u) = m + n
      /\ \A i \in 1..m + n : u[i] = IF i <= m THEN s[i] ELSE t[i - m]
  BY <1>1, ConcatProperties
<1> HIDE DEF u
<1>4. u # <<>> /\ Last(u) = u[m + n] /\ Last(t) = t[n]
  BY <1>1, <1>2, <1>3, EmptySeq DEF Last
<1>5. u[m + n] = t[n]
  <2>1. m + n \in 1..m + n /\ ~(m + n <= m) /\ m + n - m = n
    BY <1>2
  <2> QED BY <1>3, <2>1
<1>6. ASSUME NEW i \in 1..m + n - 1
      PROVE  Joins(u[i], u[i + 1])
  <2>1. CASE i < m
    <3>1. i \in 1..m + n /\ i + 1 \in 1..m + n /\ i <= m /\ i + 1 <= m /\ i \in 1..m - 1
      BY <1>2, <2>1
    <3>2. u[i] = s[i] /\ u[i + 1] = s[i + 1]
      BY <1>3, <3>1
    <3> QED BY <1>1, <3>1, <3>2 DEF Separated
  <2>2. CASE i = m
    <3>1. m \in 1..m + n /\ m + 1 \in 1..m + n /\ m <= m /\ ~(m + 1 <= m) /\ m + 1 - m = 1
      BY <1>2, <2>2
    <3>2. u[m] = s[m] /\ u[m + 1] = t[1]
      BY <1>3, <3>1
    <3>3. s # <<>> /\ Last(s) = s[m]
      BY <1>1, <2>2, EmptySeq DEF Last
    <3> QED BY <2>2, <3>2, <3>3
  <2>3. CASE i > m
    <3>1. /\ i \in 1..m + n /\ i + 1 \in 1..m + n /\ ~(i <= m) /\ ~(i + 1 <= m)
          /\ i - m \in 1..n - 1 /\ i + 1 - m = i - m + 1
      BY <2>3
    <3>2. u[i] = t[i - m] /\ u[i + 1] = t[i - m + 1]
      BY <1>3, <3>1
    <3> QED BY <1>1, <3>1, <3>2 DEF Separated
  <2> QED BY <2>1, <2>2, <2>3
<1>7. Separated(u)
  BY <1>3, <1>6 DEF Separated
<1> QED BY <1>4, <1>5, <1>7 DEF u

\* Three texts one after the other.
LEMMA ThreeTexts ==
  ASSUME NEW s \in Seq(Symbol), NEW t \in Seq(Symbol), NEW u \in Seq(Symbol)
  PROVE  (s \o t) \o u = s \o (t \o u)
BY ConcatAssociative

\* A text whose last symbol is taken back.
LEMMA FrontApart ==
  ASSUME NEW s \in Seq(Symbol), s # <<>>, Separated(s)
  PROVE  Separated(Front(s))
<1>1. PICK n \in Nat : n = Len(s) /\ n > 0
  BY EmptySeq
<1>2. Len(Front(s)) = n - 1 /\ \A i \in 1..n - 1 : Front(s)[i] = s[i]
  BY <1>1, FrontAndLast
<1>3. ASSUME NEW i \in 1..n - 1 - 1
      PROVE  Joins(Front(s)[i], Front(s)[i + 1])
  <2>1. i \in 1..n - 1 /\ i + 1 \in 1..n - 1
    BY <1>3
  <2> QED BY <1>1, <1>2, <2>1 DEF Separated
<1> QED BY <1>2, <1>3 DEF Separated

\* The texts that are put: one symbol, or two.
LEMMA ShortTexts ==
  ASSUME NEW a \in Symbol
  PROVE  /\ <<a>> \in Seq(Symbol) /\ <<a>> # <<>> /\ <<a>>[1] = a /\ Last(<<a>>) = a
         /\ Separated(<<a>>)
         /\ \A b \in Symbol : Joins(a, b) =>
              /\ <<a, b>> \in Seq(Symbol) /\ <<a, b>> # <<>> /\ <<a, b>>[1] = a
              /\ Last(<<a, b>>) = b /\ Separated(<<a, b>>)
<1>1. /\ <<a>> \in Seq(Symbol) /\ <<a>> # <<>> /\ <<a>>[1] = a /\ Last(<<a>>) = a
      /\ Separated(<<a>>)
  BY DEF Last, Separated
<1>2. ASSUME NEW b \in Symbol, Joins(a, b)
      PROVE  /\ <<a, b>> \in Seq(Symbol) /\ <<a, b>> # <<>> /\ <<a, b>>[1] = a
             /\ Last(<<a, b>>) = b /\ Separated(<<a, b>>)
  <2>1. Last(<<a, b>>) = b
    BY DEF Last
  <2>2. Separated(<<a, b>>)
    <3>1. Len(<<a, b>>) = 2 /\ <<a, b>>[1] = a /\ <<a, b>>[2] = b
      OBVIOUS
    <3>2. ASSUME NEW i \in 1..1 PROVE i = 1 /\ i + 1 = 2
      OBVIOUS
    <3> QED BY <1>2, <3>1, <3>2 DEF Separated
  <2> QED BY <2>1, <2>2
<1> QED BY <1>1, <1>2

\* The symbols the emitter writes.
LEMMA SymbolsKnown ==
  \A a \in {" ", "\n", "---", "...", "-", "?", ":", "[", "]", "{", "}", ",", "&", "!", "*",
            "~", "WORD", "QUOTED", "LITERAL"} : a \in Symbol
BY DEF Symbol

\* Text put after a text it may follow.
LEMMA PutApart ==
  ASSUME NEW e \in Emitter, NEW symbols \in Seq(Symbol), symbols # <<>>,
         Separated(e.out), Separated(symbols),
         e.out # <<>> => Joins(Last(e.out), symbols[1])
  PROVE  /\ Separated(Put(e, symbols).out) /\ Put(e, symbols).out # <<>>
         /\ Last(Put(e, symbols).out) = Last(symbols)
<1>1. e.out \in Seq(Symbol) /\ Put(e, symbols).out = e.out \o symbols
  BY PutText DEF Emitter
<1> QED BY <1>1, ConcatApart

\* The same for one symbol, and for two that may touch.
LEMMA PutOneApart ==
  ASSUME NEW e \in Emitter, Separated(e.out), NEW a \in Symbol, NEW symbols,
         Ends(e, symbols), \A left \in symbols : Joins(left, a)
  PROVE  /\ Separated(Put(e, <<a>>).out) /\ Put(e, <<a>>).out # <<>>
         /\ Last(Put(e, <<a>>).out) = a
<1>1. e.out # <<>> => Joins(Last(e.out), a)
  BY DEF Ends
<1> QED BY <1>1, ShortTexts, PutApart

\* The same for two symbols.
LEMMA PutTwoApart ==
  ASSUME NEW e \in Emitter, Separated(e.out), NEW a \in Symbol, NEW b \in Symbol, Joins(a, b),
         NEW symbols, Ends(e, symbols), \A left \in symbols : Joins(left, a)
  PROVE  /\ Separated(Put(e, <<a, b>>).out) /\ Put(e, <<a, b>>).out # <<>>
         /\ Last(Put(e, <<a, b>>).out) = b
<1>1. e.out # <<>> => Joins(Last(e.out), a)
  BY DEF Ends
<1>2. /\ <<a, b>> \in Seq(Symbol) /\ <<a, b>> # <<>> /\ <<a, b>>[1] = a
      /\ Last(<<a, b>>) = b /\ Separated(<<a, b>>)
  BY ShortTexts
<1> QED BY <1>1, <1>2, PutApart

\* A new line may follow anything.
LEMMA NewLineApart ==
  ASSUME NEW e \in Emitter, Separated(e.out)
  PROVE  Separated(NewLine(e).out) /\ Ends(NewLine(e), {"\n"})
<1>1. CASE e.out = <<>> \/ EndsWith(e, {"\n"})
  BY <1>1 DEF NewLine, EndsWith, Ends
<1>2. CASE ~(e.out = <<>> \/ EndsWith(e, {"\n"}))
  <2>1. NewLine(e) = Put(e, <<"\n">>)
    BY <1>2 DEF NewLine
  <2>2. "\n" \in Symbol /\ Joins(Last(e.out), "\n")
    BY SymbolsKnown, WhatJoins DEF Blank
  <2>3. /\ Separated(Put(e, <<"\n">>).out) /\ Last(Put(e, <<"\n">>).out) = "\n"
    <3> DEFINE line == <<"\n">>
    <3>1. /\ line \in Seq(Symbol) /\ line # <<>> /\ line[1] = "\n" /\ Last(line) = "\n"
          /\ Separated(line)
      BY <2>2, ShortTexts
    <3> HIDE DEF line
    <3>2. Separated(Put(e, line).out) /\ Last(Put(e, line).out) = Last(line)
      BY <2>2, <3>1, PutApart
    <3> QED BY <3>1, <3>2 DEF line
  <2> QED BY <2>1, <2>3 DEF Ends
<1> QED BY <1>1, <1>2

\* So may one with its indentation.
LEMMA NewLineAtApart ==
  ASSUME NEW e \in Emitter, NEW column \in Nat, Separated(e.out)
  PROVE  Separated(NewLineAt(e, column).out) /\ Ends(NewLineAt(e, column), Blank)
<1> DEFINE line == NewLine(e)
           blanks == Blanks(column)
<1>1. line \in Emitter /\ Separated(line.out) /\ Ends(line, {"\n"})
  BY NewLineText, NewLineApart DEF Text
<1>2. /\ blanks \in Seq(Symbol) /\ Len(blanks) = column
      /\ \A i \in 1..column : blanks[i] = " "
  <2>1. blanks \in Seq(Symbol)
    BY BlanksText
  <2>2. Len(blanks) = column /\ \A i \in 1..column : blanks[i] = " "
    BY DEF Blanks
  <2> QED BY <2>1, <2>2
<1> HIDE DEF line, blanks
<1>3. NewLineAt(e, column) = Put(line, blanks) /\ Put(line, blanks).out = line.out \o blanks
  BY <1>1, <1>2, PutText DEF NewLineAt, line, blanks
<1>4. line.out \in Seq(Symbol)
  BY <1>1 DEF Emitter
<1>5. CASE blanks = <<>>
  <2>1. line.out \o blanks = line.out
    BY <1>4, <1>5
  <2> QED BY <1>1, <1>3, <2>1 DEF Ends, Blank
<1>6. CASE blanks # <<>>
  <2>1. column > 0
    <3>1. column # 0
      BY <1>2, <1>6, EmptySeq, Zenon
    <3> QED BY <3>1
  <2>2. Last(blanks) = " " /\ blanks[1] = " "
    <3>1. Last(blanks) = blanks[column]
      BY <1>2, Zenon DEF Last
    <3>2. column \in 1..column /\ 1 \in 1..column
      BY <2>1
    <3> QED BY <1>2, <3>1, <3>2
  <2>3. Separated(blanks)
    <3>1. ASSUME NEW i \in 1..column - 1 PROVE blanks[i] = " "
      <4>1. i \in 1..column
        OBVIOUS
      <4> QED BY <1>2, <4>1, Zenon
    <3>2. \A right : Joins(" ", right)
      BY WhatJoins DEF Touchable, Blank
    <3> QED BY <1>2, <3>1, <3>2 DEF Separated
  <2>4. Joins(Last(line.out), " ")
    BY WhatJoins DEF Blank
  <2> QED BY <1>1, <1>2, <1>3, <1>6, <2>2, <2>3, <2>4, PutApart DEF Ends, Blank
<1> QED BY <1>5, <1>6

\* And a blank may always be taken back.
LEMMA DropBlankApart ==
  ASSUME NEW e \in Emitter, Separated(e.out)
  PROVE  Separated(DropBlank(e).out)
<1>1. CASE EndsWith(e, {" "})
  <2>1. e.out \in Seq(Symbol) /\ e.out # <<>>
    BY <1>1 DEF EndsWith, Emitter
  <2>2. DropBlank(e).out = Front(e.out)
    BY <1>1 DEF DropBlank, Emitter
  <2> QED BY <2>1, <2>2, FrontApart
<1>2. CASE ~EndsWith(e, {" "})
  BY <1>2 DEF DropBlank
<1> QED BY <1>1, <1>2

\* A blank put after a ':' is taken back.
LEMMA DropAfterColon ==
  ASSUME NEW e \in Emitter, Separated(e.out), Ends(e, Colonable)
  PROVE  LET p == Put(e, <<":", " ">>)
         IN  Separated(DropBlank(p).out) /\ Ends(DropBlank(p), {":"})
<1> DEFINE p == Put(e, <<":", " ">>)
           pair == <<":", " ">>
<1>1. ":" \in Symbol /\ " " \in Symbol /\ Joins(":", " ")
  BY SymbolsKnown, WhatJoins DEF Blank
<1>2. \A left \in Colonable : Joins(left, ":")
  BY WhatJoins
<1>3. Separated(p.out) /\ p.out # <<>> /\ Last(p.out) = " "
  BY <1>1, <1>2, PutTwoApart
<1>4. p \in Emitter /\ p.out = e.out \o pair
  <2>1. pair \in Seq(Symbol)
    BY <1>1, ShortTexts
  <2> QED BY <2>1, PutText DEF Text
<1> HIDE DEF p
<1>5. DropBlank(p).out = Front(p.out)
  BY <1>3, <1>4 DEF DropBlank, EndsWith, Emitter
<1>6. Separated(DropBlank(p).out)
  BY <1>3, <1>4, DropBlankApart
<1>7. PICK n \in Nat : Len(e.out) = n
  BY DEF Emitter
<1>8. Len(p.out) = n + 2 /\ p.out[n + 1] = ":" /\ p.out \in Seq(Symbol)
  <2>1. pair \in Seq(Symbol) /\ Len(pair) = 2 /\ pair[1] = ":" /\ e.out \in Seq(Symbol)
    <3>1. e.out \in Seq(Symbol)
      BY DEF Emitter
    <3>2. Len(pair) = 2 /\ pair[1] = ":"
      OBVIOUS
    <3>3. pair \in Seq(Symbol)
      BY <1>1, ShortTexts
    <3> QED BY <3>1, <3>2, <3>3
  <2> HIDE DEF pair
  <2>2. /\ Len(p.out) = n + 2 /\ p.out \in Seq(Symbol)
        /\ \A i \in 1..n + 2 : p.out[i] = IF i <= n THEN e.out[i] ELSE pair[i - n]
    <3>1. /\ e.out \o pair \in Seq(Symbol) /\ Len(e.out \o pair) = Len(e.out) + Len(pair)
          /\ \A i \in 1..Len(e.out) + Len(pair) :
               (e.out \o pair)[i] = IF i <= Len(e.out) THEN e.out[i] ELSE pair[i - Len(e.out)]
      BY <2>1, ConcatProperties, Zenon
    <3> QED BY <1>4, <1>7, <2>1, <3>1
  <2>3. n + 1 \in 1..n + 2 /\ ~(n + 1 <= n) /\ n + 1 - n = 1
    OBVIOUS
  <2> QED BY <2>1, <2>2, <2>3
<1>9. /\ Front(p.out) \in Seq(Symbol) /\ Len(Front(p.out)) = n + 1
      /\ Front(p.out)[n + 1] = ":"
  <2>1. /\ Front(p.out) \in Seq(Symbol) /\ Len(Front(p.out)) = Len(p.out) - 1
        /\ \A i \in 1..Len(p.out) - 1 : Front(p.out)[i] = p.out[i]
    BY <1>3, <1>8, FrontAndLast
  <2>2. n + 1 \in 1..Len(p.out) - 1 /\ Len(p.out) - 1 = n + 1
    BY <1>8
  <2> QED BY <1>8, <2>1, <2>2
<1>10. Last(Front(p.out)) = ":"
  BY <1>9 DEF Last
<1> QED BY <1>5, <1>6, <1>10 DEF Ends, p

\* The properties of a node leave the text ready for the node.
LEMMA PropsApart ==
  ASSUME NEW e \in Emitter, NEW evt \in EmitterEvent, Separated(e.out), Ends(e, Touchable)
  PROVE  LET f == EmitProps(e, evt)
         IN  /\ Separated(f.out) /\ Ends(f, Touchable)
             /\ ~f.wrote_props => f.out = e.out
<1> DEFINE anchor == IF evt.anchor THEN <<"&", " ">> ELSE <<>>
           tag == IF evt.tag # "none" THEN <<"!", " ">> ELSE <<>>
           f == EmitProps(e, evt)
<1>1. /\ "&" \in Symbol /\ "!" \in Symbol /\ " " \in Symbol
      /\ Joins("&", " ") /\ Joins("!", " ")
  BY SymbolsKnown, WhatJoins DEF Blank
<1>2. \A right : \A left \in Touchable : Joins(left, right)
  BY WhatJoins
<1>3. e.out \in Seq(Symbol)
  BY DEF Emitter
<1>4. ASSUME NEW s \in Seq(Symbol), Separated(s), s # <<>> => Last(s) \in Touchable,
             NEW a \in Symbol, Joins(a, " "),
             NEW t, t = <<a, " ">> \/ t = <<>>
      PROVE  s \o t \in Seq(Symbol) /\ Separated(s \o t)
             /\ (s \o t # <<>> => Last(s \o t) \in Touchable)
  <2>1. CASE t = <<a, " ">>
    <3>1. t \in Seq(Symbol) /\ t # <<>> /\ t[1] = a /\ Last(t) = " " /\ Separated(t)
      BY <1>1, <1>4, <2>1, ShortTexts
    <3>2. s # <<>> => Joins(Last(s), t[1])
      BY <1>2, <1>4
    <3>3. s \o t \in Seq(Symbol)
      BY <3>1, ConcatProperties
    <3>4. Separated(s \o t) /\ Last(s \o t) = " "
      BY <1>4, <3>1, <3>2, ConcatApart
    <3> QED BY <3>3, <3>4 DEF Touchable, Blank
  <2>2. CASE t = <<>>
    <3>1. s \o t = s
      BY <2>2
    <3> QED BY <1>4, <3>1
  <2> QED BY <1>4, <2>1, <2>2
<1>5. /\ anchor = <<"&", " ">> \/ anchor = <<>>
      /\ tag = <<"!", " ">> \/ tag = <<>>
      /\ ~HasProps(evt) => anchor = <<>> /\ tag = <<>>
  BY Zenon DEF HasProps
<1>6. f.out = e.out \o (anchor \o tag) /\ f.wrote_props = HasProps(evt)
  BY DEF EmitProps, Put, Emitter
<1> HIDE DEF anchor, tag, f
<1>7. anchor \in Seq(Symbol) /\ tag \in Seq(Symbol)
  <2>1. <<"&", " ">> \in Seq(Symbol) /\ <<"!", " ">> \in Seq(Symbol) /\ <<>> \in Seq(Symbol)
    <3>1. <<"&", " ">> \in Seq(Symbol)
      BY <1>1, ShortTexts
    <3>2. <<"!", " ">> \in Seq(Symbol)
      BY <1>1, ShortTexts
    <3>3. <<>> \in Seq(Symbol)
      OBVIOUS
    <3> QED BY <3>1, <3>2, <3>3, Zenon
  <2> QED BY <1>5, <2>1, Zenon
<1>8. e.out # <<>> => Last(e.out) \in Touchable
  BY DEF Ends
<1>9. /\ e.out \o anchor \in Seq(Symbol) /\ Separated(e.out \o anchor)
      /\ e.out \o anchor # <<>> => Last(e.out \o anchor) \in Touchable
  BY <1>1, <1>3, <1>4, <1>5, <1>8
<1>10. /\ Separated((e.out \o anchor) \o tag)
       /\ (e.out \o anchor) \o tag # <<>> => Last((e.out \o anchor) \o tag) \in Touchable
  BY <1>1, <1>4, <1>5, <1>9
<1>11. (e.out \o anchor) \o tag = e.out \o (anchor \o tag)
  BY <1>3, <1>7, ThreeTexts
<1>12. ~HasProps(evt) => e.out \o (anchor \o tag) = e.out
  BY <1>3, <1>5
<1> QED BY <1>6, <1>10, <1>11, <1>12 DEF Ends, f

\* After a key, the name of an alias is kept from the ':' that follows.
LEMMA AliasKeyApart ==
  ASSUME NEW e \in Emitter, Separated(e.out), ~e.key_was_alias => Ends(e, Colonable)
  PROVE  LET f == AfterAliasKey(e)
         IN  f \in Emitter /\ Separated(f.out) /\ Ends(f, Colonable)
<1> DEFINE f == AfterAliasKey(e)
           put == Put(e, <<" ">>)
<1>1. f \in Emitter
  BY AfterAliasKeyText
<1>2. CASE e.key_was_alias
  <2>1. " " \in Symbol /\ Joins(Last(e.out), " ")
    BY SymbolsKnown, WhatJoins DEF Blank
  <2>2. <<" ">> \in Seq(Symbol) /\ <<" ">> # <<>> /\ <<" ">>[1] = " " /\ Last(<<" ">>) = " "
        /\ Separated(<<" ">>)
    BY <2>1, ShortTexts
  <2>3. Separated(put.out) /\ Last(put.out) = " "
    BY <2>1, <2>2, PutApart
  <2>4. put \in Emitter
    BY <2>2, PutText DEF Text
  <2> HIDE DEF put
  <2>5. f.out = put.out
    BY <1>2, <2>4 DEF AfterAliasKey, Emitter, put
  <2> QED BY <1>1, <2>3, <2>5 DEF Ends, Colonable, Touchable, Blank
<1>3. CASE ~e.key_was_alias
  BY <1>3 DEF AfterAliasKey
<1> QED BY <1>1, <1>2, <1>3

\* What comes before a node leaves the text ready for it; before a block
\* collection that is a value, it ends with the ':'.
LEMMA BeforeValueApart ==
  ASSUME NEW e, Settled(e), Apart(e), AtBlockValue(e), NEW is_collection
  PROVE  LET p == BeforeValue(e, is_collection)
         IN  Separated(p.out) /\ Ends(p, IF is_collection THEN {":"} ELSE {" "})
<1> DEFINE ctx == Last(e.stack)
           over == [ctx EXCEPT !.complex_key = FALSE]
           line == NewLineAt(e, ctx.indent)
           at == IF ctx.complex_key THEN SetTop(line, over) ELSE e
           after == AfterAliasKey(at)
           p == BeforeValue(e, is_collection)
<1>1. e \in Emitter /\ e.stack # <<>> /\ Separated(e.out)
  BY DEF Settled, AtBlockValue, InContext, Apart
<1>2. ctx \in Context /\ ctx.indent \in Nat
  BY <1>1, LastContext DEF Context
<1>3. over \in Context
  BY <1>2 DEF Context
<1>4. line \in Emitter /\ line.stack = e.stack /\ line.key_was_alias = e.key_was_alias
  BY <1>1, <1>2, NewLineAtText DEF Text
<1>5. Separated(line.out) /\ Ends(line, Blank)
  BY <1>1, <1>2, NewLineAtApart
<1>6. ~ctx.complex_key /\ ~e.key_was_alias => Ends(e, Colonable)
  BY DEF Apart, ValueDue, AtBlockValue, InContext, AtKey, MapTypes
<1> HIDE DEF over, line
<1>7. /\ at \in Emitter /\ Separated(at.out) /\ at.key_was_alias = e.key_was_alias
      /\ ~at.key_was_alias => Ends(at, Colonable)
  <2>1. CASE ctx.complex_key
    <3>1. /\ SetTop(line, over) \in Emitter
          /\ SetTop(line, over) = [line EXCEPT !.stack = SetTop(line, over).stack]
      BY <1>1, <1>3, <1>4, SetTopContext
    <3>2. SetTop(line, over).out = line.out /\ SetTop(line, over).key_was_alias = e.key_was_alias
      BY <1>4, <3>1 DEF Emitter
    <3> QED BY <1>5, <2>1, <3>1, <3>2 DEF Ends, Colonable, Touchable
  <2>2. CASE ~ctx.complex_key
    BY <1>1, <1>6, <2>2
  <2> QED BY <2>1, <2>2
<1> HIDE DEF at
<1>8. after \in Emitter /\ Separated(after.out) /\ Ends(after, Colonable)
  BY <1>7, AliasKeyApart
<1> HIDE DEF after
<1>9. /\ ":" \in Symbol /\ " " \in Symbol /\ Joins(":", " ")
      /\ \A left \in Colonable : Joins(left, ":")
  BY SymbolsKnown, WhatJoins DEF Blank
<1>10. CASE is_collection
  <2>1. p = Put(after, <<":">>)
    BY <1>10 DEF BeforeValue, after, at, line, over
  <2> QED BY <1>8, <1>9, <1>10, <2>1, PutOneApart DEF Ends
<1>11. CASE ~is_collection
  <2>1. Separated(Put(after, <<":", " ">>).out) /\ Ends(Put(after, <<":", " ">>), {" "})
    BY <1>8, <1>9, PutTwoApart DEF Ends
  <2>2. p = Put(after, <<":", " ">>)
    BY <1>11 DEF BeforeValue, after, at, line, over
  <2>3. Separated(p.out) /\ Ends(p, {" "})
    BY <2>1, <2>2, Zenon
  <2> QED BY <1>11, <2>3
<1> QED BY <1>10, <1>11

\* The ':' of a flow mapping, with its blank and without.
LEMMA FlowValueApart ==
  ASSUME NEW e, Settled(e), Apart(e), InContext(e, {"FLOW_MAP"}), ~AtKey(e)
  PROVE  LET p == Put(AfterAliasKey(e), <<":", " ">>)
         IN  /\ Separated(p.out) /\ Ends(p, {" "})
             /\ Separated(DropBlank(p).out) /\ Ends(DropBlank(p), {":"})
<1> DEFINE after == AfterAliasKey(e)
<1>1. e \in Emitter /\ e.stack # <<>> /\ Separated(e.out) /\ Ends(e, Closable)
  BY DEF Settled, InContext, Apart, FlowTypes
<1>2. ~e.key_was_alias => Ends(e, Colonable)
  <2>1. ~Last(e.stack).complex_key
    BY <1>1, LastContext DEF Settled, KeysOpen, InContext
  <2> QED BY <2>1 DEF Apart, ValueDue, InContext, MapTypes
<1>3. after \in Emitter /\ Separated(after.out) /\ Ends(after, Colonable)
  BY <1>1, <1>2, AliasKeyApart
<1> HIDE DEF after
<1>4. /\ ":" \in Symbol /\ " " \in Symbol /\ Joins(":", " ")
      /\ \A left \in Colonable : Joins(left, ":")
  BY SymbolsKnown, WhatJoins DEF Blank
<1>5. Separated(Put(after, <<":", " ">>).out) /\ Ends(Put(after, <<":", " ">>), {" "})
  BY <1>3, <1>4, PutTwoApart DEF Ends
<1> QED BY <1>3, <1>5, DropAfterColon DEF after

\* After a "- ", anything may be written.
LEMMA DashAtEnd ==
  ASSUME NEW e \in Emitter, EndsInDash(e)
  PROVE  Ends(e, {" "})
<1>1. PICK n \in Nat : n = Len(e.out) /\ n >= 2 /\ e.out \in Seq(Symbol)
  <2>1. e.out \in Seq(Symbol) /\ Len(e.out) \in Nat
    BY DEF Emitter
  <2>2. Len(e.out) >= 2
    BY Zenon DEF EndsInDash
  <2> QED BY <2>1, <2>2
<1>2. SubSeq(e.out, n - 1, n) = <<"-", " ">>
  BY <1>1 DEF EndsInDash
<1>3. n - 1 \in Int /\ n \in Int /\ \A i \in n - 1..n : e.out[i] \in Symbol
  BY <1>1, ElementOfSeq
<1>4. /\ Len(SubSeq(e.out, n - 1, n)) = 2
      /\ \A i \in 1..2 : SubSeq(e.out, n - 1, n)[i] = e.out[n - 1 + i - 1]
  <2>1. /\ SubSeq(e.out, n - 1, n) \in Seq(Symbol)
        /\ Len(SubSeq(e.out, n - 1, n)) = IF n - 1 <= n THEN n - (n - 1) + 1 ELSE 0
        /\ \A i \in 1..n - (n - 1) + 1 : SubSeq(e.out, n - 1, n)[i] = e.out[n - 1 + i - 1]
    BY <1>3, SubSeqProperties
  <2> QED BY <2>1
<1>5. e.out[n] = " "
  <2>1. 2 \in 1..2 /\ n - 1 + 2 - 1 = n
    OBVIOUS
  <2>2. SubSeq(e.out, n - 1, n)[2] = e.out[n]
    BY <1>4, <2>1
  <2>3. <<"-", " ">>[2] = " "
    OBVIOUS
  <2> QED BY <1>2, <2>2, <2>3, Zenon
<1> QED BY <1>1, <1>5 DEF Ends, Last

\* In the context of an entry that follows another, or is the first.
LEMMA SeparatorApart ==
  ASSUME NEW e, Settled(e), Apart(e), InContext(e, FlowTypes), LevelOf(Last(e.stack)) # "VALUE"
  PROVE  LET p == EntrySeparator(e)
         IN  Separated(p.out) /\ Ends(p, Touchable)
<1> DEFINE p == EntrySeparator(e)
<1>1. e \in Emitter /\ Separated(e.out) /\ Ends(e, Closable)
  BY DEF Settled, Apart
<1>2. CASE Last(e.stack).count = 0
  <2>1. p = e
    BY <1>2 DEF EntrySeparator
  <2>2. Ends(e, {"[", "{"})
    BY <1>2 DEF Apart, FirstDue
  <2>3. Ends(e, Touchable)
    BY <2>2 DEF Ends, Touchable
  <2> QED BY <1>1, <2>1, <2>3
<1>3. CASE Last(e.stack).count # 0
  <2>1. /\ "," \in Symbol /\ " " \in Symbol /\ Joins(",", " ")
        /\ \A left \in Closable : Joins(left, ",")
    BY SymbolsKnown, WhatJoins DEF Blank
  <2>2. /\ Separated(Put(e, <<",">>).out) /\ Last(Put(e, <<",">>).out) = ","
        /\ Separated(Put(e, <<",", " ">>).out) /\ Last(Put(e, <<",", " ">>).out) = " "
    BY <1>1, <2>1, PutOneApart, PutTwoApart
  <2>3. p = Put(e, <<",">>) \/ p = Put(e, <<",", " ">>)
    BY <1>3 DEF EntrySeparator
  <2> QED BY <2>2, <2>3 DEF Ends, Touchable, Blank
<1> QED BY <1>2, <1>3

\* What emit_pre_node leaves at the end of the text, in each context.
LEMMA PreNodeApart ==
  ASSUME NEW e, Settled(e), Apart(e), NEW is_collection \in BOOLEAN
  PROVE  LET p == EmitPreNode(e, is_collection)
         IN  /\ Separated(p.out)
             /\ is_collection /\ AtBlockValue(e) => Ends(p, {":"})
             /\ ~(is_collection /\ AtBlockValue(e)) => Ends(p, Touchable)
             /\ InContext(e, {"FLOW_MAP"}) /\ ~AtKey(e) =>
                  Separated(DropBlank(p).out) /\ Ends(DropBlank(p), {":"})
<1> DEFINE p == EmitPreNode(e, is_collection)
           Good == /\ Separated(p.out)
                   /\ is_collection /\ AtBlockValue(e) => Ends(p, {":"})
                   /\ ~(is_collection /\ AtBlockValue(e)) => Ends(p, Touchable)
                   /\ InContext(e, {"FLOW_MAP"}) /\ ~AtKey(e) =>
                        Separated(DropBlank(p).out) /\ Ends(DropBlank(p), {":"})
<1> SUFFICES Good
  OBVIOUS
<1>1. e \in Emitter /\ Separated(e.out)
  BY DEF Settled, Apart
<1>2. e.stack # <<>> => Last(e.stack).type \in MapTypes \cup FlowTypes \cup {"BLOCK_SEQ"}
  BY <1>1, LastContext DEF Context
<1>3. e.stack # <<>> => Last(e.stack).indent \in Nat
  BY <1>1, LastContext DEF Context
<1>4. ASSUME NEW f, Ends(f, Blank) \/ Ends(f, {" "}) \/ Ends(f, {"\n"})
      PROVE  Ends(f, Touchable)
  BY <1>4 DEF Ends, Touchable, Blank
<1>5. CASE e.stack = <<>>
  <2>1. p = NewLine(e)
    BY <1>5 DEF EmitPreNode, AtBlockKey, AtBlockValue, InContext
  <2>2. ~AtBlockValue(e) /\ ~InContext(e, {"FLOW_MAP"})
    BY <1>5 DEF AtBlockValue, InContext
  <2>3. Separated(p.out) /\ Ends(p, Touchable)
    BY <1>1, <1>4, <2>1, NewLineApart
  <2> QED BY <2>2, <2>3
<1>6. CASE AtBlockKey(e)
  <2>1. p = BeforeKey(e)
    BY <1>6 DEF EmitPreNode, AtBlockKey, AtBlockValue, InContext
  <2>2. ~AtBlockValue(e) /\ ~InContext(e, {"FLOW_MAP"}) /\ e.stack # <<>>
    BY <1>6 DEF AtBlockKey, AtBlockValue, InContext
  <2>3. CASE e.after_seq_dash
    <3>1. p = e /\ Ends(e, {" "})
      BY <1>1, <1>6, <2>1, <2>3, DashAtEnd DEF BeforeKey, Settled, DashInPlace
    <3> QED BY <1>1, <1>4, <2>2, <3>1
  <2>4. CASE e.out = <<>>
    <3>1. p = e
      BY <2>1, <2>4 DEF BeforeKey
    <3>2. Ends(p, Touchable)
      BY <2>4, <3>1 DEF Ends
    <3> QED BY <1>1, <2>2, <3>1, <3>2
  <2>5. CASE ~(e.after_seq_dash \/ e.out = <<>>)
    <3>1. p = NewLineAt(e, Last(e.stack).indent)
      BY <2>1, <2>5 DEF BeforeKey
    <3>2. Separated(p.out) /\ Ends(p, Touchable)
      BY <1>1, <1>3, <1>4, <2>2, <3>1, NewLineAtApart
    <3> QED BY <2>2, <3>2
  <2> QED BY <2>3, <2>4, <2>5
<1>7. CASE AtBlockValue(e)
  <2>1. p = BeforeValue(e, is_collection)
    BY <1>7 DEF EmitPreNode, AtBlockKey, AtBlockValue, InContext
  <2>2. ~InContext(e, {"FLOW_MAP"})
    BY <1>7 DEF AtBlockValue, InContext
  <2>3. Separated(p.out) /\ Ends(p, IF is_collection THEN {":"} ELSE {" "})
    BY <1>7, <2>1, BeforeValueApart
  <2> HIDE DEF p
  <2>4. CASE is_collection
    BY <1>7, <2>2, <2>3, <2>4
  <2>5. CASE ~is_collection
    BY <1>4, <2>2, <2>3, <2>5
  <2> QED BY <2>4, <2>5
<1>8. CASE InContext(e, {"BLOCK_SEQ"})
  <2> DEFINE line == NewLineAt(e, Last(e.stack).indent)
             put == Put(line, <<"-", " ">>)
  <2>1. p = BeforeEntry(e)
    BY <1>8 DEF EmitPreNode, AtBlockKey, AtBlockValue, InContext
  <2>2. ~AtBlockValue(e) /\ ~InContext(e, {"FLOW_MAP"}) /\ e.stack # <<>>
    BY <1>8 DEF AtBlockValue, InContext
  <2>3. line \in Emitter /\ Separated(line.out) /\ Ends(line, Blank)
    BY <1>1, <1>3, <2>2, NewLineAtText, NewLineAtApart DEF Text
  <2> HIDE DEF line
  <2>4. /\ "-" \in Symbol /\ " " \in Symbol /\ Joins("-", " ")
        /\ \A left \in Blank : Joins(left, "-")
    BY SymbolsKnown, WhatJoins DEF Blank, Touchable
  <2>5. Separated(put.out) /\ Last(put.out) = " " /\ put.out # <<>>
    BY <2>3, <2>4, PutTwoApart
  <2>6. put \in Emitter
    <3>1. <<"-", " ">> \in Seq(Symbol)
      BY <2>4, ShortTexts
    <3> QED BY <2>3, <3>1, PutText DEF Text
  <2> HIDE DEF put
  <2>7. p = [put EXCEPT !.after_seq_dash = TRUE]
    BY <2>1 DEF BeforeEntry, put, line
  <2>8. p.out = put.out
    BY <2>6, <2>7 DEF Emitter
  <2>9. Separated(p.out) /\ Ends(p, {" "})
    BY <2>5, <2>8 DEF Ends
  <2> HIDE DEF p
  <2> QED BY <1>4, <2>2, <2>9
<1>9. CASE InContext(e, {"FLOW_MAP"}) /\ ~AtKey(e)
  <2>1. p = Put(AfterAliasKey(e), <<":", " ">>)
    BY <1>9 DEF EmitPreNode, AtBlockKey, AtBlockValue, InContext
  <2>2. ~AtBlockValue(e)
    BY <1>9 DEF AtBlockValue, InContext
  <2>3. /\ Separated(p.out) /\ Ends(p, {" "})
        /\ Separated(DropBlank(p).out) /\ Ends(DropBlank(p), {":"})
    BY <1>9, <2>1, FlowValueApart
  <2> HIDE DEF p
  <2> QED BY <1>4, <2>2, <2>3
<1>10. CASE \/ InContext(e, {"FLOW_SEQ"})
            \/ InContext(e, {"FLOW_MAP"}) /\ AtKey(e)
  <2>1. p = EntrySeparator(e)
    BY <1>10 DEF EmitPreNode, AtBlockKey, AtBlockValue, InContext
  <2>2. ~AtBlockValue(e) /\ ~(InContext(e, {"FLOW_MAP"}) /\ ~AtKey(e))
    BY <1>10 DEF AtBlockValue, InContext
  <2>3. InContext(e, FlowTypes) /\ LevelOf(Last(e.stack)) # "VALUE"
    BY <1>10, LevelTypes DEF InContext, FlowTypes, AtKey, MapTypes
  <2>4. Separated(p.out) /\ Ends(p, Touchable)
    BY <2>1, <2>3, SeparatorApart
  <2> HIDE DEF p
  <2> QED BY <2>2, <2>4
<1> QED
  BY <1>2, <1>5, <1>6, <1>7, <1>8, <1>9, <1>10
     DEF InContext, AtBlockKey, AtBlockValue, AtKey, MapTypes, FlowTypes

\* An empty plain scalar in each place.
LEMMA EmptyPlainApart ==
  ASSUME NEW e \in Emitter, Separated(e.out), Ends(e, Touchable),
         InContext(e, {"FLOW_MAP"}) /\ ~AtKey(e) /\ ~e.wrote_props => Ends(DropBlank(e), {":"})
  PROVE  LET v == EmptyPlain(e)
         IN  /\ Separated(v.out)
             /\ InContext(e, FlowTypes) => Ends(v, Closable)
             /\ AtKey(e) => Ends(v, Colonable)
<1> DEFINE v == EmptyPlain(e)
           Good == /\ Separated(v.out)
                   /\ InContext(e, FlowTypes) => Ends(v, Closable)
                   /\ AtKey(e) => Ends(v, Colonable)
<1> SUFFICES Good
  OBVIOUS
<1>1. CASE InContext(e, {"FLOW_SEQ"}) /\ ~e.wrote_props
  <2>1. v = Put(e, <<"~">>)
    BY <1>1 DEF EmptyPlain
  <2>2. "~" \in Symbol /\ \A left \in Touchable : Joins(left, "~")
    BY SymbolsKnown, WhatJoins
  <2>3. Separated(Put(e, <<"~">>).out) /\ Last(Put(e, <<"~">>).out) = "~"
    BY <2>2, PutOneApart
  <2> QED BY <2>1, <2>3 DEF Ends, Colonable, Closable
<1>2. CASE ~(InContext(e, {"FLOW_SEQ"}) /\ ~e.wrote_props) /\ ~e.wrote_props /\ ~AtKey(e)
  <2>1. v = DropBlank(e)
    BY <1>2 DEF EmptyPlain
  <2>2. Separated(v.out)
    BY <2>1, DropBlankApart
  <2>3. InContext(e, FlowTypes) => InContext(e, {"FLOW_MAP"})
    BY <1>2 DEF InContext, FlowTypes
  <2>4. InContext(e, FlowTypes) => Ends(v, {":"})
    BY <1>2, <2>1, <2>3
  <2> HIDE DEF v
  <2> QED BY <1>2, <2>2, <2>4 DEF Ends, Closable
<1>3. CASE ~(InContext(e, {"FLOW_SEQ"}) /\ ~e.wrote_props) /\ ~(~e.wrote_props /\ ~AtKey(e))
  <2>1. v = e
    BY <1>3 DEF EmptyPlain
  <2>2. Ends(e, Closable) /\ Ends(e, Colonable)
    BY DEF Ends, Closable, Colonable
  <2> QED BY <2>1, <2>2
<1> QED BY <1>1, <1>2, <1>3

\* A scalar's text may follow its properties, and what is due after it may
\* follow the scalar.
LEMMA ValueApart ==
  ASSUME NEW e \in Emitter, NEW evt \in EmitterEvent, Separated(e.out), Ends(e, Touchable),
         InContext(e, {"FLOW_MAP"}) /\ ~AtKey(e) /\ ~e.wrote_props => Ends(DropBlank(e), {":"})
  PROVE  LET v == EmitValue(e, evt)
         IN  /\ Separated(v.out)
             /\ InContext(e, FlowTypes) => Ends(v, Closable)
             /\ AtKey(e) => Ends(v, Colonable)
<1> DEFINE style == ChooseStyle(evt, InAnyFlow(e) \/ e.style # "BLOCK", AtKey(e))
           Good(v) == /\ Separated(v.out)
                      /\ InContext(e, FlowTypes) => Ends(v, Closable)
                      /\ AtKey(e) => Ends(v, Colonable)
<1>1. style \in {"PLAIN", "QUOTED"} \/ (style = "LITERAL" /\ ~InAnyFlow(e) /\ ~AtKey(e))
  <2>1. ASSUME NEW flow_ctx, NEW is_key
        PROVE  \/ ChooseStyle(evt, flow_ctx, is_key) \in {"PLAIN", "QUOTED"}
               \/ ChooseStyle(evt, flow_ctx, is_key) = "LITERAL" /\ ~flow_ctx /\ ~is_key
    BY DEF ChooseStyle
  <2> HIDE DEF style
  <2>2. \/ style \in {"PLAIN", "QUOTED"}
        \/ style = "LITERAL" /\ ~(InAnyFlow(e) \/ e.style # "BLOCK") /\ ~AtKey(e)
    BY <2>1, Zenon DEF style
  <2> QED BY <2>2
<1> HIDE DEF style
<1>2. InContext(e, FlowTypes) => InAnyFlow(e)
  BY LastContext DEF InContext, InAnyFlow
<1>3. EmitValue(e, evt) =
        CASE style = "PLAIN" /\ evt.value = "EMPTY" -> EmptyPlain(e)
          [] style = "PLAIN" /\ evt.value # "EMPTY" -> Put(e, <<"WORD">>)
          [] style = "QUOTED" -> Put(e, <<"QUOTED">>)
          [] style = "LITERAL" -> Put(e, <<"LITERAL", "\n">>)
  BY DEF EmitValue, style
<1>4. /\ "WORD" \in Symbol /\ "QUOTED" \in Symbol /\ "LITERAL" \in Symbol /\ "\n" \in Symbol
      /\ Joins("LITERAL", "\n")
      /\ \A right : \A left \in Touchable : Joins(left, right)
  BY SymbolsKnown, WhatJoins DEF Blank
<1>5. Good(EmptyPlain(e))
  BY EmptyPlainApart
<1>6. Good(Put(e, <<"WORD">>)) /\ Good(Put(e, <<"QUOTED">>))
  <2>1. /\ Separated(Put(e, <<"WORD">>).out) /\ Last(Put(e, <<"WORD">>).out) = "WORD"
        /\ Separated(Put(e, <<"QUOTED">>).out) /\ Last(Put(e, <<"QUOTED">>).out) = "QUOTED"
    BY <1>4, PutOneApart
  <2> QED BY <2>1 DEF Ends, Colonable, Closable
<1>7. CASE style = "LITERAL"
  <2>1. EmitValue(e, evt) = Put(e, <<"LITERAL", "\n">>)
    BY <1>3, <1>7
  <2>2. Separated(Put(e, <<"LITERAL", "\n">>).out)
    BY <1>4, PutTwoApart
  <2>3. ~InContext(e, FlowTypes) /\ ~AtKey(e)
    BY <1>1, <1>2, <1>7
  <2> QED BY <2>1, <2>2, <2>3
<1>8. CASE style \in {"PLAIN", "QUOTED"}
  <2>1. EmitValue(e, evt) \in {EmptyPlain(e), Put(e, <<"WORD">>), Put(e, <<"QUOTED">>)}
    BY <1>3, <1>8
  <2> HIDE DEF Good
  <2>2. Good(EmitValue(e, evt))
    BY <1>5, <1>6, <2>1
  <2> QED BY <2>2 DEF Good
<1> QED BY <1>1, <1>7, <1>8

-----------------------------------------------------------------------------

\* The contexts are nested as they were once a node is begun.
LEMMA BegunNested ==
  ASSUME NEW e \in Emitter, Nested(e.stack), NEW f, Begun(e, f)
  PROVE  Nested(f.stack)
<1> DEFINE n == Len(e.stack)
<1>1. n \in Nat /\ Len(f.stack) = n
  BY LastContext DEF Begun
<1>2. \A i \in 1..n : /\ f.stack[i].type = e.stack[i].type
                      /\ LevelOf(f.stack[i]) = LevelOf(e.stack[i])
                      /\ f.stack[i].count = e.stack[i].count
  BY DEF Begun, LevelOf
<1>3. \A i \in 1..n - 1 : f.stack[i].complex_key = e.stack[i].complex_key
  BY DEF Begun
<1> HIDE DEF n
<1>4. ASSUME NEW i \in 1..n, NEW j \in i..n, f.stack[i].type \in FlowTypes
      PROVE  f.stack[j].type \in FlowTypes
  <2>1. j \in 1..n
    BY <1>1
  <2> QED BY <1>2, <1>4, <2>1 DEF Nested, n
<1>5. ASSUME NEW i \in 1..n - 1
      PROVE  /\ LevelOf(f.stack[i]) = "VALUE" /\ f.stack[i + 1].type \notin FlowTypes =>
                  f.stack[i].complex_key
             /\ f.stack[i].type \in FlowTypes /\ LevelOf(f.stack[i]) # "VALUE" => f.stack[i].count > 0
  <2>1. i \in 1..n /\ i + 1 \in 1..n
    BY <1>1
  <2>2. /\ LevelOf(e.stack[i]) = "VALUE" /\ e.stack[i + 1].type \notin FlowTypes =>
             e.stack[i].complex_key
        /\ e.stack[i].type \in FlowTypes /\ LevelOf(e.stack[i]) # "VALUE" => e.stack[i].count > 0
    BY DEF Nested, n
  <2> QED BY <1>2, <1>3, <2>1, <2>2
<1> QED BY <1>1, <1>4, <1>5 DEF Nested

\* Only the last context, whose type stays, has changed.
LEMMA TopNested ==
  ASSUME NEW e \in Emitter, e.stack # <<>>, Nested(e.stack), NEW f, SameBelow(e.stack, f.stack),
         f.stack[Len(e.stack)].type = e.stack[Len(e.stack)].type
  PROVE  Nested(f.stack)
<1>1. PICK n \in Nat : Len(e.stack) = n
  BY LastContext
<1>2. /\ Len(f.stack) = n /\ \A i \in 1..n - 1 : f.stack[i] = e.stack[i]
      /\ f.stack[n].type = e.stack[n].type
  BY <1>1 DEF SameBelow
<1>3. ASSUME NEW i \in 1..n
      PROVE  f.stack[i].type = e.stack[i].type
  <2>1. i = n \/ i \in 1..n - 1
    OBVIOUS
  <2> QED BY <1>2, <2>1
<1>4. ASSUME NEW i \in 1..n, NEW j \in i..n, f.stack[i].type \in FlowTypes
      PROVE  f.stack[j].type \in FlowTypes
  <2>1. j \in 1..n
    OBVIOUS
  <2> QED BY <1>1, <1>3, <1>4, <2>1 DEF Nested
<1>5. ASSUME NEW i \in 1..n - 1
      PROVE  /\ LevelOf(f.stack[i]) = "VALUE" /\ f.stack[i + 1].type \notin FlowTypes =>
                  f.stack[i].complex_key
             /\ f.stack[i].type \in FlowTypes /\ LevelOf(f.stack[i]) # "VALUE" => f.stack[i].count > 0
  <2>1. i + 1 \in 1..n
    OBVIOUS
  <2>2. f.stack[i] = e.stack[i] /\ f.stack[i + 1].type = e.stack[i + 1].type
    BY <1>2, <1>3, <2>1
  <2> QED BY <1>1, <2>2 DEF Nested
<1> QED BY <1>2, <1>4, <1>5 DEF Nested

\* A context is pushed.
LEMMA PushNested ==
  ASSUME NEW e \in Emitter, Nested(e.stack), NEW ctx \in Context,
         InAnyFlow(e) => ctx.type \in FlowTypes,
         e.stack # <<>> =>
           /\ LevelOf(Last(e.stack)) = "VALUE" /\ ctx.type \notin FlowTypes =>
                Last(e.stack).complex_key
           /\ Last(e.stack).type \in FlowTypes /\ LevelOf(Last(e.stack)) # "VALUE" =>
                Last(e.stack).count > 0
  PROVE  Nested(Append(e.stack, ctx))
<1> DEFINE s == Append(e.stack, ctx)
<1>1. PICK n \in Nat : Len(e.stack) = n
  BY LastContext
<1>2. /\ Len(s) = n + 1 /\ s[n + 1] = ctx /\ \A i \in 1..n : s[i] = e.stack[i]
  BY <1>1, PushContext
<1> HIDE DEF s
<1>3. ASSUME NEW i \in 1..n + 1, NEW j \in i..n + 1, s[i].type \in FlowTypes
      PROVE  s[j].type \in FlowTypes
  <2>1. CASE j = n + 1
    <3>1. CASE i = n + 1
      BY <1>3, <2>1, <3>1
    <3>2. CASE i \in 1..n
      <4>1. e.stack[i].type \in FlowTypes
        BY <1>2, <1>3, <3>2
      <4>2. InAnyFlow(e)
        BY <1>1, <3>2, <4>1 DEF InAnyFlow
      <4> QED BY <1>2, <2>1, <4>2
    <3> QED BY <3>1, <3>2
  <2>2. CASE j \in i..n
    <3>1. i \in 1..n /\ j \in 1..n
      BY <2>2
    <3> QED BY <1>1, <1>2, <1>3, <2>2, <3>1 DEF Nested
  <2> QED BY <2>1, <2>2
<1>4. ASSUME NEW i \in 1..n
      PROVE  /\ LevelOf(s[i]) = "VALUE" /\ s[i + 1].type \notin FlowTypes => s[i].complex_key
             /\ s[i].type \in FlowTypes /\ LevelOf(s[i]) # "VALUE" => s[i].count > 0
  <2>1. CASE i = n
    <3>1. e.stack # <<>> /\ Last(e.stack) = e.stack[n]
      BY <1>1, <2>1, LastContext
    <3>2. s[i] = Last(e.stack) /\ s[i + 1] = ctx
      BY <1>2, <2>1, <3>1
    <3> QED BY <3>1, <3>2
  <2>2. CASE i \in 1..n - 1
    <3>1. i + 1 \in 1..n
      BY <2>2
    <3>2. s[i] = e.stack[i] /\ s[i + 1] = e.stack[i + 1]
      BY <1>2, <3>1
    <3> QED BY <1>1, <2>2, <3>2 DEF Nested
  <2> QED BY <2>1, <2>2
<1>5. Nested(s)
  <2>1. Len(s) - 1 = n
    BY <1>2
  <2> QED BY <1>2, <1>3, <1>4, <2>1 DEF Nested
<1> QED BY <1>5 DEF s

\* The last context is closed.
LEMMA PopNested ==
  ASSUME NEW e \in Emitter, e.stack # <<>>, Nested(e.stack)
  PROVE  Nested(Front(e.stack))
<1>1. PICK n \in Nat : Len(e.stack) = n + 1
  BY LastContext
<1>2. Len(Front(e.stack)) = n /\ \A i \in 1..n : Front(e.stack)[i] = e.stack[i]
  <2>1. e.stack \in Seq(Context)
    BY LastContext
  <2> QED BY <1>1, <2>1, FrontAndLast
<1>3. ASSUME NEW i \in 1..n, NEW j \in i..n, Front(e.stack)[i].type \in FlowTypes
      PROVE  Front(e.stack)[j].type \in FlowTypes
  <2>1. j \in 1..n /\ i \in 1..n + 1 /\ j \in i..n + 1
    OBVIOUS
  <2> QED BY <1>1, <1>2, <1>3, <2>1 DEF Nested
<1>4. ASSUME NEW i \in 1..n - 1
      PROVE  /\ LevelOf(Front(e.stack)[i]) = "VALUE" /\ Front(e.stack)[i + 1].type \notin FlowTypes =>
                  Front(e.stack)[i].complex_key
             /\ Front(e.stack)[i].type \in FlowTypes /\ LevelOf(Front(e.stack)[i]) # "VALUE" =>
                  Front(e.stack)[i].count > 0
  <2>1. i \in 1..n /\ i + 1 \in 1..n /\ n + 1 - 1 = n
    OBVIOUS
  <2>2. Front(e.stack)[i] = e.stack[i] /\ Front(e.stack)[i + 1] = e.stack[i + 1]
    BY <1>2, <2>1
  <2> QED BY <1>1, <2>1, <2>2 DEF Nested
<1> QED BY <1>2, <1>3, <1>4 DEF Nested

\* advance_ctx counts an entry when it is complete.
LEMMA AdvanceCounts ==
  ASSUME NEW f \in Emitter, f.stack # <<>>
  PROVE  LET a == AdvanceContext(f)
         IN  /\ a.stack # <<>> /\ Last(a.stack).type = Last(f.stack).type
             /\ Last(a.stack).complex_key = Last(f.stack).complex_key
             /\ LevelOf(Last(a.stack)) = "VALUE" <=> AtKey(f)
             /\ LevelOf(Last(a.stack)) # "VALUE" => Last(a.stack).count > 0
<1> DEFINE a == AdvanceContext(f)
           ctx == Last(f.stack)
           after == Last(a.stack)
<1>1. a.stack # <<>> /\ Advanced(ctx, after)
  BY AdvanceMoves
<1>2. ctx \in Context /\ ctx.count \in Nat /\ ctx.expect_key \in BOOLEAN
  BY LastContext DEF Context
<1>3. AtKey(f) <=> ctx.type \in MapTypes /\ ctx.expect_key
  BY DEF AtKey, InContext
<1> HIDE DEF a, ctx, after
<1>4. after.type = ctx.type /\ after.complex_key = ctx.complex_key
  BY <1>1 DEF Advanced
<1>5. LevelOf(after) = "VALUE" <=> AtKey(f)
  <2>1. LevelOf(after) = Stream!AfterNode(LevelOf(ctx))
    BY <1>1, AdvancedLevel
  <2>2. LevelOf(ctx) = "KEY" <=> AtKey(f)
    BY <1>3, LevelTypes
  <2>3. LevelOf(ctx) \in {"SEQ", "KEY", "VALUE"}
    BY LevelTypes
  <2> QED BY <2>1, <2>2, <2>3 DEF Stream!AfterNode
<1>6. LevelOf(after) # "VALUE" => after.count > 0
  <2>1. ASSUME ~AtKey(f) PROVE after.count > 0
    <3>1. after.count = ctx.count + 1
      BY <1>1, <1>3, <2>1 DEF Advanced
    <3> QED BY <1>2, <3>1
  <2> QED BY <1>5, <2>1
<1> QED BY <1>1, <1>4, <1>5, <1>6 DEF a, ctx, after

\* A node is complete.
LEMMA AdvanceApart ==
  ASSUME NEW f \in Emitter, Nested(f.stack), Separated(f.out),
         InContext(f, FlowTypes) => Ends(f, Closable),
         AtKey(f) /\ ~f.key_was_alias /\ ~Last(f.stack).complex_key => Ends(f, Colonable)
  PROVE  Apart(AdvanceContext(f))
<1> DEFINE a == AdvanceContext(f)
<1>1. CASE f.stack = <<>>
  <2>1. a = f
    BY <1>1 DEF AdvanceContext
  <2> QED BY <1>1, <2>1 DEF Apart, ValueDue, FirstDue, InContext
<1>2. CASE f.stack # <<>>
  <2>1. /\ a.stack # <<>> /\ Last(a.stack).type = Last(f.stack).type
        /\ Last(a.stack).complex_key = Last(f.stack).complex_key
        /\ LevelOf(Last(a.stack)) = "VALUE" <=> AtKey(f)
        /\ LevelOf(Last(a.stack)) # "VALUE" => Last(a.stack).count > 0
    BY <1>2, AdvanceCounts
  <2>2. /\ a \in Emitter /\ SameBelow(f.stack, a.stack) /\ a.key_was_alias = f.key_was_alias
        /\ a.out = f.out /\ Last(a.stack) = a.stack[Len(a.stack)]
    BY <1>2, AdvanceMoves
  <2> HIDE DEF a
  <2>3. Nested(a.stack)
    <3>1. a.stack[Len(f.stack)].type = f.stack[Len(f.stack)].type
      BY <1>2, <2>1, <2>2, LastContext DEF SameBelow
    <3> QED BY <1>2, <2>2, <3>1, TopNested
  <2>4. InContext(a, FlowTypes) => Ends(a, Closable)
    BY <1>2, <2>1, <2>2 DEF InContext, Ends
  <2>5. ValueDue(a) => Ends(a, Colonable)
    <3>1. ASSUME ValueDue(a) PROVE Ends(f, Colonable)
      <4>1. LevelOf(Last(a.stack)) = "VALUE"
        BY <3>1, LevelTypes DEF ValueDue, InContext, AtKey
      <4> QED BY <2>1, <2>2, <3>1, <4>1 DEF ValueDue
    <3> QED BY <2>2, <3>1 DEF Ends
  <2>6. ~FirstDue(a)
    <3>1. LevelOf(Last(a.stack)) # "VALUE" => Last(a.stack).count # 0
      <4>1. Last(a.stack).count \in Nat
        BY <2>1, <2>2, LastContext DEF Context
      <4> QED BY <2>1, <4>1
    <3> QED BY <3>1 DEF FirstDue
  <2>7. Separated(a.out)
    BY <2>2
  <2> QED BY <2>3, <2>4, <2>5, <2>6, <2>7 DEF Apart, a
<1> QED BY <1>1, <1>2

\* And once it is complete.
LEMMA AdvanceNested ==
  ASSUME NEW f \in Emitter, Nested(f.stack)
  PROVE  LET a == AdvanceContext(f)
         IN  /\ a \in Emitter /\ a.out = f.out /\ Nested(a.stack)
             /\ InAnyFlow(a) => InAnyFlow(f)
<1> DEFINE a == AdvanceContext(f)
<1>1. CASE f.stack = <<>>
  <2>1. a = f
    BY <1>1 DEF AdvanceContext
  <2> QED BY <2>1
<1>2. CASE f.stack # <<>>
  <2>1. /\ a.stack # <<>> /\ Last(a.stack).type = Last(f.stack).type
    BY <1>2, AdvanceCounts
  <2>2. /\ a \in Emitter /\ SameBelow(f.stack, a.stack) /\ a.out = f.out
        /\ Last(a.stack) = a.stack[Len(a.stack)]
    BY <1>2, AdvanceMoves
  <2> HIDE DEF a
  <2>3. PICK n \in Nat : n = Len(f.stack)
    BY LastContext
  <2>4. Len(a.stack) = n /\ \A i \in 1..n - 1 : a.stack[i] = f.stack[i]
    BY <2>2, <2>3 DEF SameBelow
  <2>5. a.stack[n].type = f.stack[n].type
    BY <1>2, <2>1, <2>2, <2>3, <2>4, LastContext
  <2>6. ASSUME NEW i \in 1..n
        PROVE  a.stack[i].type = f.stack[i].type
    <3>1. i = n \/ i \in 1..n - 1
      OBVIOUS
    <3> QED BY <2>4, <2>5, <3>1
  <2>7. Nested(a.stack)
    BY <1>2, <2>2, <2>3, <2>5, TopNested
  <2>8. InAnyFlow(a) => InAnyFlow(f)
    BY <2>3, <2>4, <2>6 DEF InAnyFlow
  <2> QED BY <2>2, <2>7, <2>8 DEF a
<1> QED BY <1>1, <1>2

\* A context, when it is pushed.
LEMMA NewContextFields ==
  ASSUME NEW type \in MapTypes \cup FlowTypes \cup {"BLOCK_SEQ"}, NEW indent \in Nat
  PROVE  LET ctx == NewContext(type, indent)
         IN  /\ ctx \in Context /\ ctx.type = type /\ ctx.count = 0
             /\ ctx.expect_key = (type \in MapTypes)
BY DEF NewContext, Context

\* A collection is open.
LEMMA OpenApart ==
  ASSUME NEW f \in Emitter, Nested(f.stack), Separated(f.out),
         NEW type \in MapTypes \cup FlowTypes \cup {"BLOCK_SEQ"}, NEW indent \in Nat,
         InAnyFlow(f) => type \in FlowTypes,
         type \in FlowTypes => Ends(f, {"[", "{"}),
         type \notin FlowTypes /\ AtKey(f) => Last(f.stack).complex_key
  PROVE  Apart(OpenContext(f, type, indent))
<1> DEFINE a == AdvanceContext(f)
           ctx == NewContext(type, indent)
           g == OpenContext(f, type, indent)
<1>1. /\ ctx \in Context /\ ctx.type = type /\ ctx.count = 0
      /\ ctx.expect_key = (type \in MapTypes)
  BY NewContextFields
<1>2. /\ a \in Emitter /\ a.out = f.out /\ Nested(a.stack)
      /\ InAnyFlow(a) => type \in FlowTypes
  BY AdvanceNested
<1>3. a.stack # <<>> =>
        /\ LevelOf(Last(a.stack)) = "VALUE" /\ type \notin FlowTypes => Last(a.stack).complex_key
        /\ Last(a.stack).type \in FlowTypes /\ LevelOf(Last(a.stack)) # "VALUE" =>
             Last(a.stack).count > 0
  <2>1. f.stack = <<>> => a = f
    BY DEF AdvanceContext
  <2>2. f.stack # <<>> =>
          /\ Last(a.stack).complex_key = Last(f.stack).complex_key
          /\ LevelOf(Last(a.stack)) = "VALUE" <=> AtKey(f)
          /\ LevelOf(Last(a.stack)) # "VALUE" => Last(a.stack).count > 0
    BY AdvanceCounts
  <2> HIDE DEF a
  <2> QED BY <2>1, <2>2
<1>4. g = [a EXCEPT !.stack = Append(@, ctx), !.after_seq_dash = f.after_seq_dash]
  BY DEF OpenContext
<1>5. f.after_seq_dash \in BOOLEAN
  BY DEF Emitter
<1> HIDE DEF a, ctx, g
<1>6. Nested(Append(a.stack, ctx))
  BY <1>1, <1>2, <1>3, PushNested
<1>7. Append(a.stack, ctx) # <<>> /\ Last(Append(a.stack, ctx)) = ctx
  BY <1>1, <1>2, PushContext
<1>8. g.stack = Append(a.stack, ctx) /\ g.out = f.out
  BY <1>2, <1>4 DEF Emitter
<1>9. InContext(g, FlowTypes) => Ends(g, {"[", "{"})
  BY <1>1, <1>7, <1>8 DEF InContext, Ends
<1>10. ~ValueDue(g)
  BY <1>1, <1>7, <1>8 DEF ValueDue, InContext, AtKey
<1>11. InContext(g, FlowTypes) => Ends(g, Closable)
  BY <1>9 DEF Ends, Closable, Colonable, Touchable
<1>12. FirstDue(g) => Ends(g, {"[", "{"})
  BY <1>9 DEF FirstDue
<1>13. Separated(g.out) /\ Nested(g.stack)
  BY <1>6, <1>8
<1> QED BY <1>10, <1>11, <1>12, <1>13 DEF Apart, g

-----------------------------------------------------------------------------

\* Only the text matters to a blank taken back.
LEMMA SameDrop ==
  ASSUME NEW e \in Emitter, NEW f \in Emitter, f.out = e.out
  PROVE  DropBlank(f).out = DropBlank(e).out
BY DEF DropBlank, EndsWith, Emitter

\* A node begun is in the context it was in.
LEMMA BegunContext ==
  ASSUME NEW e \in Emitter, NEW f, Begun(e, f), NEW types
  PROVE  /\ InContext(f, types) <=> InContext(e, types)
         /\ AtBlockValue(f) <=> AtBlockValue(e)
<1>1. f \in Emitter /\ (e.stack = <<>> <=> f.stack = <<>>) /\ Len(f.stack) = Len(e.stack)
  BY LastContext DEF Begun
<1>2. f.stack # <<>> => /\ Last(f.stack).type = Last(e.stack).type
                        /\ Last(f.stack).expect_key = Last(e.stack).expect_key
  BY <1>1, LastContext DEF Begun
<1> QED BY <1>1, <1>2 DEF InContext, AtBlockValue

\* A scalar, in each context.
LEMMA ScalarApart ==
  ASSUME NEW e, Settled(e), Apart(e), NEW evt \in EmitterEvent
  PROVE  Apart(ScalarText(e, evt))
<1> DEFINE p == EmitPreNode(e, FALSE)
           q == EmitProps(p, evt)
           v == EmitValue(q, evt)
<1>1. e \in Emitter /\ Nested(e.stack)
  BY DEF Settled, Apart
<1>2. Begun(e, p) /\ Ready(p) /\ p \in Emitter
  <2>1. Begun(e, p) /\ Ready(p)
    BY PreNodeReady
  <2> QED BY <2>1 DEF Begun
<1>3. /\ Separated(p.out) /\ Ends(p, Touchable)
      /\ InContext(e, {"FLOW_MAP"}) /\ ~AtKey(e) => Ends(DropBlank(p), {":"})
  BY PreNodeApart
<1> HIDE DEF p
<1>4. Text(p, q) /\ q \in Emitter
  BY <1>2, PropsText DEF Text
<1>5. Separated(q.out) /\ Ends(q, Touchable) /\ (~q.wrote_props => q.out = p.out)
  BY <1>2, <1>3, PropsApart
<1> HIDE DEF q
<1>6. Begun(e, q)
  BY <1>2, <1>4, BegunText
<1>7. InContext(q, {"FLOW_MAP"}) /\ ~AtKey(q) /\ ~q.wrote_props => Ends(DropBlank(q), {":"})
  <2>1. (InContext(q, {"FLOW_MAP"}) <=> InContext(e, {"FLOW_MAP"})) /\ (AtKey(q) <=> AtKey(e))
    BY <1>1, <1>6, BegunContext, BegunPlace
  <2>2. ~q.wrote_props => DropBlank(q).out = DropBlank(p).out
    BY <1>2, <1>4, <1>5, SameDrop
  <2> QED BY <1>3, <2>1, <2>2 DEF Ends
<1>8. /\ Separated(v.out)
      /\ InContext(q, FlowTypes) => Ends(v, Closable)
      /\ AtKey(q) => Ends(v, Colonable)
  BY <1>4, <1>5, <1>7, ValueApart
<1>9. Text(q, v) /\ v \in Emitter
  BY <1>4, ValueText DEF Text
<1> HIDE DEF v
<1>10. Begun(e, v)
  BY <1>6, <1>9, BegunText
<1>11. Nested(v.stack)
  BY <1>1, <1>10, BegunNested
<1>12. (InContext(v, FlowTypes) <=> InContext(q, FlowTypes)) /\ (AtKey(v) <=> AtKey(q))
  BY <1>9, TextContexts DEF Text, InContext
<1>13. Apart(AdvanceContext(v))
  BY <1>8, <1>9, <1>11, <1>12, AdvanceApart
<1> QED BY <1>13 DEF ScalarText, p, q, v

\* An alias, in each context: after a key, the flag keeps the ':' away.
LEMMA AliasApart ==
  ASSUME NEW e, Settled(e), Apart(e)
  PROVE  Apart(AliasText(e))
<1> DEFINE p == EmitPreNode(e, FALSE)
           named == [p EXCEPT !.key_was_alias = AtKey(e)]
           v == Put(named, <<"*">>)
<1>1. e \in Emitter /\ Nested(e.stack)
  BY DEF Settled, Apart
<1>2. Begun(e, p) /\ p \in Emitter
  <2>1. Begun(e, p)
    BY PreNodeReady
  <2> QED BY <2>1 DEF Begun
<1>3. Separated(p.out) /\ Ends(p, Touchable)
  BY PreNodeApart
<1> HIDE DEF p
<1>4. AtKey(e) \in BOOLEAN
  <2>1. e.stack # <<>> => Last(e.stack).expect_key \in BOOLEAN
    BY <1>1, LastContext DEF Context
  <2> QED BY <2>1 DEF AtKey, InContext
<1>5. /\ named \in Emitter /\ named.stack = p.stack /\ named.out = p.out
      /\ named.key_was_alias = AtKey(e)
  BY <1>2, <1>4 DEF Emitter
<1> HIDE DEF named
<1>6. "*" \in Symbol /\ \A left \in Touchable : Joins(left, "*")
  BY SymbolsKnown, WhatJoins
<1>7. Ends(named, Touchable)
  BY <1>3, <1>5 DEF Ends
<1>8. Separated(v.out) /\ Last(v.out) = "*"
  BY <1>3, <1>5, <1>6, <1>7, PutOneApart
<1>9. Text(named, v) /\ v \in Emitter
  BY <1>5, <1>6, ShortTexts, PutText DEF Text
<1> HIDE DEF v
<1>10. v.stack = p.stack /\ v.key_was_alias = AtKey(e)
  BY <1>5, <1>9 DEF Text
<1>11. Nested(v.stack)
  BY <1>1, <1>2, <1>10, BegunNested
<1>12. AtKey(v) => v.key_was_alias
  <2>1. AtKey(p) <=> AtKey(e)
    BY <1>1, <1>2, BegunPlace
  <2> QED BY <1>10, <2>1 DEF AtKey, InContext
<1>13. Ends(v, Closable)
  BY <1>8 DEF Ends, Closable
<1>14. Apart(AdvanceContext(v))
  BY <1>8, <1>9, <1>11, <1>12, <1>13, AdvanceApart
<1> QED BY <1>14 DEF AliasText, p, named, v

\* A "[" or "{", in each context.
LEMMA FlowStartApart ==
  ASSUME NEW e, Settled(e), Apart(e), NEW evt \in EmitterEvent
  PROVE  Apart(FlowStartText(e, evt))
<1> DEFINE p == EmitPreNode(e, FALSE)
           q == EmitProps(p, evt)
           type == FlowType(evt)
           a == Brackets(type)[1]
           v == Put(q, <<a>>)
<1>1. e \in Emitter /\ Nested(e.stack)
  BY DEF Settled, Apart
<1>2. Begun(e, p) /\ p \in Emitter
  <2>1. Begun(e, p)
    BY PreNodeReady
  <2> QED BY <2>1 DEF Begun
<1>3. Separated(p.out) /\ Ends(p, Touchable)
  BY PreNodeApart
<1> HIDE DEF p
<1>4. Text(p, q) /\ q \in Emitter
  BY <1>2, PropsText DEF Text
<1>5. Separated(q.out) /\ Ends(q, Touchable)
  BY <1>2, <1>3, PropsApart
<1> HIDE DEF q
<1>6. a \in {"[", "{"}
  BY DEF Brackets
<1>7. type \in FlowTypes /\ type \in MapTypes \cup FlowTypes \cup {"BLOCK_SEQ"}
  BY DEF FlowType, FlowTypes
<1> HIDE DEF a, type
<1>8. a \in Symbol /\ \A left \in Touchable : Joins(left, a)
  BY <1>6, SymbolsKnown, WhatJoins
<1>9. Separated(v.out) /\ Last(v.out) = a
  BY <1>4, <1>5, <1>8, PutOneApart
<1>10. Text(q, v) /\ v \in Emitter
  BY <1>4, <1>8, ShortTexts, PutText DEF Text
<1> HIDE DEF v
<1>11. Nested(v.stack)
  <2>1. Begun(e, v)
    BY <1>2, <1>4, <1>10, BegunText, TextTransitive
  <2> QED BY <1>1, <2>1, BegunNested
<1>12. Ends(v, {"[", "{"})
  BY <1>6, <1>9 DEF Ends
<1>13. Apart(OpenContext(v, type, 0))
  BY <1>7, <1>9, <1>10, <1>11, <1>12, OpenApart
<1> QED BY <1>13 DEF FlowStartText, p, q, type, a, v

\* The properties of a block collection leave the blank that follows them
\* out.
LEMMA BlockPropsApart ==
  ASSUME NEW e \in Emitter, NEW evt \in EmitterEvent, NEW after_key, Separated(e.out),
         after_key \/ Ends(e, Touchable)
  PROVE  Separated(BlockCollectionProps(e, evt, after_key).out)
<1> DEFINE f == IF after_key THEN Put(e, <<" ">>) ELSE e
<1>1. f \in Emitter /\ Separated(f.out) /\ Ends(f, Touchable)
  <2>1. CASE after_key
    <3>1. " " \in Symbol /\ Joins(Last(e.out), " ")
      BY SymbolsKnown, WhatJoins DEF Blank
    <3>2. <<" ">> \in Seq(Symbol) /\ <<" ">> # <<>> /\ <<" ">>[1] = " " /\ Last(<<" ">>) = " "
          /\ Separated(<<" ">>)
      BY <3>1, ShortTexts
    <3>3. Separated(Put(e, <<" ">>).out) /\ Last(Put(e, <<" ">>).out) = " "
      BY <3>1, <3>2, PutApart
    <3>4. Put(e, <<" ">>) \in Emitter
      BY <3>2, PutText DEF Text
    <3> QED BY <2>1, <3>3, <3>4 DEF Ends, Touchable, Blank
  <2>2. CASE ~after_key
    BY <2>2
  <2> QED BY <2>1, <2>2
<1> HIDE DEF f
<1>2. EmitProps(f, evt) \in Emitter /\ Separated(EmitProps(f, evt).out)
  BY <1>1, PropsText, PropsApart DEF Text
<1>3. Separated(DropBlank(EmitProps(f, evt)).out)
  BY <1>2, DropBlankApart
<1> QED BY <1>3 DEF BlockCollectionProps, f

\* The start of a block collection: a key, a value, an entry or a root.
LEMMA BlockStartApart ==
  ASSUME NEW e, Settled(e), Apart(e), ~InAnyFlow(e), NEW evt \in EmitterEvent
  PROVE  Apart(BlockStartText(e, evt))
<1> DEFINE p == EmitPreNode(e, TRUE)
           f == IF AtBlockKey(p) THEN ComplexKeyOpen(p, evt) ELSE BlockValueOpen(p, evt)
           type == BlockType(evt)
           indent == BlockIndent(f, type)
<1>1. e \in Emitter /\ Nested(e.stack)
  BY DEF Settled, Apart
<1>2. Begun(e, p) /\ Ready(p) /\ p \in Emitter
  <2>1. Begun(e, p) /\ Ready(p)
    BY PreNodeReady
  <2> QED BY <2>1 DEF Begun
<1>3. Separated(p.out) /\ (~AtBlockValue(e) => Ends(p, Touchable))
  BY PreNodeApart
<1> HIDE DEF p
<1>4. (AtBlockValue(p) <=> AtBlockValue(e)) /\ ~InAnyFlow(p)
  BY <1>1, <1>2, BegunContext, BegunPlace
<1>5. Begun(e, f) /\ Separated(f.out) /\ (AtKey(f) => Last(f.stack).complex_key)
  <2>1. CASE AtBlockKey(p)
    <3> DEFINE mark == Put(p, <<"?">>)
    <3>1. Ends(p, Touchable)
      BY <1>3, <1>4, <2>1 DEF AtBlockKey, AtBlockValue
    <3>2. "?" \in Symbol /\ \A left \in Touchable : Joins(left, "?")
      BY SymbolsKnown, WhatJoins
    <3>3. Separated(mark.out)
      BY <1>2, <1>3, <3>1, <3>2, PutOneApart
    <3>4. mark \in Emitter
      BY <1>2, <3>2, ShortTexts, PutText DEF Text
    <3>5. Separated(BlockCollectionProps(mark, evt, TRUE).out)
      BY <3>3, <3>4, BlockPropsApart
    <3>6. /\ Begun(e, ComplexKeyOpen(p, evt)) /\ Last(ComplexKeyOpen(p, evt).stack).complex_key
          /\ ComplexKeyOpen(p, evt).out = BlockCollectionProps(mark, evt, TRUE).out
      BY <1>2, <2>1, ComplexKeyBegun
    <3> QED BY <2>1, <3>5, <3>6
  <2>2. CASE ~AtBlockKey(p)
    <3>1. Separated(BlockCollectionProps(p, evt, AtBlockValue(p)).out)
      BY <1>2, <1>3, <1>4, BlockPropsApart
    <3>2. /\ Begun(e, BlockValueOpen(p, evt)) /\ BlockValueOpen(p, evt).stack = p.stack
          /\ BlockValueOpen(p, evt).out = BlockCollectionProps(p, evt, AtBlockValue(p)).out
      BY <1>2, <2>2, BlockValueBegun
    <3>3. ~AtKey(BlockValueOpen(p, evt))
      <4>1. AtKey(BlockValueOpen(p, evt)) <=> AtKey(p)
        BY <3>2 DEF AtKey, InContext
      <4>2. ~AtKey(p)
        BY <1>2, <1>4, <2>2, LastContext
           DEF AtKey, AtBlockKey, InContext, InAnyFlow, MapTypes, FlowTypes
      <4> QED BY <4>1, <4>2
    <3> QED BY <2>2, <3>1, <3>2, <3>3
  <2> QED BY <2>1, <2>2
<1> HIDE DEF f
<1>6. f \in Emitter /\ Nested(f.stack) /\ ~InAnyFlow(f)
  BY <1>1, <1>5, BegunNested, BegunPlace DEF Begun
<1>7. type \notin FlowTypes /\ type \in MapTypes \cup FlowTypes \cup {"BLOCK_SEQ"}
  BY DEF BlockType, FlowTypes, MapTypes
<1>8. indent \in Nat
  <2>1. f.indent \in Nat
    BY <1>6 DEF Emitter
  <2>2. f.stack # <<>> => Last(f.stack).indent \in Nat
    BY <1>6, LastContext DEF Context
  <2> QED BY <2>1, <2>2 DEF BlockIndent, DashWidth, InContext
<1> HIDE DEF type, indent
<1>9. Apart(OpenContext(f, type, indent))
  BY <1>5, <1>6, <1>7, <1>8, OpenApart
<1> QED BY <1>9 DEF BlockStartText, p, f, type, indent

\* The end of a collection: of an empty block collection, brackets.
LEMMA EndSeparated ==
  ASSUME NEW e, Settled(e), Apart(e), e.stack # <<>>, LevelOf(Last(e.stack)) # "VALUE"
  PROVE  LET f == EndText(e)
         IN  /\ Separated(f.out)
             /\ Last(e.stack).type \in FlowTypes => Ends(f, {"]", "}"})
<1> DEFINE ctx == Last(e.stack)
           brackets == Brackets(ctx.type)
           close == IF ctx.type \in FlowTypes THEN Put(e, <<brackets[2]>>)
                    ELSE IF ctx.count > 0 THEN e
                    ELSE IF e.out = <<>> \/ EndsWith(e, {" ", "\n"}) THEN Put(e, brackets)
                    ELSE Put(e, <<" ">> \o brackets)
           f == EndText(e)
<1>1. e \in Emitter /\ Separated(e.out) /\ e.out \in Seq(Symbol)
  BY DEF Settled, Apart, Emitter
<1>2. PICK a \in {"[", "{"}, b \in {"]", "}"} : brackets = <<a, b>>
  BY Zenon DEF Brackets
<1>3. a \in Symbol /\ b \in Symbol /\ " " \in Symbol /\ Joins(a, b)
      /\ (\A left \in Closable : Joins(left, b)) /\ (\A left \in Blank : Joins(left, a))
      /\ Joins(Last(e.out), " ")
  <2>1. a \in Symbol /\ b \in Symbol /\ " " \in Symbol
    BY SymbolsKnown
  <2>2. Joins(a, b) /\ (\A left \in Blank : Joins(left, a)) /\ Joins(Last(e.out), " ")
    BY WhatJoins DEF Touchable, Blank
  <2>3. \A left \in Closable : Joins(left, b)
    BY WhatJoins
  <2> QED BY <2>1, <2>2, <2>3
<1> HIDE DEF brackets
<1>4. /\ brackets \in Seq(Symbol) /\ brackets # <<>> /\ brackets[1] = a /\ Last(brackets) = b
      /\ Separated(brackets) /\ brackets[2] = b
  <2>1. <<a, b>>[2] = b
    OBVIOUS
  <2> QED BY <1>2, <1>3, <2>1, ShortTexts
<1>5. /\ close \in Emitter /\ Separated(close.out)
      /\ ctx.type \in FlowTypes => Ends(close, {"]", "}"})
  <2>1. CASE ctx.type \in FlowTypes
    <3>1. close = Put(e, <<b>>)
      BY <1>4, <2>1
    <3>2. Ends(e, Closable)
      BY <2>1 DEF Apart, InContext
    <3>3. Separated(Put(e, <<b>>).out) /\ Last(Put(e, <<b>>).out) = b
      BY <1>1, <1>3, <3>2, PutOneApart
    <3>4. Put(e, <<b>>) \in Emitter
      BY <1>1, <1>3, ShortTexts, PutText DEF Text
    <3> QED BY <3>1, <3>3, <3>4 DEF Ends
  <2>2. CASE ctx.type \notin FlowTypes /\ ctx.count > 0
    BY <1>1, <2>2
  <2>3. CASE /\ ctx.type \notin FlowTypes /\ ~(ctx.count > 0)
             /\ e.out = <<>> \/ EndsWith(e, {" ", "\n"})
    <3>1. close = Put(e, brackets)
      BY <2>3
    <3>2. e.out # <<>> => Joins(Last(e.out), brackets[1])
      BY <1>3, <1>4, <2>3 DEF EndsWith, Blank
    <3>3. Separated(Put(e, brackets).out) /\ Put(e, brackets) \in Emitter
      BY <1>1, <1>4, <3>2, PutApart, PutText DEF Text
    <3> QED BY <2>3, <3>1, <3>3
  <2>4. CASE /\ ctx.type \notin FlowTypes /\ ~(ctx.count > 0)
             /\ ~(e.out = <<>> \/ EndsWith(e, {" ", "\n"}))
    <3> DEFINE blank == <<" ">>
    <3>1. close = Put(e, blank \o brackets)
      BY <2>4
    <3>2. /\ blank \in Seq(Symbol) /\ blank # <<>> /\ blank[1] = " " /\ Last(blank) = " "
          /\ Separated(blank)
      BY <1>3, ShortTexts
    <3> HIDE DEF blank
    <3>3. blank \o brackets \in Seq(Symbol)
      BY <1>4, <3>2, ConcatProperties
    <3>4. close \in Emitter /\ close.out = e.out \o (blank \o brackets)
      <4>1. LET g == Put(e, blank \o brackets)
            IN  g \in Emitter /\ g.out = e.out \o (blank \o brackets)
        BY <1>1, <3>3, PutText DEF Text
      <4> HIDE DEF close
      <4> QED BY <3>1, <4>1
    <3>5. /\ e.out \o blank \in Seq(Symbol) /\ e.out \o blank # <<>>
          /\ Separated(e.out \o blank) /\ Last(e.out \o blank) = " "
      BY <1>1, <1>3, <3>2, ConcatApart, ConcatProperties
    <3>6. Joins(" ", brackets[1])
      BY WhatJoins DEF Touchable, Blank
    <3>7. Separated((e.out \o blank) \o brackets)
      BY <1>4, <3>5, <3>6, ConcatApart
    <3>8. (e.out \o blank) \o brackets = e.out \o (blank \o brackets)
      BY <1>1, <1>4, <3>2, ThreeTexts
    <3> QED BY <2>4, <3>4, <3>7, <3>8
  <2> QED BY <2>1, <2>2, <2>3, <2>4
<1> HIDE DEF close
<1>6. f = [close EXCEPT !.stack = Front(@), !.after_seq_dash = FALSE]
  BY DEF EndText, close, brackets
<1>7. f.out = close.out
  BY <1>5, <1>6 DEF Emitter
<1> QED BY <1>5, <1>7 DEF Ends

\* An end: brackets of an empty block collection, the bracket of a flow
\* collection, or nothing.
LEMMA EndApart ==
  ASSUME NEW e, Settled(e), Apart(e), e.stack # <<>>, LevelOf(Last(e.stack)) # "VALUE"
  PROVE  Apart(EndText(e))
<1> DEFINE f == EndText(e)
           ctx == Last(e.stack)
           parent == Last(f.stack)
<1>1. e \in Emitter /\ Nested(e.stack)
  BY DEF Settled, Apart
<1>2. f.stack = Front(e.stack) /\ f \in Emitter /\ ~f.key_was_alias
  BY EndDone DEF Settled
<1>3. /\ Separated(f.out) /\ Nested(f.stack)
      /\ ctx.type \in FlowTypes => Ends(f, {"]", "}"})
  BY <1>1, <1>2, EndSeparated, PopNested
<1> HIDE DEF f
<1>4. f.stack # <<>> =>
        /\ parent.type \in FlowTypes => ctx.type \in FlowTypes
        /\ LevelOf(parent) = "VALUE" /\ ctx.type \notin FlowTypes => parent.complex_key
        /\ parent.type \in FlowTypes /\ LevelOf(parent) # "VALUE" => parent.count > 0
        /\ parent.count \in Nat
  <2> SUFFICES ASSUME f.stack # <<>>
               PROVE  /\ parent.type \in FlowTypes => ctx.type \in FlowTypes
                      /\ LevelOf(parent) = "VALUE" /\ ctx.type \notin FlowTypes => parent.complex_key
                      /\ parent.type \in FlowTypes /\ LevelOf(parent) # "VALUE" => parent.count > 0
                      /\ parent.count \in Nat
    OBVIOUS
  <2>1. PICK n \in Nat : Len(e.stack) = n
    BY <1>1, LastContext
  <2>2. /\ n > 0 /\ ctx = e.stack[n] /\ Len(f.stack) = n - 1
        /\ \A i \in 1..n - 1 : f.stack[i] = e.stack[i]
    BY <1>1, <1>2, <2>1, LastContext, FrontAndLast, SMTT(40)
  <2>3. n - 1 > 0 /\ parent = e.stack[n - 1] /\ parent \in Context
    BY <1>2, <2>1, <2>2, LastContext
  <2>4. n - 1 \in 1..n - 1 /\ n - 1 \in 1..n /\ n \in n - 1..n /\ n - 1 + 1 = n
    BY <2>3
  <2>5. parent.type \in FlowTypes => ctx.type \in FlowTypes
    BY <1>1, <2>1, <2>2, <2>3, <2>4 DEF Nested
  <2>6. /\ LevelOf(parent) = "VALUE" /\ ctx.type \notin FlowTypes => parent.complex_key
        /\ parent.type \in FlowTypes /\ LevelOf(parent) # "VALUE" => parent.count > 0
    BY <1>1, <2>1, <2>2, <2>3, <2>4 DEF Nested
  <2>7. parent.count \in Nat
    BY <2>3 DEF Context
  <2> QED BY <2>5, <2>6, <2>7
<1> HIDE DEF ctx, parent
<1>5. ~FirstDue(f)
  BY <1>4 DEF FirstDue, InContext, parent
<1>6. InContext(f, FlowTypes) => Ends(f, Closable)
  BY <1>3, <1>4 DEF InContext, Ends, Closable, Colonable, parent
<1>7. ValueDue(f) => Ends(f, Colonable)
  <2>1. ASSUME ValueDue(f) PROVE ctx.type \in FlowTypes
    <3>1. LevelOf(parent) = "VALUE" /\ ~parent.complex_key /\ f.stack # <<>>
      BY <2>1, LevelTypes DEF ValueDue, InContext, AtKey, parent
    <3> QED BY <1>4, <3>1
  <2> QED BY <1>3, <2>1 DEF Ends, Colonable
<1> QED BY <1>3, <1>5, <1>6, <1>7 DEF Apart, f

-----------------------------------------------------------------------------

\* The text is empty until the first document.
FirstLine ==
  /\ emitter.first_doc => emitter.out = <<>> /\ Len(open) = 1
  /\ open[1] = "BEGIN" => emitter.first_doc

AInv == EInv /\ Apart(emitter) /\ FirstLine

\* Only the text, the contexts and the alias flag matter.
LEMMA SameApart ==
  ASSUME NEW e, Apart(e), NEW f, f.out = e.out, f.stack = e.stack, f.key_was_alias = e.key_was_alias
  PROVE  Apart(f)
BY DEF Apart, ValueDue, FirstDue, InContext, AtKey, Ends

\* Outside of a document, only the text matters.
LEMMA RootApart ==
  ASSUME NEW e, e.stack = <<>>, Separated(e.out)
  PROVE  Apart(e)
BY DEF Apart, ValueDue, FirstDue, InContext, Nested

\* The stream starts with no text.
LEMMA StreamStartApart == AInv /\ EmitStreamStart => AInv'
<1> SUFFICES ASSUME AInv, EmitStreamStart PROVE AInv'
  OBVIOUS
<1> DEFINE e == [emitter EXCEPT !.first_doc = TRUE]
<1>1. Emits(Plain("STREAM_START"), e) /\ EInv
  BY DEF EmitStreamStart, AInv
<1>2. EInv'
  BY <1>1, StreamStartKeeps
<1>3. "STREAM_START" \in Stream!Accepts(open) /\ open' = Stream!After(open, "STREAM_START")
  BY <1>1, PlainEvent DEF Emits, Continues, OtherEvent
<1>4. Stream!Top(open) = "BEGIN"
  BY <1>3 DEF Stream!Accepts, Stream!NodeStart, Stream!Leaf
<1>5. Len(open) = 1 /\ open[1] = "BEGIN"
  BY <1>1, <1>4, ShapeTop DEF Stream!Top
<1>6. emitter.out = <<>>
  BY <1>5 DEF AInv, FirstLine
<1>7. open' = <<"STREAM">>
  BY <1>3 DEF Stream!After, Stream!Leaf
<1>8. emitter' = e /\ e.out = emitter.out /\ e.stack = emitter.stack
      /\ e.key_was_alias = emitter.key_was_alias
  BY <1>1 DEF Emits, EInv, TypeOK, Emitter
<1> HIDE DEF e
<1>9. Apart(emitter')
  BY <1>8, SameApart DEF AInv
<1>10. FirstLine'
  <2>1. Len(open') = 1 /\ open'[1] = "STREAM"
    BY <1>7
  <2>2. emitter'.first_doc
    BY <1>1, <1>8 DEF EInv, TypeOK, Emitter, e
  <2> QED BY <1>6, <1>8, <2>1, <2>2 DEF FirstLine
<1> QED BY <1>2, <1>9, <1>10 DEF AInv

\* The stream's last line ends.
LEMMA StreamEndApart == AInv /\ EmitStreamEnd => AInv'
<1> SUFFICES ASSUME AInv, EmitStreamEnd PROVE AInv'
  OBVIOUS
<1>1. Emits(Plain("STREAM_END"), NewLine(emitter)) /\ EInv /\ emitter \in Emitter
  BY DEF EmitStreamEnd, AInv, EInv, TypeOK
<1>2. EInv'
  BY <1>1, StreamEndKeeps
<1>3. "STREAM_END" \in Stream!Accepts(open) /\ open' = Stream!After(open, "STREAM_END")
  BY <1>1, PlainEvent DEF Emits, Continues, OtherEvent
<1>4. Stream!Top(open) = "STREAM"
  BY <1>3 DEF Stream!Accepts, Stream!NodeStart, Stream!Leaf
<1>5. emitter.stack = <<>>
  BY <1>1, <1>4, ShapeTop DEF EInv, Shape
<1>6. open' = <<"END">>
  BY <1>3 DEF Stream!After, Stream!Leaf
<1>7. emitter' = NewLine(emitter) /\ Text(emitter, NewLine(emitter)) /\ Separated(NewLine(emitter).out)
  BY <1>1, NewLineText, NewLineApart DEF Emits, AInv, Apart
<1>8. Apart(emitter')
  BY <1>5, <1>7, RootApart DEF Text
<1>9. FirstLine'
  <2>1. Len(open') = 1 /\ open'[1] = "END"
    BY <1>6
  <2>2. emitter'.first_doc => emitter'.out = <<>>
    BY <1>7 DEF Text, NewLine, AInv, FirstLine
  <2> QED BY <2>1, <2>2 DEF FirstLine
<1> QED BY <1>2, <1>8, <1>9 DEF AInv

\* A "---" is written on a line of its own.
LEMMA DocumentStartApart == AInv /\ EmitDocumentStart => AInv'
<1> SUFFICES ASSUME AInv, EmitDocumentStart PROVE AInv'
  OBVIOUS
<1>1. PICK implicit \in BOOLEAN :
        Emits([Plain("DOC_START") EXCEPT !.implicit = implicit],
              [(IF implicit THEN emitter
                ELSE Put(IF emitter.first_doc THEN emitter ELSE NewLine(emitter), <<"---">>))
                 EXCEPT !.first_doc = FALSE])
  BY DEF EmitDocumentStart
<1> DEFINE evt == [Plain("DOC_START") EXCEPT !.implicit = implicit]
           line == IF emitter.first_doc THEN emitter ELSE NewLine(emitter)
           put == IF implicit THEN emitter ELSE Put(line, <<"---">>)
           e == [put EXCEPT !.first_doc = FALSE]
<1>2. evt.type = "DOC_START"
  BY PlainEvent DEF OtherEvent
<1> HIDE DEF evt
<1>3. EInv /\ EInv' /\ emitter \in Emitter /\ Separated(emitter.out)
  BY DocumentStartKeeps DEF AInv, EInv, TypeOK, Apart
<1>4. "DOC_START" \in Stream!Accepts(open) /\ emitter' = e
      /\ open' = Stream!After(open, "DOC_START")
  BY <1>1, <1>2 DEF Emits, Continues, evt
<1>5. Stream!Top(open) = "STREAM"
  BY <1>4 DEF Stream!Accepts, Stream!NodeStart, Stream!Leaf
<1>6. Len(open) = 1 /\ emitter.stack = <<>>
  BY <1>3, <1>5, ShapeTop DEF EInv, Shape
<1>7. /\ line \in Emitter /\ Text(emitter, line) /\ Separated(line.out)
      /\ Ends(line, {"\n"})
  <2>1. CASE emitter.first_doc
    BY <1>3, <2>1, TextItself DEF AInv, FirstLine, Ends
  <2>2. CASE ~emitter.first_doc
    BY <1>3, <2>2, NewLineText, NewLineApart DEF Text
  <2> QED BY <2>1, <2>2
<1> HIDE DEF line
<1>8. put \in Emitter /\ Text(emitter, put) /\ Separated(put.out)
  <2>1. "---" \in Symbol /\ Joins("\n", "---")
    BY SymbolsKnown, WhatJoins DEF Touchable, Blank
  <2>2. Separated(Put(line, <<"---">>).out)
    BY <1>7, <2>1, PutOneApart
  <2>3. Text(line, Put(line, <<"---">>))
    BY <1>7, <2>1, ShortTexts, PutText
  <2>4. Text(emitter, Put(line, <<"---">>))
    BY <1>7, <2>3, TextTransitive
  <2> QED BY <1>3, <2>2, <2>4, TextItself DEF Text
<1> HIDE DEF put
<1>9. e.out = put.out /\ e.stack = <<>> /\ ~e.first_doc
  BY <1>6, <1>8 DEF Text, Emitter
<1> HIDE DEF e
<1>10. Apart(emitter')
  BY <1>4, <1>8, <1>9, RootApart
<1>11. open'[1] # "BEGIN"
  <2>1. open' = Append(open, "DOC")
    BY <1>4 DEF Stream!After, Stream!Leaf
  <2>2. PICK level \in Stream!Level : level = "DOC"
    BY DEF Stream!Level
  <2> DEFINE longer == Append(open, level)
  <2>3. open \in Seq(Stream!Level)
    BY <1>3 DEF EInv, TypeOK
  <2>4. Len(longer) = Len(open) + 1
    BY <2>3, AppendProperties
  <2>5. open' = longer
    BY <2>1, <2>2
  <2> HIDE DEF longer
  <2>6. Len(open') = Len(open) + 1
    BY <2>4, <2>5, Zenon
  <2>7. Len(open) = 1
    BY <1>6
  <2>8. Len(open') # 1
    BY <2>6, <2>7
  <2> QED BY <1>3, <2>8 DEF EInv, Shape
<1>12. FirstLine'
  BY <1>4, <1>9, <1>11 DEF FirstLine
<1> QED BY <1>3, <1>10, <1>12 DEF AInv

\* So is a "...".
LEMMA DocumentEndApart == AInv /\ EmitDocumentEnd => AInv'
<1> SUFFICES ASSUME AInv, EmitDocumentEnd PROVE AInv'
  OBVIOUS
<1>1. PICK implicit \in BOOLEAN :
        Emits([Plain("DOC_END") EXCEPT !.implicit = implicit],
              IF implicit THEN emitter ELSE Put(NewLine(emitter), <<"...", "\n">>))
  BY DEF EmitDocumentEnd
<1> DEFINE evt == [Plain("DOC_END") EXCEPT !.implicit = implicit]
           e == IF implicit THEN emitter ELSE Put(NewLine(emitter), <<"...", "\n">>)
<1>2. evt.type = "DOC_END"
  BY PlainEvent DEF OtherEvent
<1> HIDE DEF evt
<1>3. EInv /\ EInv' /\ emitter \in Emitter /\ Separated(emitter.out)
  BY DocumentEndKeeps DEF AInv, EInv, TypeOK, Apart
<1>4. "DOC_END" \in Stream!Accepts(open) /\ emitter' = e /\ open' = Stream!After(open, "DOC_END")
  BY <1>1, <1>2 DEF Emits, Continues, evt
<1>5. Stream!Top(open) = "DOC_DONE"
  BY <1>4 DEF Stream!Accepts, Stream!NodeStart, Stream!Leaf
<1>6. Len(open) = 2 /\ open[1] = "STREAM" /\ open \in Seq(Stream!Level) /\ emitter.stack = <<>>
  <2>1. Len(open) = 2
    BY <1>3, <1>5, ShapeTop
  <2> QED BY <1>3, <2>1, LastContext DEF EInv, TypeOK, Shape
<1>7. Text(emitter, e) /\ Separated(e.out)
  <2>1. NewLine(emitter) \in Emitter /\ Text(emitter, NewLine(emitter))
        /\ Separated(NewLine(emitter).out) /\ Ends(NewLine(emitter), {"\n"})
    BY <1>3, NewLineText, NewLineApart DEF Text
  <2>2. "..." \in Symbol /\ "\n" \in Symbol /\ Joins("\n", "...") /\ Joins("...", "\n")
    BY SymbolsKnown, WhatJoins DEF Touchable, Blank
  <2> DEFINE put == Put(NewLine(emitter), <<"...", "\n">>)
  <2>3. Separated(put.out)
    BY <2>1, <2>2, PutTwoApart
  <2>4. Text(NewLine(emitter), put)
    BY <2>1, <2>2, ShortTexts, PutText
  <2>5. Text(emitter, put)
    BY <2>1, <2>4, TextTransitive
  <2> HIDE DEF put
  <2>6. e = emitter \/ e = put
    BY DEF put
  <2> QED BY <1>3, <2>3, <2>5, <2>6, TextItself
<1> HIDE DEF e
<1>8. Apart(emitter')
  BY <1>4, <1>6, <1>7, RootApart DEF Text
<1>9. open'[1] # "BEGIN"
  <2>1. open' = SubSeq(open, 1, 1)
    BY <1>4, <1>6 DEF Stream!After, Stream!Leaf, Stream!Below
  <2>2. 1 \in Int /\ \A i \in 1..1 : open[i] \in Stream!Level
    BY <1>6, ElementOfSeq, SMTT(30)
  <2>3. SubSeq(open, 1, 1)[1] = open[1 + 1 - 1]
    BY <2>2, SubSeqProperties
  <2> QED BY <1>6, <2>1, <2>3
<1>10. FirstLine'
  BY <1>4, <1>6, <1>7, <1>9 DEF FirstLine, AInv, Text
<1> QED BY <1>3, <1>8, <1>10 DEF AInv

\* A scalar, an alias or a start leaves the text ready for what is due.
LEMMA NodeApart == AInv /\ EmitNode => AInv'
<1> SUFFICES ASSUME AInv, EmitNode PROVE AInv'
  OBVIOUS
<1>1. EInv /\ EInv' /\ Settled(emitter) /\ Apart(emitter)
  BY NodeKeeps DEF AInv, EInv
<1>2. Stream!Top(open) \in {"DOC", "SEQ", "KEY", "VALUE"}
  <2>1. "SCALAR" \in Stream!Accepts(open)
    BY DEF EmitNode, Continues
  <2> QED BY <2>1 DEF Stream!Accepts, Stream!NodeStart, Stream!Leaf
<1>3. Len(open) \in Nat /\ Len(open) >= 2
  BY <1>1, <1>2, ShapeTop
<1>4. PICK evt \in Nodes : EmitScalar(evt) \/ EmitAlias(evt) \/ EmitStart(evt)
  BY DEF EmitNode
<1>5. evt \in EmitterEvent
  BY EmitterNodes
<1>6. /\ Apart(emitter') /\ emitter'.first_doc = emitter.first_doc
      /\ \/ open' = Parents(open)
         \/ \E level \in {"SEQ", "KEY"} : open' = Append(Parents(open), level)
  <2>1. CASE EmitScalar(evt)
    <3>1. emitter' = ScalarText(emitter, evt) /\ open' = Parents(open)
      BY <2>1 DEF EmitScalar, Emits, Stream!After, Stream!Leaf, Parents
    <3>2. ScalarText(emitter, evt).first_doc = emitter.first_doc
      BY <1>1, <1>5, ScalarDone DEF LeafDone
    <3> QED BY <1>1, <1>5, <3>1, <3>2, ScalarApart
  <2>2. CASE EmitAlias(evt)
    <3>1. emitter' = AliasText(emitter) /\ open' = Parents(open)
      BY <2>2 DEF EmitAlias, Emits, Stream!After, Stream!Leaf, Parents
    <3>2. AliasText(emitter).first_doc = emitter.first_doc
      BY <1>1, AliasDone DEF LeafDone
    <3> QED BY <1>1, <3>1, <3>2, AliasApart
  <2>3. CASE EmitStart(evt)
    <3>1. emitter' = StartText(emitter, evt) /\ open' = Append(Parents(open), StartLevel(evt))
      BY <2>3 DEF EmitStart, Emits, Stream!After, Stream!Leaf, Parents, CollectionStart, StartLevel
    <3>2. StartText(emitter, evt).first_doc = emitter.first_doc
      BY <1>1, <1>5, StartTextDone DEF StartDone
    <3>3. Apart(StartText(emitter, evt))
      BY <1>1, <1>5, FlowStartApart, BlockStartApart DEF StartText, UseFlow
    <3>4. StartLevel(evt) \in {"SEQ", "KEY"}
      BY DEF StartLevel
    <3> QED BY <3>1, <3>2, <3>3, <3>4
  <2> QED BY <1>4, <2>1, <2>2, <2>3
<1>7. open'[1] # "BEGIN"
  <2>1. Parents(open) \in Seq(Stream!Level) /\ Len(Parents(open)) = Len(open)
    BY <1>1, <1>3, ParentLevels
  <2>2. Len(open') # 1
    <3>1. CASE open' = Parents(open)
      <4>1. Len(open') = Len(Parents(open))
        BY <3>1
      <4>2. Len(open') = Len(open)
        BY <2>1, <4>1
      <4> QED BY <1>3, <4>2
    <3>2. ASSUME NEW level \in {"SEQ", "KEY"}, open' = Append(Parents(open), level)
          PROVE  Len(open') # 1
      <4>1. level \in Stream!Level
        BY DEF Stream!Level
      <4> QED BY <1>3, <2>1, <3>2, <4>1, AppendProperties
    <3> QED BY <1>6, <3>1, <3>2
  <2> QED BY <1>1, <2>2 DEF EInv, Shape
<1>8. FirstLine'
  <2>1. ~emitter.first_doc
    BY <1>3 DEF AInv, FirstLine
  <2> QED BY <1>6, <1>7, <2>1 DEF FirstLine
<1> QED BY <1>1, <1>6, <1>8 DEF AInv

\* So does an end.
LEMMA EndKeepsApart == AInv /\ EmitEnd => AInv'
<1> SUFFICES ASSUME AInv, EmitEnd PROVE AInv'
  OBVIOUS
<1>1. PICK type \in {"MAPPING_END", "SEQUENCE_END"} : Emits(Plain(type), EndText(emitter))
  BY DEF EmitEnd
<1>2. EInv /\ EInv' /\ Settled(emitter) /\ Apart(emitter)
  BY EndKeeps DEF AInv, EInv
<1>3. Plain(type).type = type
  BY PlainEvent DEF OtherEvent
<1>4. type \in Stream!Accepts(open) /\ open' = Stream!After(open, type) /\ emitter' = EndText(emitter)
  BY <1>1, <1>3 DEF Emits, Continues
<1>5. Stream!Top(open) \in {"SEQ", "KEY"}
  BY <1>4 DEF Stream!Accepts, Stream!NodeStart, Stream!Leaf
<1>6. /\ Len(open) \in Nat /\ Len(open) > 2 /\ emitter.stack # <<>>
      /\ LevelOf(Last(emitter.stack)) # "VALUE"
  BY <1>2, <1>5, ShapeTop
<1>7. Apart(emitter') /\ emitter'.first_doc = emitter.first_doc
  BY <1>2, <1>4, <1>6, EndApart, EndDone
<1>8. open'[1] # "BEGIN"
  <2>1. open' = Front(open) /\ open # <<>> /\ open \in Seq(Stream!Level)
    BY <1>2, <1>4, <1>6, EmptySeq DEF EInv, TypeOK, Stream!After, Stream!Leaf, Stream!Below, Front
  <2>2. Len(open') # 1
    BY <1>6, <2>1, FrontAndLast
  <2> QED BY <1>2, <2>2 DEF EInv, Shape
<1>9. FirstLine'
  <2>1. Len(open) \in Nat /\ Len(open) > 2
    BY <1>6, Zenon
  <2>2. Len(open) # 1
    <3>1. \A n \in Nat : n > 2 => n # 1
      OBVIOUS
    <3> QED BY <2>1, <3>1, Zenon
  <2>3. ~emitter.first_doc
    BY <2>2 DEF AInv, FirstLine
  <2> QED BY <1>7, <1>8, <2>3 DEF FirstLine
<1> QED BY <1>2, <1>7, <1>9 DEF AInv

\* A setting writes nothing.
LEMMA SetApart == AInv /\ Set => AInv'
<1> SUFFICES ASSUME AInv, Set PROVE AInv'
  OBVIOUS
<1>1. EInv' /\ emitter \in Emitter
  BY SetKeeps DEF AInv, EInv, TypeOK
<1>2. /\ emitter'.out = emitter.out /\ emitter'.stack = emitter.stack /\ open' = open
      /\ emitter'.key_was_alias = emitter.key_was_alias /\ emitter'.first_doc = emitter.first_doc
  BY <1>1 DEF Set, Emitter
<1>3. Apart(emitter')
  BY <1>2, SameApart DEF AInv
<1>4. FirstLine'
  BY <1>2 DEF AInv, FirstLine
<1> QED BY <1>1, <1>3, <1>4 DEF AInv

\* The invariant of the text holds always.
LEMMA AInvAlways == Spec => []AInv
<1>1. Init => AInv
  <2> SUFFICES ASSUME Init PROVE AInv
    OBVIOUS
  <2>1. EInv
    BY InitHolds
  <2>2. emitter = NewEmitter /\ open = <<"BEGIN">>
    BY DEF Init
  <2>3. emitter.stack = <<>> /\ emitter.out = <<>> /\ emitter.first_doc
    BY <2>2 DEF NewEmitter
  <2>4. Separated(emitter.out)
    BY <2>3 DEF Separated
  <2>5. Apart(emitter)
    BY <2>3, <2>4, RootApart
  <2>6. Len(open) = 1
    BY <2>2
  <2> QED BY <2>1, <2>3, <2>5, <2>6 DEF AInv, FirstLine
<1>2. AInv /\ [Next]_vars => AInv'
  <2> SUFFICES ASSUME AInv, [Next]_vars PROVE AInv'
    OBVIOUS
  <2>1. CASE UNCHANGED vars
    <3>1. EInv'
      BY <2>1, StepKeeps DEF AInv
    <3>2. emitter' = emitter /\ open' = open
      BY <2>1 DEF vars
    <3> QED BY <3>1, <3>2 DEF AInv, FirstLine
  <2>2. CASE EmitUnmatchedEnd
    BY <2>1, <2>2 DEF EmitUnmatchedEnd
  <2> QED BY <2>1, <2>2, StreamStartApart, DocumentStartApart, DocumentEndApart, StreamEndApart,
             NodeApart, EndKeepsApart, SetApart DEF Next
<1> QED BY <1>1, <1>2, PTL DEF Spec

\* No two lexemes are written so that they would be read as one, in any
\* context, for any nodes and settings (emit_pre_node, emit_scalar,
\* oyl_emit): a text a ':' or ',' must not touch is never the last when one
\* is due.
THEOREM LexemesAlwaysApart == Spec => []LexemesStayApart
<1>1. AInv => LexemesStayApart
  BY DEF AInv, Apart, LexemesStayApart
<1> QED BY <1>1, AInvAlways, PTL

=============================================================================
