------------------------------- MODULE Emitter -------------------------------
(***************************************************************************)
(* The emitter (oyl_emitter.c): events in, text out.  A caller feeds it a  *)
(* well-formed stream, event by event, and may change its settings between *)
(* two of them.                                                            *)
(*                                                                         *)
(* Text is a sequence of blanks, line breaks and the lexemes of the        *)
(* scanner's model, a collection's text included; names, values and the    *)
(* lines of a block scalar are abstracted.  As there, a column is one      *)
(* lexeme wide, so what follows a "- " is one column further.  Allocation  *)
(* failures are left out, and so are the fields doc_open and               *)
(* wrote_block_key, which nothing reads.                                   *)
(***************************************************************************)
EXTENDS Integers, Sequences, SequencesExt

\* What a scalar's text is like: empty, plain anywhere, a number (or null or
\* a boolean), with a flow indicator or a line break in it, with a space in
\* front, with a control character.
Value == {"EMPTY", "WORD", "NUMBER", "FLOWY", "LINES", "SPACED", "CONTROL"}

\* The tag !!str matters to the emitter, any other is only written.
Tag == {"none", "str", "other"}

RequestedStyle == {"PLAIN", "QUOTED", "LITERAL", "FOLDED"}

Leaf == {"SCALAR", "ALIAS"}
CollectionStart == {"MAPPING_START", "SEQUENCE_START"}
OtherEvent == {"STREAM_START", "STREAM_END", "DOC_START", "DOC_END",
               "MAPPING_END", "SEQUENCE_END"}

EmitterEvent ==
  [type : Leaf \cup CollectionStart \cup OtherEvent, anchor : BOOLEAN, tag : Tag,
   flow : BOOLEAN, implicit : BOOLEAN, value : Value, style : RequestedStyle]

Plain(type) ==
  [type |-> type, anchor |-> FALSE, tag |-> "none", flow |-> FALSE, implicit |-> FALSE,
   value |-> "EMPTY", style |-> "PLAIN"]

CONSTANTS Nodes,         \* the scalars, aliases and collection starts a caller emits
          Styles,        \* the styles, and the numbers of columns per
          Indents,       \*   level, it asks for
          MaxNodes,      \* the most nodes it emits
          MaxDocuments,  \* the most documents
          MaxSettings    \* how often it changes a setting

ASSUME EmitterNodes ==
  Nodes \subseteq {n \in EmitterEvent : n.type \in Leaf \cup CollectionStart}
ASSUME EmitterSettings == Indents \subseteq Int
ASSUME EmitterBounds == MaxNodes \in Nat /\ MaxDocuments \in Nat /\ MaxSettings \in Nat

VARIABLES
  emitter,  \* struct oyl_emitter
  open,     \* the levels open in the events emitted (EventStream)
  emitted,  \* history: the events emitted
  changes   \* history: how many settings were changed

vars == <<emitter, open, emitted, changes>>

Stream == INSTANCE EventStream

EmitStyle == {"BLOCK", "FLOW", "MINIMAL"}

MapTypes == {"BLOCK_MAP", "FLOW_MAP"}
FlowTypes == {"FLOW_MAP", "FLOW_SEQ"}

Context == [type : MapTypes \cup FlowTypes \cup {"BLOCK_SEQ"}, indent : Nat, count : Nat,
            expect_key : BOOLEAN, complex_key : BOOLEAN]

Symbol == {" ", "\n", "---", "...", "-", "?", ":", "[", "]", "{", "}", ",", "&", "!", "*",
           "~", "WORD", "QUOTED", "LITERAL"}

\* A symbol per blank, line break or lexeme.
Emitter ==
  [style : EmitStyle, indent : 1..10, out : Seq(Symbol), stack : Seq(Context),
   first_doc : BOOLEAN, after_seq_dash : BOOLEAN, key_was_alias : BOOLEAN,
   wrote_props : BOOLEAN]

\* oyl_emitter_new.
NewEmitter ==
  [style |-> "BLOCK", indent |-> 2, out |-> <<>>, stack |-> <<>>, first_doc |-> TRUE,
   after_seq_dash |-> FALSE, key_was_alias |-> FALSE, wrote_props |-> FALSE]

-----------------------------------------------------------------------------
(***************************************************************************)
(* Text and contexts.                                                      *)
(***************************************************************************)

Put(e, symbols) == [e EXCEPT !.out = @ \o symbols]

EndsWith(e, symbols) == e.out # <<>> /\ Last(e.out) \in symbols

\* Unless the text is at the start of a line.
NewLine(e) == IF e.out = <<>> \/ EndsWith(e, {"\n"}) THEN e ELSE Put(e, <<"\n">>)

Blanks(n) == [i \in 1..n |-> " "]
NewLineAt(e, column) == Put(NewLine(e), Blanks(column))

DropBlank(e) == IF EndsWith(e, {" "}) THEN [e EXCEPT !.out = Front(@)] ELSE e

InContext(e, types) == e.stack # <<>> /\ Last(e.stack).type \in types
SetTop(e, ctx) == [e EXCEPT !.stack = Append(Front(@), ctx)]

AtKey(e) == InContext(e, MapTypes) /\ Last(e.stack).expect_key
AtBlockKey(e) == InContext(e, {"BLOCK_MAP"}) /\ Last(e.stack).expect_key
AtBlockValue(e) == InContext(e, {"BLOCK_MAP"}) /\ ~Last(e.stack).expect_key

\* in_any_flow.
InAnyFlow(e) == \E i \in 1..Len(e.stack) : e.stack[i].type \in FlowTypes

\* advance_ctx.
AdvanceContext(e) ==
  IF e.stack = <<>> THEN e
  ELSE LET ctx == Last(e.stack)
           toggled == IF ctx.type \in MapTypes THEN ~ctx.expect_key ELSE ctx.expect_key
           entry_ends == ctx.type \in MapTypes => ~ctx.expect_key
       IN  [SetTop(e, [ctx EXCEPT !.expect_key = toggled,
                                  !.count = IF entry_ends THEN @ + 1 ELSE @])
              EXCEPT !.after_seq_dash = FALSE]

-----------------------------------------------------------------------------
(***************************************************************************)
(* What comes before a node.                                               *)
(***************************************************************************)

\* The first key after a "- " is on its line.
BeforeKey(e) ==
  IF e.after_seq_dash \/ e.out = <<>> THEN e ELSE NewLineAt(e, Last(e.stack).indent)

\* Mutant: the name of an alias runs into the ':'.
AfterAliasKeyNothing(e) == [e EXCEPT !.key_was_alias = FALSE]

\* Mutant: the flag of an alias key stays set.
AfterAliasKeyKept(e) == IF e.key_was_alias THEN Put(e, <<" ">>) ELSE e

AfterAliasKey(e) ==
  IF e.key_was_alias THEN [Put(e, <<" ">>) EXCEPT !.key_was_alias = FALSE] ELSE e

\* The value of a "? key" is on a line of its own.
BeforeValue(e, is_collection) ==
  LET ctx == Last(e.stack)
      at == IF ctx.complex_key
            THEN SetTop(NewLineAt(e, ctx.indent), [ctx EXCEPT !.complex_key = FALSE])
            ELSE e
  IN  Put(AfterAliasKey(at), IF is_collection THEN <<":">> ELSE <<":", " ">>)

BeforeEntry(e) ==
  [Put(NewLineAt(e, Last(e.stack).indent), <<"-", " ">>) EXCEPT !.after_seq_dash = TRUE]

EntrySeparator(e) ==
  IF Last(e.stack).count = 0 THEN e
  ELSE Put(e, IF e.style = "MINIMAL" THEN <<",">> ELSE <<",", " ">>)

\* emit_pre_node.
EmitPreNode(e, is_collection) ==
  CASE e.stack = <<>> -> NewLine(e)
    [] AtBlockKey(e) -> BeforeKey(e)
    [] AtBlockValue(e) -> BeforeValue(e, is_collection)
    [] InContext(e, {"BLOCK_SEQ"}) -> BeforeEntry(e)
    [] InContext(e, {"FLOW_MAP"}) /\ ~AtKey(e) -> Put(AfterAliasKey(e), <<":", " ">>)
    [] OTHER -> EntrySeparator(e)

HasProps(evt) == evt.anchor \/ evt.tag # "none"

EmitProps(e, evt) ==
  [Put(e, (IF evt.anchor THEN <<"&", " ">> ELSE <<>>)
            \o (IF evt.tag # "none" THEN <<"!", " ">> ELSE <<>>))
     EXCEPT !.wrote_props = HasProps(evt)]

-----------------------------------------------------------------------------
(***************************************************************************)
(* Scalars.                                                                *)
(***************************************************************************)

HasBreak(value) == value = "LINES"
NeedsEscape(value) == value \in {"LINES", "CONTROL"}
NeedsQuoting(value, flow_ctx) ==
  value \in {"EMPTY", "LINES", "SPACED"} \cup (IF flow_ctx THEN {"FLOWY"} ELSE {})
LiteralOk(value) == value \notin {"SPACED", "CONTROL"}

\* choose_style; single and double quotes are one style here.
ChooseStyle(evt, flow_ctx, is_key) ==
  LET block_ok == ~flow_ctx /\ ~is_key /\ LiteralOk(evt.value)
  IN  CASE evt.style \in {"LITERAL", "FOLDED"} -> IF block_ok THEN "LITERAL" ELSE "QUOTED"
        [] evt.style = "QUOTED" -> "QUOTED"
        [] OTHER ->
             IF evt.value = "EMPTY" /\ evt.tag # "str" THEN "PLAIN"
             ELSE IF NeedsEscape(evt.value) THEN "QUOTED"
             ELSE IF ~NeedsQuoting(evt.value, flow_ctx)
             THEN (IF evt.tag = "str" /\ evt.value = "NUMBER" THEN "QUOTED" ELSE "PLAIN")
             ELSE IF block_ok /\ HasBreak(evt.value) THEN "LITERAL"
             ELSE "QUOTED"

\* An empty plain scalar has no text: but an entry of a flow sequence needs
\* some, and a blank that follows no property is taken back.
EmptyPlain(e) ==
  IF InContext(e, {"FLOW_SEQ"}) /\ ~e.wrote_props THEN Put(e, <<"~">>)
  ELSE IF ~e.wrote_props /\ ~AtKey(e) THEN DropBlank(e)
  ELSE e

\* emit_scalar.
EmitValue(e, evt) ==
  LET style == ChooseStyle(evt, InAnyFlow(e) \/ e.style # "BLOCK", AtKey(e))
  IN  CASE style = "PLAIN" /\ evt.value = "EMPTY" -> EmptyPlain(e)
        [] style = "PLAIN" /\ evt.value # "EMPTY" -> Put(e, <<"WORD">>)
        [] style = "QUOTED" -> Put(e, <<"QUOTED">>)
        [] style = "LITERAL" -> Put(e, <<"LITERAL", "\n">>)

ScalarText(e, evt) == AdvanceContext(EmitValue(EmitProps(EmitPreNode(e, FALSE), evt), evt))

AliasText(e) ==
  AdvanceContext(Put([EmitPreNode(e, FALSE) EXCEPT !.key_was_alias = AtKey(e)], <<"*">>))

-----------------------------------------------------------------------------
(***************************************************************************)
(* Collections.                                                            *)
(***************************************************************************)

Brackets(type) == IF type \in MapTypes THEN <<"{", "}">> ELSE <<"[", "]">>

\* emit_block_collection_props: on the line that introduces the collection.
BlockCollectionProps(e, evt, after_key) ==
  IF ~HasProps(evt) THEN e
  ELSE DropBlank(EmitProps(IF after_key THEN Put(e, <<" ">>) ELSE e, evt))

\* emit_complex_key_open: "?" and the properties of a collection that is a key.
ComplexKeyOpen(e, evt) ==
  LET put == BlockCollectionProps(Put(e, <<"?">>), evt, TRUE)
  IN  [SetTop(put, [Last(put.stack) EXCEPT !.complex_key = TRUE]) EXCEPT !.after_seq_dash = FALSE]

\* Mutant: the first key follows the properties of its mapping.
BlockValueOpenShared(e, evt) == BlockCollectionProps(e, evt, AtBlockValue(e))

\* A mapping with properties does not start on the line of its "- ".
BlockValueOpen(e, evt) ==
  [BlockCollectionProps(e, evt, AtBlockValue(e))
     EXCEPT !.after_seq_dash = @ /\ ~(evt.type = "MAPPING_START" /\ HasProps(evt))]

DashWidth == 1  \* "- " is one lexeme

BlockIndent(e, type) ==
  CASE e.stack = <<>> -> 0
    [] InContext(e, {"BLOCK_SEQ"}) /\ type = "BLOCK_MAP" -> Last(e.stack).indent + DashWidth
    [] OTHER -> Last(e.stack).indent + e.indent

NewContext(type, indent) ==
  [type |-> type, indent |-> indent, count |-> 0, expect_key |-> type \in MapTypes,
   complex_key |-> FALSE]

\* Mutant: the collection is advanced, not what it is in.
OpenContextAdvanced(e, type, indent) ==
  AdvanceContext([e EXCEPT !.stack = Append(@, NewContext(type, indent))])

\* push_ctx, and advance_ctx for the parent.
OpenContext(e, type, indent) ==
  [AdvanceContext(e) EXCEPT
     !.stack = Append(@, NewContext(type, indent)),
     !.after_seq_dash = e.after_seq_dash]

FlowType(evt) == IF evt.type = "MAPPING_START" THEN "FLOW_MAP" ELSE "FLOW_SEQ"
BlockType(evt) == IF evt.type = "MAPPING_START" THEN "BLOCK_MAP" ELSE "BLOCK_SEQ"

FlowStartText(e, evt) ==
  OpenContext(Put(EmitProps(EmitPreNode(e, FALSE), evt), <<Brackets(FlowType(evt))[1]>>),
              FlowType(evt), 0)

BlockStartText(e, evt) ==
  LET pre == EmitPreNode(e, TRUE)
      opened == IF AtBlockKey(pre) THEN ComplexKeyOpen(pre, evt) ELSE BlockValueOpen(pre, evt)
  IN  OpenContext(opened, BlockType(evt), BlockIndent(opened, BlockType(evt)))

\* Everything in a flow collection is flow.
UseFlow(e, evt) == e.style # "BLOCK" \/ evt.flow \/ InAnyFlow(e)

StartText(e, evt) == IF UseFlow(e, evt) THEN FlowStartText(e, evt) ELSE BlockStartText(e, evt)

\* An empty block collection is written as an empty flow collection.
EndText(e) ==
  LET ctx == Last(e.stack)
      close == IF ctx.type \in FlowTypes THEN Put(e, <<Brackets(ctx.type)[2]>>)
               ELSE IF ctx.count > 0 THEN e
               ELSE IF e.out = <<>> \/ EndsWith(e, {" ", "\n"}) THEN Put(e, Brackets(ctx.type))
               ELSE Put(e, <<" ">> \o Brackets(ctx.type))
  IN  [close EXCEPT !.stack = Front(@), !.after_seq_dash = FALSE]

-----------------------------------------------------------------------------
(***************************************************************************)
(* The calls.                                                              *)
(***************************************************************************)

Init ==
  /\ emitter = NewEmitter
  /\ open = <<"BEGIN">>
  /\ emitted = <<>>
  /\ changes = 0

Continues(type) == type \in Stream!Accepts(open)

\* The caller emits evt, which continues its stream; the emitter becomes e.
Emits(evt, e) ==
  /\ Continues(evt.type)
  /\ open' = Stream!After(open, evt.type)
  /\ emitted' = Append(emitted, evt)
  /\ emitter' = e
  /\ UNCHANGED changes

Count(types) == Len(SelectSeq(emitted, LAMBDA evt : evt.type \in types))
NodeCount == Count(Leaf \cup CollectionStart)

\* The nodes that must still follow: roots and values.
Owed(levels) == Len(SelectSeq(levels, LAMBDA l : l \in {"DOC", "VALUE"}))

\* The document can be told from the one before without a "---".
MayBeImplicit == Last(emitted).type = "DOC_END" => ~Last(emitted).implicit

\* The document is implicit: a "---" has not been written for it.
InImplicitDocument == Last(emitted).type = "DOC_START" /\ Last(emitted).implicit

EmitStreamStart == Emits(Plain("STREAM_START"), [emitter EXCEPT !.first_doc = TRUE])

EmitDocumentStart ==
  /\ Continues("DOC_START")
  /\ Count({"DOC_START"}) < MaxDocuments
  /\ NodeCount < MaxNodes
  /\ \E implicit \in BOOLEAN :
       /\ implicit => MayBeImplicit
       /\ Emits([Plain("DOC_START") EXCEPT !.implicit = implicit],
                [(IF implicit THEN emitter
                  ELSE Put(IF emitter.first_doc THEN emitter ELSE NewLine(emitter), <<"---">>))
                   EXCEPT !.first_doc = FALSE])

EmitDocumentEnd ==
  \E implicit \in BOOLEAN :
    Emits([Plain("DOC_END") EXCEPT !.implicit = implicit],
          IF implicit THEN emitter ELSE Put(NewLine(emitter), <<"...", "\n">>))

EmitStreamEnd == Emits(Plain("STREAM_END"), NewLine(emitter))

\* A document with no text at all would not be one.
EmitScalar(evt) ==
  /\ evt.type = "SCALAR"
  /\ evt.value = "EMPTY" /\ ~HasProps(evt) => ~InImplicitDocument
  /\ Emits(evt, ScalarText(emitter, evt))

EmitAlias(evt) == evt.type = "ALIAS" /\ Emits(evt, AliasText(emitter))

EmitStart(evt) == evt.type \in CollectionStart /\ Emits(evt, StartText(emitter, evt))

EmitNode ==
  /\ Continues("SCALAR")
  /\ \E evt \in Nodes :
       /\ NodeCount + 1 + Owed(Stream!After(open, evt.type)) <= MaxNodes
       /\ EmitScalar(evt) \/ EmitAlias(evt) \/ EmitStart(evt)

EmitEnd == \E type \in {"MAPPING_END", "SEQUENCE_END"} : Emits(Plain(type), EndText(emitter))

\* The end of a collection that was not started: OYL_ERR_EMIT.
EmitUnmatchedEnd == emitter.stack = <<>> /\ UNCHANGED vars

\* Mutant: the indentation is taken as it comes.
AllowedIndentAny(indent) == indent

AllowedIndent(indent) == IF indent < 1 THEN 1 ELSE IF indent > 10 THEN 10 ELSE indent

\* oyl_emitter_set_style, which ignores an unknown style, and
\* oyl_emitter_set_indent.
Set ==
  /\ changes < MaxSettings
  /\ changes' = changes + 1
  /\ \/ \E style \in Styles \cap EmitStyle : emitter' = [emitter EXCEPT !.style = style]
     \/ \E indent \in Indents : emitter' = [emitter EXCEPT !.indent = AllowedIndent(indent)]
  /\ UNCHANGED <<open, emitted>>

Next ==
  \/ EmitStreamStart \/ EmitDocumentStart \/ EmitDocumentEnd \/ EmitStreamEnd
  \/ EmitNode \/ EmitEnd \/ EmitUnmatchedEnd
  \/ Set

Spec == Init /\ [][Next]_vars

=============================================================================
