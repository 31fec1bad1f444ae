-------------------------- MODULE EmitterProperties --------------------------
(***************************************************************************)
(* What holds between two calls of the emitter.                            *)
(***************************************************************************)
EXTENDS Emitter

\* The types of the emitter's state and of the histories.
TypeOK ==
  /\ emitter \in Emitter
  /\ open \in Seq(Stream!Level)
  /\ emitted \in Seq(EmitterEvent)
  /\ changes \in 0..MaxSettings

\* The level of the stream that a context stands for.
LevelOf(ctx) ==
  CASE ctx.type \notin MapTypes -> "SEQ"
    [] ctx.type \in MapTypes /\ ctx.expect_key -> "KEY"
    [] OTHER -> "VALUE"

\* The emitter's contexts are the collections open in its events, and each
\* expects what the stream does: oyl_emit advances the parent when a
\* collection starts, below the context it has just pushed.
ContextsFollowEvents ==
  /\ emitter.stack # <<>> \/ Len(open) > 2 => Len(open) = Len(emitter.stack) + 2
  /\ \A i \in 1..Len(emitter.stack) : LevelOf(emitter.stack[i]) = open[i + 2]

EndsInDash(e) ==
  Len(e.out) >= 2 /\ SubSeq(e.out, Len(e.out) - 1, Len(e.out)) = <<"-", " ">>

\* The flags one event leaves for the next are never stale: an alias key's
\* is only set while its value is due, a "? key"'s on a block mapping whose
\* value is due, and where a block key would share the line of a "- ", that
\* "- " is the end of the text and the key is its mapping's first.
FlagsMatchPlace ==
  /\ emitter.key_was_alias => InContext(emitter, MapTypes) /\ ~AtKey(emitter)
  /\ \A i \in 1..Len(emitter.stack) :
       emitter.stack[i].complex_key =>
         emitter.stack[i].type = "BLOCK_MAP" /\ ~emitter.stack[i].expect_key
  /\ emitter.after_seq_dash /\ AtBlockKey(emitter) =>
       Last(emitter.stack).count = 0 /\ EndsInDash(emitter)

\* What may follow a lexeme with nothing in between: a name ends at a flow
\* indicator but not at a ':', and a "-", "?" or ':' in front of what could
\* be text would be text itself.
MayTouch(left, right) ==
  CASE left \in {"[", "{", ","} -> TRUE
    [] left \in {"WORD", "~", "QUOTED", "]", "}"} -> right \in {":", ",", "]", "}"}
    [] left \in {":", "*"} -> right \in {",", "]", "}"}
    [] OTHER -> FALSE

Blank == {" ", "\n"}

Joins(left, right) == {left, right} \cap Blank = {} => MayTouch(left, right)

Separated(out) == \A i \in 1..Len(out)-1 : Joins(out[i], out[i+1])

\* No two lexemes are written so that they would be read as one, whatever
\* call wrote the first and whatever context the second is written in
\* (emit_pre_node, emit_scalar, oyl_emit).
LexemesStayApart == Separated(emitter.out)

=============================================================================
