---------------------------- MODULE EventStream ----------------------------
(***************************************************************************)
(* What a parser promises its caller: "a well-formed stream of events"     *)
(* (oyl.h, struct oyl_parser).  One variable, the stack of what is open in *)
(* the events delivered so far, is a pushdown acceptor of                  *)
(*                                                                         *)
(*    STREAM_START (DOC_START node DOC_END)* STREAM_END                    *)
(*                                                                         *)
(* A level of the stack says what may come next at that level:             *)
(*                                                                         *)
(*   "BEGIN"     nothing delivered yet      "STREAM"  between documents    *)
(*   "DOC"       a document's root node     "DOC_DONE"  its DOC_END        *)
(*   "SEQ"       an entry or SEQUENCE_END   "KEY"  a key or MAPPING_END    *)
(*   "VALUE"     the value of the last key  "END"  the stream is over      *)
(*                                                                         *)
(* A node advances its parent's level when it starts, so the levels below  *)
(* an open collection already say what follows it.                         *)
(***************************************************************************)
EXTENDS Naturals, Sequences, FiniteSets

VARIABLE open

Level == {"BEGIN", "STREAM", "DOC", "DOC_DONE", "SEQ", "KEY", "VALUE", "END"}

Event == {"STREAM_START", "STREAM_END", "DOC_START", "DOC_END",
          "SEQUENCE_START", "SEQUENCE_END", "MAPPING_START", "MAPPING_END",
          "SCALAR", "ALIAS"}

Leaf == {"SCALAR", "ALIAS"}
NodeStart == Leaf \cup {"SEQUENCE_START", "MAPPING_START"}

Top(levels) == levels[Len(levels)]
Below(levels) == SubSeq(levels, 1, Len(levels) - 1)

\* The level of a collection once one more node has started in it.
AfterNode(level) ==
  CASE level = "DOC" -> "DOC_DONE"
    [] level = "KEY" -> "VALUE"
    [] level = "VALUE" -> "KEY"
    [] OTHER -> level

\* The events a stream whose open levels are given may continue with.
Accepts(levels) ==
  CASE Top(levels) = "BEGIN"    -> {"STREAM_START"}
    [] Top(levels) = "STREAM"   -> {"DOC_START", "STREAM_END"}
    [] Top(levels) = "DOC"      -> NodeStart
    [] Top(levels) = "DOC_DONE" -> {"DOC_END"}
    [] Top(levels) = "SEQ"      -> NodeStart \cup {"SEQUENCE_END"}
    [] Top(levels) = "KEY"      -> NodeStart \cup {"MAPPING_END"}
    [] Top(levels) = "VALUE"    -> NodeStart
    [] OTHER                    -> {}

\* The levels after event e, whether or not it was accepted.
After(levels, e) ==
  LET parent == [levels EXCEPT ![Len(levels)] = AfterNode(@)]
  IN  CASE e = "STREAM_START"   -> <<"STREAM">>
        [] e = "STREAM_END"     -> <<"END">>
        [] e = "DOC_START"      -> Append(levels, "DOC")
        [] e = "SEQUENCE_START" -> Append(parent, "SEQ")
        [] e = "MAPPING_START"  -> Append(parent, "KEY")
        [] e \in Leaf           -> parent
        [] OTHER                -> Below(levels)

\* How deep the collections delivered and not yet ended nest.
Nesting(levels) ==
  Cardinality({i \in 1..Len(levels) : levels[i] \in {"SEQ", "KEY", "VALUE"}})

-----------------------------------------------------------------------------

Init == open = <<"BEGIN">>

Deliver(e) ==
  /\ e \in Accepts(open)
  /\ open' = After(open, e)

Next == \E e \in Event : Deliver(e)

Spec == Init /\ [][Next]_open

=============================================================================
