-------------------------------- MODULE Texts --------------------------------
(***************************************************************************)
(* The texts the parser is checked on: all those of at most MaxText        *)
(* lexemes of one of these vocabularies, on one line or with lines that    *)
(* start at the columns given.                                             *)
(***************************************************************************)

Flow == {"[", "]", "{", "}", ","}

\* Flow collections, pairs, explicit keys, properties and aliases.
FlowKinds == Flow \cup {":", "?", "WORD", "&", "!", "*"}

\* Block collections and the nodes in them, flow keys and brackets that do
\* not match included.
BlockKinds == {"-", "?", ":", "QUOTED", "*", "[", "]", "}"}

\* Documents, explicit or not, empty or not, directives, and the ways out of
\* a block: literals, properties, stray indicators.
DocumentKinds == {"---", "...", "%", "-", ":", "WORD", "LITERAL", "!", "{", "}", ","}

\* Collections of all four kinds, for the limits, and a scanner error.
NestedKinds == {"[", "]", "{", ":", ",", "-", "QUOTED", "GLUED"}

\* A little of everything, and what the scanner refuses.
EveryKind ==
  Flow \cup {":", "?", "-", "&", "*", "QUOTED", "---", "...", "GLUED", "OPENQUOTE"}

\* What makes the parser fall back, and what it may have delivered before.
WholeKinds == {"-", ":", "QUOTED", "!", "[", "]", "---"}

\* All kinds of nodes and collections, and the properties of each.
EagerKinds == {"[", "]", "{", "}", "?", ":", "-", "&", "!", "*", "QUOTED", "---", "..."}

NoLines == {}
FirstColumn == {0}
TwoColumns == {0, 1}

=============================================================================
