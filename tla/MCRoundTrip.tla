----------------------------- MODULE MCRoundTrip -----------------------------
\* The emitter and the reader of its text, for TLC.
EXTENDS RoundTrip

Scalar(value, style) == [Plain("SCALAR") EXCEPT !.value = value, !.style = style]
Anchored(n) == [n EXCEPT !.anchor = TRUE]
FlowStart(type) == [Plain(type) EXCEPT !.flow = TRUE]

\* Scalars with and without text and properties, aliases, and collections
\* of both styles.
TypicalNodes ==
  { Scalar("EMPTY", "PLAIN"), Anchored(Scalar("EMPTY", "PLAIN")), Scalar("LINES", "LITERAL"),
    Plain("ALIAS"),
    Plain("MAPPING_START"), Anchored(Plain("MAPPING_START")),
    Plain("SEQUENCE_START"), FlowStart("SEQUENCE_START") }

\* Those that longer streams are made of: enough for mappings of two entries
\* in every context, with keys and values of one line and of several.
EntryNodes ==
  { Scalar("LINES", "LITERAL"), Plain("ALIAS"),
    Plain("MAPPING_START"), FlowStart("MAPPING_START"), Plain("SEQUENCE_START") }

AllNodes == TypicalNodes \cup EntryNodes

MadeOf(nodes) ==
  \A i \in 1..Len(emitted) : emitted[i].type \in Leaf \cup CollectionStart => emitted[i] \in nodes

OneImplicitDocument ==
  /\ Count({"DOC_START"}) <= 1
  /\ \A i \in 1..Len(emitted) : emitted[i].type \in {"DOC_START", "DOC_END"} => emitted[i].implicit

\* The bounds of the run: all that a caller may do with up to four typical
\* nodes, and one document of up to MaxNodes of those for longer streams.
WithinBounds ==
  \/ NodeCount + Owed(open) <= 4 /\ MadeOf(TypicalNodes)
  \/ changes = 0 /\ OneImplicitDocument /\ MadeOf(EntryNodes)

=============================================================================
