----------------------------- MODULE MCExpansion -----------------------------
(***************************************************************************)
(* Documents to expand, for TLC: sequences of nodes that define names and  *)
(* refer to them, and mappings that merge others.                          *)
(***************************************************************************)
EXTENDS ExpansionProperties

Ev(type, value, anchor) == [type |-> type, value |-> value, anchor |-> anchor]

Scalar(v) == <<Ev("SCALAR", <<v>>, <<>>)>>
Alias(n) == <<Ev("ALIAS", <<n>>, <<>>)>>
At(n, node) == <<[Head(node) EXCEPT !.anchor = <<n>>]>> \o Tail(node)

ListOf(nodes) == <<Plain("SEQUENCE_START")>> \o FlattenSeq(nodes) \o <<Plain("SEQUENCE_END")>>
MapOf(nodes) == <<Plain("MAPPING_START")>> \o FlattenSeq(nodes) \o <<Plain("MAPPING_END")>>

Perhaps(nodes) == nodes \cup {At(n, node) : n \in Names, node \in nodes}
UpTo(n, nodes) == UNION {[1..k -> nodes] : k \in 0..n}

\* The name "x" comes first: the others are as good.
XFirst(node) ==
  LET named == SelectSeq(node, LAMBDA e : e.anchor # <<>>)
  IN  named = <<>> \/ Head(named).anchor = <<"x">>

-----------------------------------------------------------------------------
\* Names that are defined, redefined and used, in one another too.
Leaves == {Scalar("a")} \cup {At(n, Scalar("a")) : n \in Names} \cup {Alias(n) : n \in Names}
Boxes == Perhaps({ListOf(s) : s \in UpTo(2, Leaves)})

AliasDocuments ==
  {d \in Perhaps({ListOf(<<b, c>>) : b \in Boxes, c \in Leaves \cup Boxes}) : XFirst(d)}

\* Chains that double, and a circle of two.
Chains ==
  {ListOf(<<At("x", ListOf(<<Scalar("a"), Scalar("a")>>)),
           At("y", ListOf(<<Alias("x"), Alias("x")>>)), At("x", ListOf(<<Alias("y"), Alias("y")>>)),
           Alias(n)>>) : n \in Names}

-----------------------------------------------------------------------------
\* Mappings that are merged into one another.
Entry(k, v) == Scalar(k) \o v
OwnEntries ==
  {Entry("a", Scalar("a")), Entry("a", Scalar("b")), Entry("b", At("y", Scalar("b"))),
   MapOf(<<>>) \o Alias("y")}
PlainMaps == {MapOf(s) : s \in UpTo(2, OwnEntries)}

Merge(v) == Entry(MergeKey, v)
SecondMaps ==
  PlainMaps \cup {MapOf(<<Merge(Alias("x"))>>), MapOf(<<Merge(Alias("y")), Entry("b", Scalar("a"))>>),
                  MapOf(<<Entry("a", Alias("x")), Entry("b", Alias("y"))>>)}

MergeValues ==
  {Alias("x"), Alias("y"), ListOf(<<Alias("x"), Alias("y")>>), ListOf(<<Alias("y"), Alias("x")>>),
   ListOf(<<Scalar("a")>>), At("x", MapOf(<<Entry("a", Alias("x"))>>)),
   MapOf(<<Merge(MapOf(<<Entry("b", Scalar("b"))>>)), Entry("b", Scalar("a"))>>)}
Targets ==
  {MapOf(<<Merge(v)>>) : v \in MergeValues}
    \cup {MapOf(<<Merge(v), Entry("b", Scalar("a"))>>) : v \in MergeValues}
    \cup {MapOf(<<Entry("a", MapOf(<<Merge(v)>>)), Merge(v)>>) : v \in MergeValues}
    \cup {MapOf(<<Merge(Alias("y")), Merge(v)>>) : v \in MergeValues}

MergeDocuments ==
  {ListOf(<<At("x", m), At("y", n), t>>) : m \in PlainMaps, n \in SecondMaps, t \in Targets}
    \cup {ListOf(<<t, Alias("x")>>) : t \in Targets}

\* The names of the first document mean nothing in the second.
LaterDocuments == {Alias("x"), ListOf(<<At("y", ListOf(<<Scalar("a")>>)), Alias("y"), Alias("x")>>)}

\* Two mappings that merge another, and one that merges both.
NestedMerges ==
  {ListOf(<<At("x", MapOf(<<Entry("a", v)>>)), At("y", m),
            MapOf(<<Merge(ListOf(<<Alias("y"), MapOf(<<Entry("a", Scalar("b"))>>)>>))>>)>>) :
     v \in {Scalar("a"), Scalar("b")}, m \in SecondMaps}

FirstDocuments == AliasDocuments \cup Chains \cup MergeDocuments
=============================================================================
