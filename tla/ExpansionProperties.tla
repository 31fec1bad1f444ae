------------------------- MODULE ExpansionProperties -------------------------
(***************************************************************************)
(* What anchor binding, merging and expansion are for: a reference         *)
(* definition on the document's tree, and the properties of the passes     *)
(* that compute it on its list.                                            *)
(***************************************************************************)
EXTENDS ExpansionBounds

-----------------------------------------------------------------------------
(***************************************************************************)
(* The reference: a node is merged and expanded with the nodes in it, one  *)
(* after the other.  Names are bound, so an alias says which node it means.*)
(***************************************************************************)

DefinedBefore(list, i) == {j \in 1..i : list[j].anchor = list[i].value}

\* Every name with the place of the node it means, the last one before.
BoundList(list) ==
  [i \in 1..Len(list) |->
    IF list[i].type # "ALIAS"
    THEN [list[i] EXCEPT !.anchor = IF @ = <<>> THEN @ ELSE Append(@, i)]
    ELSE IF DefinedBefore(list, i) = {} THEN list[i]
    ELSE [list[i] EXCEPT !.value = Append(@, Max(DefinedBefore(list, i)))]]

NodesNamed(list, name) == {i \in 1..Len(list) : list[i].anchor = name}

Meant(list, i) ==
  IF NodesNamed(list, list[i].value) = {} THEN i
  ELSE CHOOSE j \in NodesNamed(list, list[i].value) : TRUE

\* The mappings whose entries the mapping at m takes, in order.
MergedMappings(list, lv, m) ==
  LET sources == AllSources(list, lv, m)
  IN  [j \in 1..Len(sources) |->
         IF list[sources[j]].type = "ALIAS" THEN Meant(list, sources[j]) ELSE sources[j]]

SameKey(list, one, other) ==
  /\ list[one.key].type = "SCALAR" /\ list[other.key].type = "SCALAR"
  /\ list[one.key].value = list[other.key].value

\* The entries that a mapping has in the end: its own, and those of the
\* mappings it merges unless a scalar key is there already.
RECURSIVE Entries(_, _, _)
Entries(list, lv, m) ==
  LET own == OwnPairs(list, Pairs(list, lv, m))
      others == FlattenSeq([j \in 1..Len(MergedMappings(list, lv, m)) |->
                              Entries(list, lv, MergedMappings(list, lv, m)[j])])
      There(pr, among) == \E k \in 1..Len(among) : SameKey(list, among[k], pr)
      New(j) == ~There(others[j], own) /\ ~There(others[j], SubSeq(others, 1, j - 1))
      added == SelectSeq([j \in 1..Len(others) |-> j], New)
  IN  own \o [j \in 1..Len(added) |-> others[added[j]]]

RECURSIVE MergedNode(_, _, _)
MergedNode(list, lv, i) ==
  LET own == OwnPairs(list, Pairs(list, lv, i))
      inner == IF HasMerge(list, lv, i) THEN Entries(list, lv, i) ELSE own
      Both(pr) == MergedNode(list, lv, pr.key) \o MergedNode(list, lv, pr.value)
      EntryAt(pr) == IF pr \in ToSet(own) THEN Both(pr) ELSE Copy(Both(pr))
  IN  CASE list[i].type = "MAPPING_START" ->
             <<list[i]>> \o FlattenSeq([j \in 1..Len(inner) |-> EntryAt(inner[j])])
               \o <<list[NodeEnd(list, lv, i)]>>
        [] list[i].type = "SEQUENCE_START" ->
             LET nodes == Children(list, lv, i)
             IN  <<list[i]>> \o FlattenSeq([j \in 1..Len(nodes) |-> MergedNode(list, lv, nodes[j])])
                   \o <<list[NodeEnd(list, lv, i)]>>
        [] OTHER -> <<list[i]>>

\* Of the anchors, those in whose node there are aliases of another.
Leads(list, lv, i) ==
  {Meant(list, j) : j \in {j \in i..NodeEnd(list, lv, i) :
                             list[j].type = "ALIAS" /\ Meant(list, j) # j}}

\* Where the aliases in a set of nodes lead, in at most n steps.
RECURSIVE Reached(_, _, _, _)
Reached(list, lv, from, n) ==
  IF n = 0 THEN from
  ELSE Reached(list, lv, from \cup UNION {Leads(list, lv, i) : i \in from}, n - 1)

After(list, lv, i) == Reached(list, lv, Leads(list, lv, i), Cardinality(Anchored(list)))

\* The nodes that contain themselves, or lead to one that does.
Endless(list, lv) ==
  {i \in Anchored(list) :
     i \in After(list, lv, i) \/ \E j \in After(list, lv, i) : j \in After(list, lv, j)}

RECURSIVE ExpandedEvent(_, _, _, _)
ExpandedEvent(list, lv, endless, i) ==
  LET at == Meant(list, i)
  IN  IF list[i].type # "ALIAS" \/ at = i \/ at \in endless THEN <<list[i]>>
      ELSE Copy(FlattenSeq([j \in 1..NodeEnd(list, lv, at) - at + 1 |->
                              ExpandedEvent(list, lv, endless, at + j - 1)]))

ExpandedList(list) ==
  LET lv == Levels(list)
      endless == Endless(list, lv)
  IN  FlattenSeq([i \in 1..Len(list) |-> ExpandedEvent(list, lv, endless, i)])


MergedDocument(list) == SubSeq(list, 1, 2) \o MergedNode(list, Levels(list), 3)

AfterMerging(list) == IF merging THEN MergedDocument(list) ELSE list
AfterExpanding(list) == IF resolving THEN ExpandedList(list) ELSE list

Unbound(list) == [i \in 1..Len(list) |-> UnboundEvent(list[i])]

-----------------------------------------------------------------------------
(***************************************************************************)
(* The properties.                                                         *)
(***************************************************************************)

Mappings(list) == {i \in 1..Len(list) : list[i].type = "MAPPING_START"}

\* No mapping that is merged into another has merge keys of its own.
PlainSources(list) ==
  LET lv == Levels(list)
  IN  \A m \in Mappings(list) :
        \A j \in 1..Len(MergedMappings(list, lv, m)) :
          ~HasMerge(list, lv, MergedMappings(list, lv, m)[j])

\* The document has been merged as the caller expects: a mapping keeps its
\* own entries, and of two mappings merged into it the first one wins
\* (resolve_merges, process_merge_value); and then every alias has become
\* the node it means, the last of that name before it (bind_anchors,
\* resolve_aliases), unless that node leads round in a circle.
Meaning(list) == events = Unbound(AfterExpanding(AfterMerging(BoundList(list))))

\* All that, where merging does not have to go on in what was merged.
ExpansionMeaning ==
  phase = "DONE" /\ (merging => PlainSources(BoundList(document.list))) => Meaning(document.list)

\* The reference follows aliases from mapping to mapping: not in circles.
NotEndless(list) == Endless(list, Levels(list)) = {}

\* It holds too where a merged mapping merges others.
EarlierSourcesWin ==
  phase = "DONE" /\ NotEndless(BoundList(document.list)) => Meaning(document.list)

\* An anchor's internal name is on one node only, whatever was copied where:
\* the table maps a name to one entry (atbl_build, bind_anchors).
NamesUnique ==
  phase \in {"MERGE", "TABLE", "CYCLES", "RESOLVE", "UNBIND"} =>
    \A i, j \in Anchored(events) : events[i].anchor = events[j].anchor => i = j

TableNames(list) == {<<Place(list, i), list[i].anchor>> : i \in Anchored(list)}

\* The flags are of the first table's entries, and every pass builds a new
\* one: it has the same entries in the same order (resolve_aliases).
FlagsStayAligned == [][phase = "RESOLVE" => TableNames(events') = TableNames(events)]_vars

\* Once the search has ended, the flagged anchors are those whose expansion
\* would not end, however the search went through them (alias_has_cycle
\* leaves what it was looking at gray, and starts again elsewhere).
FlagsAreTheEndless ==
  phase = "RESOLVE" /\ pass = 0 =>
    {i \in Anchored(events) : Place(events, i) \in cyclic} = Endless(events, Levels(events))

\* Without merging, the limits refuse what is too large or too deep when
\* expanded, and nothing else (ebuf_push, check_eager_depth).
LimitsExact ==
  ~merging /\ phase = "ERR_LIMIT" =>
    LET full == ExpandedList(BoundList(document.list))
    IN  (MaxEvents > 0 /\ base + Len(full) > MaxEvents) \/ TooDeep(full)

=============================================================================
