----------------------------- MODULE Expansion -----------------------------
(***************************************************************************)
(* Anchor binding, merge keys and aliases (oyl_parser.c, bind_anchors to   *)
(* resolve_aliases): what the eager parser does to the events of a         *)
(* document before they are delivered, if the caller asked for it.         *)
(*                                                                         *)
(* An event keeps its type, its value and its anchor.  A name is a         *)
(* sequence: <<"a">> as it is written, <<"a", 2>> once it is bound to the  *)
(* document's second anchor (in the code, "a\0" and "2"); <<>> is none.    *)
(* Scalars are plain.  Documents end implicitly: a document's end comes    *)
(* with the next one's list, and the stream's start with the first one's.  *)
(***************************************************************************)
EXTENDS Integers, Sequences, FiniteSets, SequencesExt

CONSTANTS
  Names,      \* the names of anchors
  Keys,       \* the values of scalars, merge keys apart
  FirstNodes, \* the nodes of the first document, as lists of events
  LaterNodes, \* and of those after it
  MaxDocuments, \* of the stream
  MaxEvents,  \* the event limit, or 0
  MaxDepth,   \* the depth limit, or 0
  MaxPasses   \* of merging, and of expanding

MergeKey == "<<"

CollectionStart == {"MAPPING_START", "SEQUENCE_START"}
CollectionEnd == {"MAPPING_END", "SEQUENCE_END"}

EventType == CollectionStart \cup CollectionEnd
               \cup {"SCALAR", "ALIAS", "STREAM_START", "DOC_START", "DOC_END"}

\* An event of the input.
WrittenEvent ==
  [type : EventType, value : {<<>>} \cup {<<v>> : v \in Names \cup Keys \cup {MergeKey}},
   anchor : {<<>>} \cup {<<n>> : n \in Names}]

ASSUME ExpansionNodes == FirstNodes \subseteq Seq(WrittenEvent) /\ LaterNodes \subseteq Seq(WrittenEvent)

ASSUME ExpansionLimits ==
  /\ MaxEvents \in Nat /\ MaxDepth \in Nat /\ MaxPasses \in Nat \ {0}
  /\ MaxDocuments \in Nat
  /\ MergeKey \notin Keys

Plain(type) == [type |-> type, value |-> <<>>, anchor |-> <<>>]

\* The list of a document: what comes before it, and what is in it.
Framed(before, node) == <<Plain(before), Plain("DOC_START")>> \o node

VARIABLES
  events,    \* p->events
  base,      \* p->evt_base
  document,  \* history: the events of the document before, and which it is
  phase,     \* what runs next, or how it ended
  pass,      \* how many passes have changed the list
  limit,     \* of the list the passes make
  merging,   \* p->merge_enabled
  resolving, \* p->resolve_enabled
  color,     \* of each anchored node, while cycles are looked for
  path,      \* the calls of alias_has_cycle: an anchor, and where it goes on
  cyclic     \* the anchors found cyclic, by their place in the first table

setters == <<merging, resolving>>
search == <<color, path, cyclic>>
vars == <<events, base, document, phase, pass, limit, setters, search>>

Ended == {"DONE", "ERR_PARSE", "ERR_LIMIT"}
Phase == {"BIND", "MERGE", "TABLE", "CYCLES", "RESOLVE", "UNBIND"} \cup Ended

-----------------------------------------------------------------------------
(***************************************************************************)
(* Lists of events.  A collection's start and end are on one level, what   *)
(* is between them on levels below.                                        *)
(***************************************************************************)

\* How many of the first i events are of these types.
Count(list, i, types) == Len(SelectSeq(SubSeq(list, 1, i), LAMBDA e : e.type \in types))

Levels(list) ==
  [i \in 1..Len(list) |-> Count(list, i - 1, CollectionStart) - Count(list, i, CollectionEnd)]

\* node_end: the position of the last event of the node at i.
NodeEnd(list, lv, i) ==
  IF list[i].type \notin CollectionStart THEN i
  ELSE CHOOSE j \in i + 1..Len(list) :
         lv[j] = lv[i] /\ \A k \in i + 1..j - 1 : lv[k] # lv[i]

\* The nodes in the collection at m, in order.
Children(list, lv, m) ==
  LET inside == [k \in 1..NodeEnd(list, lv, m) - m - 1 |-> m + k]
  IN  SelectSeq(inside, LAMBDA i : lv[i] = lv[m] + 1 /\ list[i].type \notin CollectionEnd)

\* The key and the value of each entry of the mapping at m.
PairsOf(children) ==
  [j \in 1..Len(children) \div 2 |-> [key |-> children[2 * j - 1], value |-> children[2 * j]]]
Pairs(list, lv, m) == PairsOf(Children(list, lv, m))

\* atbl_build: the anchored nodes, and the place of each in the table.
Anchored(list) == {i \in 1..Len(list) : list[i].anchor # <<>>}
Place(list, i) == Cardinality({j \in Anchored(list) : j <= i})

\* atbl_lookup: the node of that name, or 0.
Lookup(list, name) == SelectLastInSeq(list, LAMBDA e : e.anchor = name)

\* Mutant: copies keep their anchors.
CopyWithAnchors(list) == list

\* Copies carry no anchors: they are not new definitions.
Copy(list) == [i \in 1..Len(list) |-> [list[i] EXCEPT !.anchor = <<>>]]

\* Mutant: every document has the whole limit.
LimitOfDocument(unexpanded) == IF MaxEvents = 0 THEN unexpanded * 16 + 100000 ELSE MaxEvents

\* expansion_limit: what the stream has left.
Limit(unexpanded) ==
  IF MaxEvents = 0 THEN unexpanded * 16 + 100000
  ELSE IF MaxEvents - base > 1 THEN MaxEvents - base ELSE 1

\* Mutant: the last event that is allowed is refused.
FitsShort(list) == Len(list) \in 0..limit - 1

\* ebuf_push: the list is not too long for the buffer of a pass.
Fits(list) == Len(list) \in 0..limit

-----------------------------------------------------------------------------
(***************************************************************************)
(* Anchor binding.                                                         *)
(***************************************************************************)

\* The most recent node before i with the name of the alias at i, or 0.
Definition(list, i) ==
  SelectLastInSeq(SubSeq(list, 1, i), LAMBDA e : e.anchor = list[i].value)

Bound(list, i) ==
  LET e == list[i]
  IN  IF e.type = "ALIAS"
      THEN IF Definition(list, i) = 0 THEN e
           ELSE [e EXCEPT !.value = Append(@, Place(list, Definition(list, i)))]
      ELSE IF e.anchor = <<>> THEN e ELSE [e EXCEPT !.anchor = Append(@, Place(list, i))]

\* bind_anchors.
BindAnchors ==
  /\ phase = "BIND"
  /\ events' = [i \in 1..Len(events) |-> Bound(events, i)]
  /\ phase' = IF merging THEN "MERGE" ELSE "TABLE"
  /\ limit' = Limit(Len(events))
  /\ UNCHANGED <<base, document, pass, setters, search>>

\* unbind_name.
Written(name) == IF name = <<>> THEN <<>> ELSE <<Head(name)>>

UnboundEvent(e) ==
  [e EXCEPT !.anchor = Written(@), !.value = IF e.type = "ALIAS" THEN Written(@) ELSE @]

TooDeep(list) == MaxDepth > 0 /\ \E i \in 1..Len(list) :
                   list[i].type \in CollectionStart /\ Levels(list)[i] >= MaxDepth

\* unbind_anchors, then check_eager_depth.
UnbindAnchors ==
  /\ phase = "UNBIND"
  /\ events' = [i \in 1..Len(events) |-> UnboundEvent(events[i])]
  /\ phase' = IF TooDeep(events) THEN "ERR_LIMIT" ELSE "DONE"
  /\ color' = <<>> /\ cyclic' = {}
  /\ UNCHANGED <<base, document, pass, limit, setters, path>>

-----------------------------------------------------------------------------
(***************************************************************************)
(* Merge keys.                                                             *)
(***************************************************************************)

IsScalar(e) == e.type = "SCALAR"
IsMergeKey(e) == IsScalar(e) /\ e.value = <<MergeKey>>

MergePairs(list, pairs) == SelectSeq(pairs, LAMBDA pr : IsMergeKey(list[pr.key]))
OwnPairs(list, pairs) == SelectSeq(pairs, LAMBDA pr : ~IsMergeKey(list[pr.key]))

HasMerge(list, lv, i) ==
  list[i].type = "MAPPING_START" /\ MergePairs(list, Pairs(list, lv, i)) # <<>>

\* The sources of a merge key: the nodes in a sequence, or one node.
Sources(list, lv, value) ==
  IF list[value].type = "SEQUENCE_START" THEN Children(list, lv, value) ELSE <<value>>

AllSources(list, lv, m) ==
  LET merges == MergePairs(list, Pairs(list, lv, m))
  IN  FlattenSeq([j \in 1..Len(merges) |-> Sources(list, lv, merges[j].value)])

\* The node that a source is or stands for, or 0.
SourceNode(list, s) ==
  IF list[s].type # "ALIAS" THEN s
  ELSE Lookup(list, list[s].value)

GoodSource(list, s) ==
  SourceNode(list, s) # 0 /\ list[SourceNode(list, s)].type = "MAPPING_START"

PairEvents(list, lv, pr) == SubSeq(list, pr.key, NodeEnd(list, lv, pr.value))

\* The entries of all the sources, in order.
SourcePairs(list, lv, m) ==
  LET sources == AllSources(list, lv, m)
  IN  FlattenSeq([j \in 1..Len(sources) |-> Pairs(list, lv, SourceNode(list, sources[j]))])

OwnKeys(list, own) ==
  {list[own[j].key].value : j \in {j \in 1..Len(own) : IsScalar(list[own[j].key])}}

\* Mutant: the sources' entries do not keep out one another's.
SeenOwnOnly(list, own, pairs, j) == OwnKeys(list, own)

\* The scalar keys that are there when it is the turn of entry j of pairs.
Seen(list, own, pairs, j) == OwnKeys(list, own) \cup OwnKeys(list, SubSeq(pairs, 1, j - 1))

\* merge_from_mapping: what is added of the sources' entries.
Injected(list, lv, own, pairs) ==
  FlattenSeq([j \in 1..Len(pairs) |->
    IF IsScalar(list[pairs[j].key]) /\ list[pairs[j].key].value \in Seen(list, own, pairs, j)
    THEN <<>> ELSE Copy(PairEvents(list, lv, pairs[j]))])

\* The mapping with its own entries first, then those of its sources.
Merged(list, lv, m) ==
  LET own == OwnPairs(list, Pairs(list, lv, m))
  IN  <<list[m]>> \o FlattenSeq([j \in 1..Len(own) |-> PairEvents(list, lv, own[j])])
                  \o Injected(list, lv, own, SourcePairs(list, lv, m))
                  \o <<list[NodeEnd(list, lv, m)]>>

\* The mappings that a pass rebuilds, and not as a part of another one.
Rebuilt(list, lv) ==
  LET merges == {i \in 1..Len(list) : HasMerge(list, lv, i)}
  IN  {i \in merges : \A m \in merges : ~(m < i /\ i < NodeEnd(list, lv, m))}

Broken(list, lv, m) ==
  \E s \in ToSet(AllSources(list, lv, m)) : ~GoodSource(list, s)

\* What a pass writes for the events up to position n.
MergedUpTo(list, lv, n) ==
  LET rebuilt == Rebuilt(list, lv)
  IN  FlattenSeq([i \in 1..n |->
        IF i \in rebuilt THEN Merged(list, lv, i)
        ELSE IF \E m \in rebuilt : m < i /\ i <= NodeEnd(list, lv, m) THEN <<>>
        ELSE <<list[i]>>])

\* The first mapping whose merge value is no mapping ends the pass, unless
\* the buffer is full before it.
MergeFails(list, lv) ==
  LET broken == {m \in Rebuilt(list, lv) : Broken(list, lv, m)}
  IN  \E m \in broken : (\A k \in broken : m <= k) /\ Fits(MergedUpTo(list, lv, m - 1))

\* A pass that changes something makes a new list, and is not the last but
\* for the bound on them.
EndPass(list, this, following) ==
  IF Fits(list)
  THEN /\ events' = list
       /\ pass' = IF pass + 1 = MaxPasses THEN 0 ELSE pass + 1
       /\ phase' = IF pass + 1 = MaxPasses THEN following ELSE this
  ELSE phase' = "ERR_LIMIT" /\ UNCHANGED <<events, pass>>

\* A pass that changes nothing.
LastPass(following) ==
  /\ phase' = IF Fits(events) THEN following ELSE "ERR_LIMIT"
  /\ pass' = 0
  /\ UNCHANGED events

\* resolve_merges, one pass.
MergePass ==
  LET lv == Levels(events)
  IN  /\ phase = "MERGE"
      /\ IF MergeFails(events, lv) THEN phase' = "ERR_PARSE" /\ UNCHANGED <<events, pass>>
         ELSE IF Rebuilt(events, lv) = {} THEN LastPass("TABLE")
         ELSE EndPass(MergedUpTo(events, lv, Len(events)), "MERGE", "TABLE")
      /\ UNCHANGED <<base, document, limit, setters, search>>

-----------------------------------------------------------------------------
(***************************************************************************)
(* Aliases: first the search for cycles, depth first.                      *)
(***************************************************************************)

\* resolve_aliases: nothing to do without anchors.
BuildTable ==
  /\ phase = "TABLE"
  /\ IF resolving /\ Anchored(events) # {}
     THEN /\ phase' = "CYCLES"
          /\ color' = [k \in Anchored(events) |-> "WHITE"]
          /\ limit' = Limit(Len(events))
     ELSE /\ phase' = "UNBIND"
          /\ UNCHANGED <<color, limit>>
  /\ UNCHANGED <<events, base, document, pass, setters, path, cyclic>>

Enter(k) == [anchor |-> k, next |-> k]

\* The next anchor in the order of the table.
NextRoot ==
  /\ phase = "CYCLES" /\ path = <<>>
  /\ \E k \in DOMAIN color :
       /\ color[k] = "WHITE" /\ \A j \in DOMAIN color : j < k => color[j] # "WHITE"
       /\ color' = [color EXCEPT ![k] = "GRAY"]
       /\ path' = <<Enter(k)>>
  /\ UNCHANGED <<events, base, document, phase, pass, limit, setters, cyclic>>

NoRootLeft ==
  /\ phase = "CYCLES" /\ path = <<>> /\ \A k \in DOMAIN color : color[k] # "WHITE"
  /\ phase' = "RESOLVE"
  /\ color' = <<>>
  /\ UNCHANGED <<events, base, document, pass, limit, setters, path, cyclic>>

TargetAt(i) == IF events[i].type = "ALIAS" THEN Lookup(events, events[i].value) ELSE 0

\* The aliases in the rest of the anchor's node that lead anywhere new.
Ahead(call) ==
  {i \in call.next..NodeEnd(events, Levels(events), call.anchor) :
     TargetAt(i) \in DOMAIN color /\ color[TargetAt(i)] # "BLACK"}

Gray == {k \in DOMAIN color : color[k] = "GRAY"}

\* Mutant: only the anchor that closes the cycle is flagged.
FoundCycle(k) == {k}

\* Every anchor gray when a cycle is found: those that lead to it too.
OnPath(k) == Gray

\* alias_has_cycle, from one alias to the next.
FollowAlias ==
  /\ phase = "CYCLES" /\ path # <<>>
  /\ \E i \in Ahead(Last(path)) :
       LET k == TargetAt(i)
       IN  /\ \A j \in Ahead(Last(path)) : i <= j
           /\ IF color[k] = "GRAY"
              THEN /\ cyclic' = cyclic \cup {Place(events, a) : a \in OnPath(k)}
                   /\ path' = <<>>
                   /\ UNCHANGED color
              ELSE /\ path' = Front(path) \o <<[Last(path) EXCEPT !.next = i + 1], Enter(k)>>
                   /\ color' = [color EXCEPT ![k] = "GRAY"]
                   /\ UNCHANGED cyclic
  /\ UNCHANGED <<events, base, document, phase, pass, limit, setters>>

\* Mutant: an anchor that has been left may be entered again.
LeaveAnchorWhite ==
  /\ phase = "CYCLES" /\ path # <<>> /\ Ahead(Last(path)) = {}
  /\ color' = [color EXCEPT ![Last(path).anchor] = "WHITE"]
  /\ path' = Front(path)
  /\ UNCHANGED <<events, base, document, phase, pass, limit, setters, cyclic>>

LeaveAnchor ==
  /\ phase = "CYCLES" /\ path # <<>> /\ Ahead(Last(path)) = {}
  /\ color' = [color EXCEPT ![Last(path).anchor] = "BLACK"]
  /\ path' = Front(path)
  /\ UNCHANGED <<events, base, document, phase, pass, limit, setters, cyclic>>

-----------------------------------------------------------------------------
(***************************************************************************)
(* Then the expansion.                                                     *)
(***************************************************************************)

\* The node that an alias is expanded to, or 0: the flags go by the places
\* in the first table, and are looked up by those in the present one.
Expandable(list, e) ==
  IF e.type = "ALIAS" /\ Place(list, Lookup(list, e.value)) \notin cyclic
  THEN Lookup(list, e.value) ELSE 0

ResolvedList(list, lv) ==
  FlattenSeq([i \in 1..Len(list) |->
    LET at == Expandable(list, list[i])
    IN  IF at = 0 THEN <<list[i]>> ELSE Copy(SubSeq(list, at, NodeEnd(list, lv, at)))])

\* resolve_aliases, one pass.
ResolvePass ==
  /\ phase = "RESOLVE"
  /\ IF \A i \in 1..Len(events) : Expandable(events, events[i]) = 0
     THEN LastPass("UNBIND")
     ELSE EndPass(ResolvedList(events, Levels(events)), "RESOLVE", "UNBIND")
  /\ UNCHANGED <<base, document, limit, setters, search>>

-----------------------------------------------------------------------------

\* parse_stream has queued a document, within both limits.
Queued(list, before) ==
  /\ MaxEvents = 0 \/ before + Len(list) <= MaxEvents
  /\ ~TooDeep(list)

Init ==
  /\ \E node \in FirstNodes : events = Framed("STREAM_START", node)
  /\ Queued(events, 0)
  /\ base = 0
  /\ document = [list |-> events, number |-> 1]
  /\ phase = "BIND"
  /\ pass = 0 /\ limit = 0
  /\ merging \in BOOLEAN /\ resolving \in BOOLEAN /\ (merging \/ resolving)
  /\ color = <<>> /\ path = <<>> /\ cyclic = {}

\* eager_next_event: the list is delivered, and the next document's begun.
NextDocument ==
  /\ phase = "DONE" /\ document.number < MaxDocuments
  /\ \E node \in LaterNodes : events' = Framed("DOC_END", node)
  /\ base' = base + Len(events)
  /\ Queued(events', base')
  /\ document' = [list |-> events', number |-> document.number + 1]
  /\ phase' = "BIND"
  /\ limit' = 0
  /\ UNCHANGED <<pass, setters, search>>

Finished ==
  /\ phase \in Ended
  /\ UNCHANGED vars

Expand ==
  \/ BindAnchors \/ MergePass \/ BuildTable
  \/ NextRoot \/ NoRootLeft \/ FollowAlias \/ LeaveAnchor
  \/ ResolvePass \/ UnbindAnchors

Next == Expand \/ NextDocument \/ Finished

Spec == Init /\ [][Next]_vars

=============================================================================
