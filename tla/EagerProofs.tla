---------------------------- MODULE EagerProofs ----------------------------
(***************************************************************************)
(* The events that the eager parser queues continue the stream delivered   *)
(* so far, document after document, wherever a mapping's start is inserted *)
(* before its key and whatever was skipped after a fallback: so what the   *)
(* whole parser delivers is a well-formed stream, complete when it says    *)
(* so, and what the eager parser alone delivers keeps to the depth limit.  *)
(***************************************************************************)
EXTENDS WholeProofs

-----------------------------------------------------------------------------
(***************************************************************************)
(* Events i+1 to k of a word, each accepted by the levels the ones before  *)
(* it lead to.                                                             *)
(***************************************************************************)

Follows(path, w, i, k) ==
  \A j \in (i + 1)..k :
    w[j] \in Stream!Accepts(path[j - 1]) /\ path[j] = Stream!After(path[j - 1], w[j])

Leads(a, w, i, k, b) ==
  \E path \in [i..k -> Seq(Stream!Level)] :
    path[i] = a /\ path[k] = b /\ Follows(path, w, i, k)

\* No events lead nowhere.
LEMMA LeadsNowhere ==
  ASSUME NEW a \in Seq(Stream!Level), NEW w, NEW i \in Nat
  PROVE  Leads(a, w, i, i, a)
<1> DEFINE path == [j \in i..i |-> a]
<1>1. path \in [i..i -> Seq(Stream!Level)] /\ path[i] = a
  OBVIOUS
<1>2. Follows(path, w, i, i)
  BY DEF Follows
<1> HIDE DEF path
<1> QED BY <1>1, <1>2 DEF Leads

\* Where they start and end.
LEMMA LeadsEnds ==
  ASSUME NEW a, NEW w, NEW i \in Nat, NEW k \in Nat, i <= k, NEW b, Leads(a, w, i, k, b)
  PROVE  a \in Seq(Stream!Level) /\ b \in Seq(Stream!Level) /\ (i = k => a = b)
<1>1. PICK path \in [i..k -> Seq(Stream!Level)] : path[i] = a /\ path[k] = b
  BY DEF Leads
<1>2. i \in i..k /\ k \in i..k
  OBVIOUS
<1> QED BY <1>1, <1>2

\* One way after another.
LEMMA LeadsThrough ==
  ASSUME NEW a, NEW b, NEW c, NEW w, NEW i \in Nat, NEW k \in Nat, NEW n \in Nat,
         i <= k, k <= n, Leads(a, w, i, k, b), Leads(b, w, k, n, c)
  PROVE  Leads(a, w, i, n, c)
<1>1. PICK p \in [i..k -> Seq(Stream!Level)] :
        p[i] = a /\ p[k] = b /\ Follows(p, w, i, k)
  BY DEF Leads
<1>2. PICK r \in [k..n -> Seq(Stream!Level)] :
        r[k] = b /\ r[n] = c /\ Follows(r, w, k, n)
  BY DEF Leads
<1> DEFINE s == [j \in i..n |-> IF j <= k THEN p[j] ELSE r[j]]
<1>3. s \in [i..n -> Seq(Stream!Level)]
  <2>1. ASSUME NEW j \in i..n PROVE (IF j <= k THEN p[j] ELSE r[j]) \in Seq(Stream!Level)
    <3>1. j <= k => j \in i..k
      OBVIOUS
    <3>2. ~(j <= k) => j \in k..n
      OBVIOUS
    <3> QED BY <1>1, <1>2, <3>1, <3>2
  <2> QED BY <2>1
<1>4. (\A j \in i..k : s[j] = p[j]) /\ (\A j \in k..n : s[j] = r[j])
  <2>1. ASSUME NEW j \in i..k PROVE s[j] = p[j]
    OBVIOUS
  <2>2. ASSUME NEW j \in k..n PROVE s[j] = r[j]
    <3>1. CASE j = k
      BY <1>1, <1>2, <3>1
    <3>2. CASE j # k
      <4>1. j \in i..n /\ ~(j <= k)
        BY <3>2
      <4> QED BY <4>1
    <3> QED BY <3>1, <3>2
  <2> QED BY <2>1, <2>2
<1> HIDE DEF s
<1>5. s[i] = a /\ s[n] = c
  <2>1. i \in i..k /\ n \in k..n
    OBVIOUS
  <2> QED BY <1>1, <1>2, <1>4, <2>1
<1>6. Follows(s, w, i, n)
  <2> SUFFICES ASSUME NEW j \in (i + 1)..n
               PROVE  w[j] \in Stream!Accepts(s[j - 1]) /\ s[j] = Stream!After(s[j - 1], w[j])
    BY DEF Follows
  <2>1. CASE j <= k
    <3>1. j \in (i + 1)..k /\ j \in i..k /\ j - 1 \in i..k
      BY <2>1
    <3> QED BY <1>1, <1>4, <3>1 DEF Follows
  <2>2. CASE ~(j <= k)
    <3>1. j \in (k + 1)..n /\ j \in k..n /\ j - 1 \in k..n
      BY <2>2
    <3> QED BY <1>2, <1>4, <3>1 DEF Follows
  <2> QED BY <2>1, <2>2
<1> QED BY <1>3, <1>5, <1>6 DEF Leads

\* One more event, if it is accepted.
LEMMA LeadsOn ==
  ASSUME NEW a, NEW b, NEW w, NEW i \in Nat, NEW k \in Nat, i <= k, Leads(a, w, i, k, b),
         w[k + 1] \in Stream!Accepts(b), Stream!After(b, w[k + 1]) \in Seq(Stream!Level)
  PROVE  Leads(a, w, i, k + 1, Stream!After(b, w[k + 1]))
<1> DEFINE c == Stream!After(b, w[k + 1])
           path == [j \in k..k + 1 |-> IF j = k THEN b ELSE c]
<1>1. b \in Seq(Stream!Level)
  BY LeadsEnds
<1>2. /\ path \in [k..k + 1 -> Seq(Stream!Level)] /\ path[k] = b /\ path[k + 1] = c
  BY <1>1
<1> HIDE DEF path
<1>3. Follows(path, w, k, k + 1)
  <2>1. \A j \in (k + 1)..(k + 1) : j = k + 1 /\ j - 1 = k
    OBVIOUS
  <2> QED BY <1>2, <2>1 DEF Follows
<1>4. Leads(b, w, k, k + 1, c)
  BY <1>2, <1>3 DEF Leads
<1> HIDE DEF c
<1>5. k <= k + 1
  OBVIOUS
<1>6. Leads(a, w, i, k + 1, c)
  BY <1>4, <1>5, LeadsThrough
<1> QED BY <1>6 DEF c

\* The same events at other places.
LEMMA LeadsMoved ==
  ASSUME NEW a, NEW b, NEW w, NEW v, NEW i \in Nat, NEW k \in Nat, NEW d \in Nat, i <= k,
         Leads(a, w, i, k, b), \A j \in (i + 1)..k : v[j + d] = w[j]
  PROVE  Leads(a, v, i + d, k + d, b)
<1>1. PICK p \in [i..k -> Seq(Stream!Level)] :
        p[i] = a /\ p[k] = b /\ Follows(p, w, i, k)
  BY DEF Leads
<1> DEFINE s == [j \in i + d..k + d |-> p[j - d]]
<1>2. \A j \in i + d..k + d : j - d \in i..k
  OBVIOUS
<1>3. s \in [i + d..k + d -> Seq(Stream!Level)]
  BY <1>1, <1>2
<1>4. \A j \in i..k : s[j + d] = p[j]
  <2> SUFFICES ASSUME NEW j \in i..k PROVE s[j + d] = p[j]
    OBVIOUS
  <2>1. j + d \in i + d..k + d /\ j + d - d = j
    OBVIOUS
  <2> QED BY <2>1
<1> HIDE DEF s
<1>5. s[i + d] = a /\ s[k + d] = b
  <2>1. i \in i..k /\ k \in i..k
    OBVIOUS
  <2> QED BY <1>1, <1>4, <2>1
<1>6. Follows(s, v, i + d, k + d)
  <2> SUFFICES ASSUME NEW m \in (i + d + 1)..(k + d)
               PROVE  v[m] \in Stream!Accepts(s[m - 1]) /\ s[m] = Stream!After(s[m - 1], v[m])
    BY DEF Follows
  <2> DEFINE j == m - d
  <2>1. /\ j \in (i + 1)..k /\ j \in i..k /\ j - 1 \in i..k
        /\ m = j + d /\ m - 1 = j - 1 + d
    OBVIOUS
  <2>2. v[j + d] = w[j] /\ s[j + d] = p[j] /\ s[j - 1 + d] = p[j - 1]
    BY <1>4, <2>1
  <2>3. w[j] \in Stream!Accepts(p[j - 1]) /\ p[j] = Stream!After(p[j - 1], w[j])
    BY <1>1, <2>1 DEF Follows
  <2> HIDE DEF j
  <2> QED BY <2>1, <2>2, <2>3
<1> QED BY <1>3, <1>5, <1>6 DEF Leads

\* In a word that begins alike.
LEMMA LeadsAlike ==
  ASSUME NEW a, NEW b, NEW w, NEW v, NEW i \in Nat, NEW k \in Nat, i <= k,
         Leads(a, w, i, k, b), \A j \in 1..k : v[j] = w[j]
  PROVE  Leads(a, v, i, k, b)
<1>1. \A j \in (i + 1)..k : v[j + 0] = w[j]
  <2> SUFFICES ASSUME NEW j \in (i + 1)..k PROVE v[j + 0] = w[j]
    OBVIOUS
  <2>1. j \in 1..k /\ j + 0 = j
    OBVIOUS
  <2> QED BY <2>1
<1>2. Leads(a, v, i + 0, k + 0, b)
  BY <1>1, LeadsMoved
<1>3. i + 0 = i /\ k + 0 = k
  OBVIOUS
<1> QED BY <1>2, <1>3

\* A way leads somewhere after part of it.
LEMMA LeadsParts ==
  ASSUME NEW a, NEW b, NEW w, NEW i \in Nat, NEW k \in Nat, NEW n \in Nat, i <= k, k <= n,
         Leads(a, w, i, n, b)
  PROVE  \E c : Leads(a, w, i, k, c) /\ Leads(c, w, k, n, b)
<1>1. PICK p \in [i..n -> Seq(Stream!Level)] :
        p[i] = a /\ p[n] = b /\ Follows(p, w, i, n)
  BY DEF Leads
<1> DEFINE r == [j \in i..k |-> p[j]]
           s == [j \in k..n |-> p[j]]
<1>2. r \in [i..k -> Seq(Stream!Level)] /\ s \in [k..n -> Seq(Stream!Level)]
  BY <1>1
<1>3. (\A j \in i..k : r[j] = p[j]) /\ (\A j \in k..n : s[j] = p[j])
  OBVIOUS
<1> HIDE DEF r, s
<1>4. r[i] = a /\ r[k] = p[k] /\ s[k] = p[k] /\ s[n] = b
  BY <1>1, <1>3
<1>5. Follows(r, w, i, k)
  <2> SUFFICES ASSUME NEW j \in (i + 1)..k
               PROVE  w[j] \in Stream!Accepts(r[j - 1]) /\ r[j] = Stream!After(r[j - 1], w[j])
    BY DEF Follows
  <2>1. j \in (i + 1)..n /\ j \in i..k /\ j - 1 \in i..k
    OBVIOUS
  <2> QED BY <1>1, <1>3, <2>1 DEF Follows
<1>6. Follows(s, w, k, n)
  <2> SUFFICES ASSUME NEW j \in (k + 1)..n
               PROVE  w[j] \in Stream!Accepts(s[j - 1]) /\ s[j] = Stream!After(s[j - 1], w[j])
    BY DEF Follows
  <2>1. j \in (i + 1)..n /\ j \in k..n /\ j - 1 \in k..n
    OBVIOUS
  <2> QED BY <1>1, <1>3, <2>1 DEF Follows
<1>7. Leads(a, w, i, k, p[k]) /\ Leads(p[k], w, k, n, b)
  BY <1>2, <1>4, <1>5, <1>6 DEF Leads
<1> QED BY <1>7

\* Events lead to one place only.
LEMMA LeadsOnce ==
  ASSUME NEW a, NEW b, NEW c, NEW w, NEW i \in Nat, NEW k \in Nat, i <= k,
         Leads(a, w, i, k, b), Leads(a, w, i, k, c)
  PROVE  b = c
<1>1. PICK p \in [i..k -> Seq(Stream!Level)] :
        p[i] = a /\ p[k] = b /\ Follows(p, w, i, k)
  BY DEF Leads
<1>2. PICK r \in [i..k -> Seq(Stream!Level)] :
        r[i] = a /\ r[k] = c /\ Follows(r, w, i, k)
  BY DEF Leads
<1> DEFINE T == {j \in i..k : p[j] # r[j]}
<1>3. ASSUME T # {} PROVE FALSE
  <2>1. T \in SUBSET Nat
    OBVIOUS
  <2>2. PICK j \in T : \A x \in T : j <= x
    <3> HIDE DEF T
    <3> QED BY <1>3, <2>1, NatMin
  <2>3. j \in (i + 1)..k /\ j - 1 \in i..k /\ ~(j <= j - 1)
    BY <1>1, <1>2, <2>2
  <2>4. p[j - 1] = r[j - 1]
    BY <2>2, <2>3
  <2> QED BY <1>1, <1>2, <2>2, <2>3, <2>4 DEF Follows
<1>4. k \in i..k
  OBVIOUS
<1> QED BY <1>1, <1>2, <1>3, <1>4

\* The first event is accepted where the way starts, and the rest goes on.
LEMMA LeadsFirst ==
  ASSUME NEW a, NEW b, NEW w, NEW i \in Nat, NEW k \in Nat, i < k, Leads(a, w, i, k, b)
  PROVE  /\ w[i + 1] \in Stream!Accepts(a)
         /\ Leads(Stream!After(a, w[i + 1]), w, i + 1, k, b)
<1>1. i <= i + 1 /\ i + 1 <= k /\ i + 1 \in Nat
  OBVIOUS
<1>2. PICK c : Leads(a, w, i, i + 1, c) /\ Leads(c, w, i + 1, k, b)
  BY <1>1, LeadsParts
<1>3. PICK p \in [i..i + 1 -> Seq(Stream!Level)] :
        p[i] = a /\ p[i + 1] = c /\ Follows(p, w, i, i + 1)
  BY <1>2 DEF Leads
<1>4. i + 1 \in (i + 1)..(i + 1) /\ i + 1 - 1 = i
  OBVIOUS
<1>5. w[i + 1] \in Stream!Accepts(a) /\ c = Stream!After(a, w[i + 1])
  BY <1>3, <1>4 DEF Follows
<1> QED BY <1>2, <1>5

-----------------------------------------------------------------------------
(***************************************************************************)
(* Where a function is: what is open beyond the level l, x its node is at. *)
(***************************************************************************)

\* Before its node and after it; in a sequence, or before a key or a value
\* of a mapping; and the same in a mapping of one pair inside a sequence.
Hole == {"BEFORE", "SEQ", "KEY", "VALUE", "PAIR_KEY", "PAIR_VALUE"}
Place == Hole \cup {"DONE"}

Over(l, x, place) ==
  LET past == Append(l, Stream!AfterNode(x))
  IN  CASE place = "BEFORE" -> Append(l, x)
        [] place = "DONE" -> past
        [] place \in {"SEQ", "KEY", "VALUE"} -> Append(past, place)
        [] place = "PAIR_KEY" -> Append(Append(past, "SEQ"), "KEY")
        [] place = "PAIR_VALUE" -> Append(Append(past, "SEQ"), "VALUE")

\* After one more node.
Past(place) ==
  CASE place = "BEFORE" -> "DONE" [] place = "SEQ" -> "SEQ"
    [] place = "KEY" -> "VALUE" [] place = "VALUE" -> "KEY"
    [] place = "PAIR_KEY" -> "PAIR_VALUE" [] place = "PAIR_VALUE" -> "PAIR_KEY"

\* What an event does.
Onward(place, type, to) ==
  \/ place \in Hole /\ type \in Stream!Leaf /\ to = Past(place)
  \/ place = "BEFORE" /\ type = "SEQUENCE_START" /\ to = "SEQ"
  \/ place = "BEFORE" /\ type = "MAPPING_START" /\ to = "KEY"
  \/ place = "SEQ" /\ type = "MAPPING_START" /\ to = "PAIR_KEY"
  \/ place = "SEQ" /\ type = "SEQUENCE_END" /\ to = "DONE"
  \/ place = "KEY" /\ type = "MAPPING_END" /\ to = "DONE"
  \/ place = "PAIR_KEY" /\ type = "MAPPING_END" /\ to = "SEQ"

\* Levels that a node's start advances are levels.
LEMMA Aftermath ==
  ASSUME NEW l \in Seq(Stream!Level), NEW x \in Waiting
  PROVE  /\ x \in Stream!Level /\ Stream!AfterNode(x) \in Stream!Level
         /\ Append(l, x) \in Seq(Stream!Level)
         /\ Append(l, Stream!AfterNode(x)) \in Seq(Stream!Level)
         /\ Stream!AfterNode("SEQ") = "SEQ" /\ Stream!AfterNode("KEY") = "VALUE"
         /\ Stream!AfterNode("VALUE") = "KEY" /\ Stream!AfterNode("DOC") = "DOC_DONE"
         /\ {"SEQ", "KEY", "VALUE"} \subseteq Waiting /\ {"SEQ", "KEY", "VALUE"} \subseteq Stream!Level
<1>1. x \in Stream!Level /\ Stream!AfterNode(x) \in Stream!Level
  BY DEF Waiting, Stream!Level, Stream!AfterNode
<1>2. {"SEQ", "KEY", "VALUE"} \subseteq Waiting /\ {"SEQ", "KEY", "VALUE"} \subseteq Stream!Level
  BY DEF Waiting, Stream!Level
<1>3. /\ Stream!AfterNode("SEQ") = "SEQ" /\ Stream!AfterNode("KEY") = "VALUE"
      /\ Stream!AfterNode("VALUE") = "KEY" /\ Stream!AfterNode("DOC") = "DOC_DONE"
  BY DEF Stream!AfterNode
<1> HIDE DEF Stream!AfterNode
<1> QED BY <1>1, <1>2, <1>3

\* A place before a node has a level of its own, which the node advances.
LEMMA HoleLevel ==
  ASSUME NEW l \in Seq(Stream!Level), NEW x \in Waiting, NEW place \in Hole
  PROVE  \E m \in Seq(Stream!Level), y \in Waiting :
           /\ Over(l, x, place) = Append(m, y)
           /\ Over(l, x, Past(place)) = Append(m, Stream!AfterNode(y))
<1> DEFINE past == Append(l, Stream!AfterNode(x))
           nested == Append(past, "SEQ")
<1>1. /\ past \in Seq(Stream!Level) /\ Stream!AfterNode("SEQ") = "SEQ"
      /\ Stream!AfterNode("KEY") = "VALUE" /\ Stream!AfterNode("VALUE") = "KEY"
      /\ {"SEQ", "KEY", "VALUE"} \subseteq Waiting /\ {"SEQ", "KEY", "VALUE"} \subseteq Stream!Level
  BY Aftermath
<1>2. /\ Over(l, x, "BEFORE") = Append(l, x) /\ Over(l, x, "DONE") = past
      /\ Over(l, x, "SEQ") = Append(past, "SEQ") /\ Over(l, x, "KEY") = Append(past, "KEY")
      /\ Over(l, x, "VALUE") = Append(past, "VALUE")
      /\ Over(l, x, "PAIR_KEY") = Append(nested, "KEY")
      /\ Over(l, x, "PAIR_VALUE") = Append(nested, "VALUE")
  BY DEF Over
<1>3. /\ Past("BEFORE") = "DONE" /\ Past("SEQ") = "SEQ" /\ Past("KEY") = "VALUE"
      /\ Past("VALUE") = "KEY" /\ Past("PAIR_KEY") = "PAIR_VALUE"
      /\ Past("PAIR_VALUE") = "PAIR_KEY"
  BY DEF Past
<1> HIDE DEF past
<1>4. nested \in Seq(Stream!Level)
  BY <1>1
<1> HIDE DEF nested
<1>5. CASE place = "BEFORE"
  BY <1>2, <1>3, <1>5 DEF past
<1>6. CASE place \in {"SEQ", "KEY", "VALUE"}
  BY <1>1, <1>2, <1>3, <1>6
<1>7. CASE place \in {"PAIR_KEY", "PAIR_VALUE"}
  BY <1>1, <1>2, <1>3, <1>4, <1>7
<1> QED BY <1>5, <1>6, <1>7 DEF Hole

\* An event goes on from place to place.
LEMMA OnwardStep ==
  ASSUME NEW l \in Seq(Stream!Level), NEW x \in Waiting, NEW place, NEW type, NEW to,
         Onward(place, type, to)
  PROVE  /\ type \in Stream!Accepts(Over(l, x, place))
         /\ Stream!After(Over(l, x, place), type) = Over(l, x, to)
         /\ Over(l, x, to) \in Seq(Stream!Level)
<1> DEFINE past == Append(l, Stream!AfterNode(x))
           nested == Append(past, "SEQ")
<1>1. /\ past \in Seq(Stream!Level) /\ Stream!AfterNode("SEQ") = "SEQ"
      /\ {"SEQ", "KEY", "VALUE"} \subseteq Waiting /\ {"SEQ", "KEY", "VALUE"} \subseteq Stream!Level
  BY Aftermath
<1>2. /\ Over(l, x, "BEFORE") = Append(l, x) /\ Over(l, x, "DONE") = past
      /\ Over(l, x, "SEQ") = nested /\ Over(l, x, "KEY") = Append(past, "KEY")
      /\ Over(l, x, "PAIR_KEY") = Append(nested, "KEY")
  BY DEF Over
<1>3. nested \in Seq(Stream!Level)
  <2> HIDE DEF past
  <2> QED BY <1>1
<1>4. CASE place \in Hole /\ type \in Stream!Leaf /\ to = Past(place)
  <2>1. PICK m \in Seq(Stream!Level), y \in Waiting :
          Over(l, x, place) = Append(m, y) /\ Over(l, x, to) = Append(m, Stream!AfterNode(y))
    BY <1>4, HoleLevel
  <2>2. /\ type \in Stream!Accepts(Append(m, y))
        /\ Stream!After(Append(m, y), type) = Append(m, Stream!AfterNode(y))
    BY <1>4, NodeStep
  <2>3. Append(m, Stream!AfterNode(y)) \in Seq(Stream!Level)
    BY Aftermath
  <2> QED BY <2>1, <2>2, <2>3
<1>5. CASE place = "BEFORE" /\ type = "SEQUENCE_START" /\ to = "SEQ"
  <2>1. /\ type \in Stream!Accepts(Append(l, x))
        /\ Stream!After(Append(l, x), type) = nested
    BY <1>5, NodeStep
  <2> QED BY <1>2, <1>3, <1>5, <2>1
<1>6. CASE place = "BEFORE" /\ type = "MAPPING_START" /\ to = "KEY"
  <2>1. /\ type \in Stream!Accepts(Append(l, x))
        /\ Stream!After(Append(l, x), type) = Append(past, "KEY")
    BY <1>6, NodeStep
  <2>2. Append(past, "KEY") \in Seq(Stream!Level)
    <3> HIDE DEF past
    <3> QED BY <1>1
  <2> QED BY <1>2, <1>6, <2>1, <2>2
<1>7. CASE place = "SEQ" /\ type = "MAPPING_START" /\ to = "PAIR_KEY"
  <2>1. /\ type \in Stream!Accepts(nested)
        /\ Stream!After(nested, type) = Append(Append(past, Stream!AfterNode("SEQ")), "KEY")
    <3> HIDE DEF past
    <3> QED BY <1>1, <1>7, NodeStep
  <2>2. Append(nested, "KEY") \in Seq(Stream!Level)
    <3> HIDE DEF nested
    <3> QED BY <1>1, <1>3
  <2>3. Append(past, Stream!AfterNode("SEQ")) = nested
    BY <1>1
  <2> QED BY <1>2, <1>7, <2>1, <2>2, <2>3
<1>8. CASE place = "SEQ" /\ type = "SEQUENCE_END" /\ to = "DONE"
  <2>1. type \in Stream!Accepts(nested) /\ Stream!After(nested, type) = past
    <3> HIDE DEF past
    <3> QED BY <1>1, <1>8, EndStep
  <2> QED BY <1>1, <1>2, <1>8, <2>1
<1>9. CASE place = "KEY" /\ type = "MAPPING_END" /\ to = "DONE"
  <2>1. /\ type \in Stream!Accepts(Append(past, "KEY"))
        /\ Stream!After(Append(past, "KEY"), type) = past
    <3> HIDE DEF past
    <3> QED BY <1>1, <1>9, EndStep
  <2> QED BY <1>1, <1>2, <1>9, <2>1
<1>10. CASE place = "PAIR_KEY" /\ type = "MAPPING_END" /\ to = "SEQ"
  <2>1. /\ type \in Stream!Accepts(Append(nested, "KEY"))
        /\ Stream!After(Append(nested, "KEY"), type) = nested
    <3> HIDE DEF nested
    <3> QED BY <1>3, <1>10, EndStep
  <2> QED BY <1>2, <1>3, <1>10, <2>1
<1> QED BY <1>4, <1>5, <1>6, <1>7, <1>8, <1>9, <1>10 DEF Onward

\* A place's levels.
LEMMA OverType ==
  ASSUME NEW l \in Seq(Stream!Level), NEW x \in Waiting, NEW place \in Place
  PROVE  Over(l, x, place) \in Seq(Stream!Level)
<1>1. CASE place \in Hole
  <2>1. PICK m \in Seq(Stream!Level), y \in Waiting : Over(l, x, place) = Append(m, y)
    BY <1>1, HoleLevel
  <2> QED BY <2>1, Aftermath
<1>2. CASE place = "DONE"
  <2>1. Over(l, x, "DONE") = Append(l, Stream!AfterNode(x))
    BY DEF Over
  <2> QED BY <1>2, <2>1, Aftermath
<1> QED BY <1>1, <1>2 DEF Place

-----------------------------------------------------------------------------
(***************************************************************************)
(* What a function writes takes it from before its node to a place,        *)
(* whatever is open around the node.                                       *)
(***************************************************************************)

To(w, i, k, place) ==
  \A l \in Seq(Stream!Level), x \in Waiting : Leads(Append(l, x), w, i, k, Over(l, x, place))

\* Nothing: the node is still to come.
LEMMA ToNowhere ==
  ASSUME NEW w, NEW i \in Nat
  PROVE  To(w, i, i, "BEFORE")
<1> SUFFICES ASSUME NEW l \in Seq(Stream!Level), NEW x \in Waiting
             PROVE  Leads(Append(l, x), w, i, i, Over(l, x, "BEFORE"))
  BY DEF To
<1>1. Append(l, x) \in Seq(Stream!Level) /\ Over(l, x, "BEFORE") = Append(l, x)
  BY Aftermath DEF Over
<1> QED BY <1>1, LeadsNowhere

\* And a node is not there without an event.
LEMMA ToSomewhere ==
  ASSUME NEW w, NEW i \in Nat, To(w, i, i, "DONE")
  PROVE  FALSE
<1>1. "DOC" \in Waiting /\ <<>> \in Seq(Stream!Level)
  BY DEF Waiting
<1>2. Leads(Append(<<>>, "DOC"), w, i, i, Over(<<>>, "DOC", "DONE"))
  BY <1>1 DEF To
<1>3. Over(<<>>, "DOC", "DONE") = Append(<<>>, "DOC_DONE")
  BY DEF Over, Stream!AfterNode
<1>4. i <= i
  OBVIOUS
<1>5. Append(<<>>, "DOC") = Append(<<>>, "DOC_DONE")
  BY <1>2, <1>3, <1>4, LeadsEnds
<1>6. Append(<<>>, "DOC")[1] = "DOC" /\ Append(<<>>, "DOC_DONE")[1] = "DOC_DONE"
  OBVIOUS
<1> QED BY <1>5, <1>6

\* One more event.
LEMMA ToOn ==
  ASSUME NEW w, NEW i \in Nat, NEW k \in Nat, i <= k, NEW place, To(w, i, k, place),
         NEW to, Onward(place, w[k + 1], to)
  PROVE  To(w, i, k + 1, to)
<1> SUFFICES ASSUME NEW l \in Seq(Stream!Level), NEW x \in Waiting
             PROVE  Leads(Append(l, x), w, i, k + 1, Over(l, x, to))
  BY DEF To
<1> DEFINE b == Over(l, x, place)
           type == w[k + 1]
<1>1. Leads(Append(l, x), w, i, k, b)
  BY DEF To
<1>2. /\ type \in Stream!Accepts(b) /\ Stream!After(b, type) = Over(l, x, to)
      /\ Over(l, x, to) \in Seq(Stream!Level)
  BY OnwardStep
<1> HIDE DEF b
<1>3. Leads(Append(l, x), w, i, k + 1, Stream!After(b, type))
  BY <1>1, <1>2, LeadsOn
<1> QED BY <1>2, <1>3

\* A node at the place the function is at.
LEMMA ToThrough ==
  ASSUME NEW w, NEW i \in Nat, NEW k \in Nat, NEW n \in Nat, i <= k, k <= n,
         NEW place \in Hole, To(w, i, k, place)
  PROVE  /\ To(w, k, n, "DONE") => To(w, i, n, Past(place))
         /\ To(w, k, n, "BEFORE") => To(w, i, n, place)
<1>1. ASSUME NEW l \in Seq(Stream!Level), NEW x \in Waiting
      PROVE  /\ To(w, k, n, "DONE") => Leads(Append(l, x), w, i, n, Over(l, x, Past(place)))
             /\ To(w, k, n, "BEFORE") => Leads(Append(l, x), w, i, n, Over(l, x, place))
  <2>1. PICK m \in Seq(Stream!Level), y \in Waiting :
          /\ Over(l, x, place) = Append(m, y)
          /\ Over(l, x, Past(place)) = Append(m, Stream!AfterNode(y))
    BY HoleLevel
  <2>2. /\ Over(m, y, "DONE") = Append(m, Stream!AfterNode(y))
        /\ Over(m, y, "BEFORE") = Append(m, y)
    BY DEF Over
  <2>3. Leads(Append(l, x), w, i, k, Append(m, y))
    BY <2>1 DEF To
  <2>4. To(w, k, n, "DONE") => Leads(Append(m, y), w, k, n, Append(m, Stream!AfterNode(y)))
    BY <2>2 DEF To
  <2>5. To(w, k, n, "BEFORE") => Leads(Append(m, y), w, k, n, Append(m, y))
    BY <2>2 DEF To
  <2>6. To(w, k, n, "DONE") => Leads(Append(l, x), w, i, n, Append(m, Stream!AfterNode(y)))
    BY <2>3, <2>4, LeadsThrough
  <2>7. To(w, k, n, "BEFORE") => Leads(Append(l, x), w, i, n, Append(m, y))
    BY <2>3, <2>5, LeadsThrough
  <2> QED BY <2>1, <2>6, <2>7
<1> QED BY <1>1 DEF To

\* In a word that begins alike, and at other places.
LEMMA ToAlike ==
  ASSUME NEW w, NEW v, NEW i \in Nat, NEW k \in Nat, i <= k, NEW place, To(w, i, k, place),
         \A j \in 1..k : v[j] = w[j]
  PROVE  To(v, i, k, place)
BY LeadsAlike DEF To

\* Wherever they stand in the list.
LEMMA ToMoved ==
  ASSUME NEW w, NEW v, NEW i \in Nat, NEW k \in Nat, NEW d \in Nat, i <= k, NEW place,
         To(w, i, k, place), \A j \in (i + 1)..k : v[j + d] = w[j]
  PROVE  To(v, i + d, k + d, place)
BY LeadsMoved DEF To

\* The start of a mapping inserted before a node makes it a key.
LEMMA ToInserted ==
  ASSUME NEW w, NEW v, NEW i \in Nat, NEW k \in Nat, NEW n \in Nat, i <= k, k <= n,
         NEW place \in {"BEFORE", "SEQ"}, To(w, i, k, place), To(w, k, n, "DONE"),
         \A j \in 1..k : v[j] = w[j], v[k + 1] = "MAPPING_START",
         \A j \in (k + 1)..n : v[j + 1] = w[j]
  PROVE  To(v, i, n + 1, IF place = "BEFORE" THEN "VALUE" ELSE "PAIR_VALUE")
<1> DEFINE to == IF place = "BEFORE" THEN "KEY" ELSE "PAIR_KEY"
<1>1. Onward(place, "MAPPING_START", to) /\ to \in Hole
  BY DEF Onward, Hole
<1>2. Past(to) = IF place = "BEFORE" THEN "VALUE" ELSE "PAIR_VALUE"
  BY DEF Past
<1> HIDE DEF to
<1>3. To(v, i, k, place)
  BY ToAlike
<1>4. To(v, i, k + 1, to)
  BY <1>1, <1>3, ToOn
<1>5. To(v, k + 1, n + 1, "DONE")
  BY ToMoved
<1>6. To(v, i, n + 1, Past(to))
  <2>1. k + 1 \in Nat /\ n + 1 \in Nat /\ i <= k + 1 /\ k + 1 <= n + 1
    OBVIOUS
  <2> QED BY <1>1, <1>4, <1>5, <2>1, ToThrough
<1> QED BY <1>2, <1>6

-----------------------------------------------------------------------------
(***************************************************************************)
(* Where the functions are.  Each wrote its part of the events, one after  *)
(* the other: one that waits up to the node it called another for, and the *)
(* one that runs up to the place it goes on at.                            *)
(***************************************************************************)

Word(q) == Types(q.events)

\* Those that wait for a node, and those that wait for its properties.
NodeWaiters ==
  {"MAP_KEY_DONE", "FLOW_KEY_DONE", "BLOCK_MAP", "BLOCK_SEQ", "FLOW_SEQ_NODE",
   "FLOW_PAIR_VALUE", "FLOW_PAIR_END", "FLOW_VALUE", "FLOW_MAP_NEXT", "INNER_FLOW", "FLOW_OR_KEY"}
PropsWaiters == {"BLOCK_NODE_AT", "FLOW_NODE_AT", "INNER_NODE", "IMPLICIT_KEY", "MAP_KEY_PROPS"}

\* Where one is that waits.
NodeWaits(at) ==
  CASE at \in {"MAP_KEY_DONE", "FLOW_KEY_DONE", "FLOW_VALUE", "IMPLICIT_KEY", "MAP_KEY_PROPS"} -> "KEY"
    [] at \in {"BLOCK_MAP", "FLOW_MAP_NEXT"} -> "VALUE"
    [] at \in {"BLOCK_SEQ", "FLOW_SEQ_NODE"} -> "SEQ"
    [] at = "FLOW_PAIR_VALUE" -> "PAIR_KEY"
    [] at = "FLOW_PAIR_END" -> "PAIR_VALUE"
    [] OTHER -> "BEFORE"

\* Where one is that runs.
Now(at) ==
  CASE at \in {"BLOCK_MAP", "MAP_KEY", "MAP_KEY_PROPS", "IMPLICIT_KEY", "SCALAR_KEY", "ALIAS_KEY",
               "FLOW_MAP", "FLOW_KEY", "FLOW_MAP_NEXT"} -> "KEY"
    [] at \in {"MAP_KEY_DONE", "FLOW_KEY_DONE", "FLOW_VALUE", "FLOW_VALUE_NODE"} -> "VALUE"
    [] at \in {"BLOCK_SEQ", "SEQ_ENTRY", "FLOW_SEQ", "FLOW_SEQ_NODE", "FLOW_SEQ_NEXT"} -> "SEQ"
    [] at \in {"FLOW_PAIR_KEY", "FLOW_PAIR_END"} -> "PAIR_KEY"
    [] at \in {"FLOW_PAIR_VALUE", "FLOW_PAIR_NODE"} -> "PAIR_VALUE"
    [] at \in {"INNER_FLOW", "FLOW_OR_KEY"} -> "DONE"
    [] OTHER -> "BEFORE"

\* The part of one that waits.
Share(f, w, i, k) ==
  /\ f.at \in NodeWaiters \cup PropsWaiters
  /\ To(w, i, k, NodeWaits(f.at))
  /\ f.at \in Inserts => f.index = k + 1

\* And of the one that runs, from i to the end.  One that may still insert
\* the start of a mapping knows where its node begins.
Standing(f, w, i) ==
  IF f.at \in Inserts
  THEN \E k \in Nat : /\ f.index = k + 1 /\ i <= k /\ k <= Len(w)
                      /\ To(w, i, k, NodeWaits(f.at)) /\ To(w, k, Len(w), "DONE")
  ELSE i <= Len(w) /\ To(w, i, Len(w), Now(f.at))

\* Where the parts begin: m[j] is the event before the first of call j, from
\* the document's content on.
Laid(a, calls, w, m) ==
  /\ \A j \in 3..Len(calls) : m[j] \in Nat
  /\ \A i, j \in 3..Len(calls) : i <= j => m[i] <= m[j]
  /\ Leads(a, w, 0, m[3], <<"STREAM", "DOC">>)
  /\ \A j \in 3..(Len(calls) - 1) : Share(calls[j], w, m[j], m[j + 1])

\* A node's properties are read by a function of their own.
Paired(calls) ==
  \A j \in 2..(Len(calls) - 1) : calls[j].at \in PropsWaiters <=> calls[j + 1].at = "PROPS"

\* What the tables say.
LEMMA Tables ==
  /\ \A at \in NodeWaiters : NodeWaits(at) \in Hole /\ Now(at) = Past(NodeWaits(at))
  /\ \A at \in PropsWaiters : NodeWaits(at) \in Hole /\ Now(at) = NodeWaits(at)
  /\ NodeWaiters \cap PropsWaiters = {} /\ Inserts \subseteq NodeWaiters
  /\ "PROPS" \notin NodeWaiters \cup PropsWaiters
  /\ "DOC_DONE" \notin NodeWaiters \cup PropsWaiters
<1>1. ASSUME NEW at \in NodeWaiters PROVE NodeWaits(at) \in Hole /\ Now(at) = Past(NodeWaits(at))
  BY DEF NodeWaiters, NodeWaits, Hole, Now, Past
<1>2. ASSUME NEW at \in PropsWaiters PROVE NodeWaits(at) \in Hole /\ Now(at) = NodeWaits(at)
  BY DEF PropsWaiters, NodeWaits, Hole, Now
<1>3. /\ NodeWaiters \cap PropsWaiters = {} /\ Inserts \subseteq NodeWaiters
      /\ "PROPS" \notin NodeWaiters \cup PropsWaiters
      /\ "DOC_DONE" \notin NodeWaiters \cup PropsWaiters
  BY DEF NodeWaiters, PropsWaiters, Inserts
<1> QED BY <1>1, <1>2, <1>3

\* In a word that begins alike.
LEMMA LaidAlike ==
  ASSUME NEW a, NEW calls, Len(calls) \in Nat, Len(calls) >= 3, NEW w, NEW v, NEW m,
         Laid(a, calls, w, m), \A j \in 1..m[Len(calls)] : v[j] = w[j]
  PROVE  Laid(a, calls, v, m)
<1> DEFINE n == Len(calls)
<1>1. n \in Nat /\ n >= 3 /\ 3 \in 3..n /\ n \in 3..n
  OBVIOUS
<1>2. \A j \in 3..n : m[j] \in Nat /\ m[j] <= m[n]
  BY <1>1 DEF Laid
<1>3. m[n] \in Nat /\ \A j \in 1..m[n] : v[j] = w[j]
  BY <1>1, <1>2
<1>4. \A j \in 3..n : \A e \in 1..m[j] : v[e] = w[e]
  <2> HIDE DEF n
  <2> SUFFICES ASSUME NEW j \in 3..n, NEW e \in 1..m[j] PROVE v[e] = w[e]
    OBVIOUS
  <2>1. e \in 1..m[n]
    BY <1>2, <1>3
  <2> QED BY <1>3, <2>1
<1>5. Leads(a, v, 0, m[3], <<"STREAM", "DOC">>)
  <2>1. Leads(a, w, 0, m[3], <<"STREAM", "DOC">>) /\ m[3] \in Nat /\ 0 <= m[3]
    BY <1>1, <1>2 DEF Laid
  <2>2. \A e \in 1..m[3] : v[e] = w[e]
    BY <1>1, <1>4
  <2> QED BY <2>1, <2>2, LeadsAlike
<1>6. ASSUME NEW j \in 3..(n - 1) PROVE Share(calls[j], v, m[j], m[j + 1])
  <2>1. j \in 3..n /\ j + 1 \in 3..n /\ j <= j + 1
    BY <1>1
  <2>2. Share(calls[j], w, m[j], m[j + 1]) /\ m[j] <= m[j + 1] /\ m[j] \in Nat /\ m[j + 1] \in Nat
    BY <1>2, <2>1 DEF Laid
  <2>3. \A e \in 1..m[j + 1] : v[e] = w[e]
    BY <1>4, <2>1
  <2>4. To(v, m[j], m[j + 1], NodeWaits(calls[j].at))
    BY <2>2, <2>3, ToAlike DEF Share
  <2> QED BY <2>2, <2>4 DEF Share
<1> QED BY <1>5, <1>6 DEF Laid

\* The call that runs does not matter.
LEMMA LaidBehind ==
  ASSUME NEW a, NEW c, NEW d, Len(c) \in Nat, Len(d) = Len(c),
         \A j \in 3..(Len(c) - 1) : d[j] = c[j], NEW w, NEW m, Laid(a, c, w, m)
  PROVE  Laid(a, d, w, m)
BY DEF Laid

\* It waits for another one.
Waiter(a, c, d, n, w, m, k) ==
  /\ n \in Nat /\ n >= 3 /\ Len(c) = n /\ Len(d) = n + 1
  /\ \A j \in 3..(n - 1) : d[j] = c[j]
  /\ Laid(a, c, w, m) /\ k \in Nat /\ m[n] <= k /\ Share(d[n], w, m[n], k)

\* A new function on top begins where the one below it left off.
LEMMA LaidCall ==
  ASSUME NEW a, NEW c, NEW d, NEW n, NEW w, NEW m, NEW k, Waiter(a, c, d, n, w, m, k)
  PROVE  \E l : Laid(a, d, w, l) /\ l[n + 1] = k
<1> USE DEF Waiter
<1> DEFINE l == [j \in 3..(n + 1) |-> IF j = n + 1 THEN k ELSE m[j]]
<1>1. /\ \A j \in 3..n : m[j] \in Nat
      /\ \A i, j \in 3..n : i <= j => m[i] <= m[j]
      /\ Leads(a, w, 0, m[3], <<"STREAM", "DOC">>)
      /\ \A j \in 3..(n - 1) : Share(c[j], w, m[j], m[j + 1])
  BY DEF Laid
<1>2. l[n + 1] = k /\ \A j \in 3..n : l[j] = m[j]
  OBVIOUS
<1> HIDE DEF l
<1>3. \A j \in 3..(n + 1) : j = n + 1 \/ j \in 3..n
  OBVIOUS
<1>4. \A j \in 3..(n + 1) : l[j] \in Nat
  BY <1>1, <1>2, <1>3
<1>5. ASSUME NEW i \in 3..(n + 1), NEW j \in 3..(n + 1), i <= j PROVE l[i] <= l[j]
  <2>1. CASE j = n + 1
    <3>1. n \in 3..n
      OBVIOUS
    <3>2. \A e \in 3..n : m[e] <= m[n] /\ m[e] \in Nat /\ m[n] \in Nat
      BY <1>1, <3>1
    <3>3. \A e \in 3..n : m[e] <= k
      BY <3>2
    <3> QED BY <1>2, <1>3, <2>1, <3>3
  <2>2. CASE j # n + 1
    <3>1. i \in 3..n /\ j \in 3..n
      BY <2>2, <1>5
    <3> QED BY <1>1, <1>2, <1>5, <3>1
  <2> QED BY <2>1, <2>2
<1>6. Leads(a, w, 0, l[3], <<"STREAM", "DOC">>)
  <2>1. 3 \in 3..n
    OBVIOUS
  <2> QED BY <1>1, <1>2, <2>1
<1>7. ASSUME NEW j \in 3..n PROVE Share(d[j], w, l[j], l[j + 1])
  <2>1. CASE j = n
    <3>1. n \in 3..n
      OBVIOUS
    <3> QED BY <1>2, <2>1, <3>1
  <2>2. CASE j # n
    <3>1. j \in 3..(n - 1) /\ j + 1 \in 3..n
      BY <2>2
    <3> QED BY <1>1, <1>2, <3>1
  <2> QED BY <2>1, <2>2
<1>8. n + 1 - 1 = n
  OBVIOUS
<1>9. Laid(a, d, w, l)
  BY <1>4, <1>5, <1>6, <1>7, <1>8 DEF Laid
<1> QED BY <1>2, <1>9

\* It returns to the one before.
LEMMA LaidReturn ==
  ASSUME NEW a, NEW c, NEW d, NEW n \in Nat, n >= 4, Len(c) = n, Len(d) = n - 1,
         \A j \in 1..(n - 1) : d[j] = c[j], NEW w, NEW m, Laid(a, c, w, m)
  PROVE  /\ Laid(a, d, w, m) /\ Share(d[n - 1], w, m[n - 1], m[n])
         /\ m[n - 1] \in Nat /\ m[n] \in Nat /\ m[n - 1] <= m[n]
<1>1. /\ \A j \in 3..n : m[j] \in Nat
      /\ \A i, j \in 3..n : i <= j => m[i] <= m[j]
      /\ Leads(a, w, 0, m[3], <<"STREAM", "DOC">>)
      /\ \A j \in 3..(n - 1) : Share(c[j], w, m[j], m[j + 1])
  BY DEF Laid
<1>2. /\ n - 1 \in 3..(n - 1) /\ n - 1 + 1 = n /\ n - 1 \in 3..n /\ n \in 3..n /\ n - 1 <= n
      /\ n - 1 \in 1..(n - 1)
  OBVIOUS
<1>3. \A j \in 3..(n - 1 - 1) : j \in 3..(n - 1) /\ j \in 1..(n - 1)
  OBVIOUS
<1>4. \A j \in 3..(n - 1) : j \in 3..n
  OBVIOUS
<1>5. Laid(a, d, w, m)
  BY <1>1, <1>3, <1>4 DEF Laid
<1>6. Share(d[n - 1], w, m[n - 1], m[n])
  BY <1>1, <1>2
<1> QED BY <1>1, <1>2, <1>5, <1>6

-----------------------------------------------------------------------------
(***************************************************************************)
(* What the helpers do to the events, in the middle of a step.             *)
(***************************************************************************)

Busy(q) == Steady(q) /\ q.calls # <<>> /\ q.status = "OK" /\ ~q.starved

Outset(q, r) ==
  /\ Busy(r) /\ r.calls = q.calls
  /\ r.doc_open = q.doc_open /\ r.stream_ended = q.stream_ended
  /\ r.stop_status = "NONE" => q.stop_status = "NONE"

\* Nothing, or one more at the end: unless it is past the limit, and the
\* parser is stopped.
Silent(q, r) == Outset(q, r) /\ Word(r) = Word(q)
Says(q, r, type) ==
  Outset(q, r) /\ (r.stop_status = "NONE" => Word(r) = Append(Word(q), type))

\* A word has a type for each event.
LEMMA WordType ==
  ASSUME NEW q, Busy(q)
  PROVE  /\ Word(q) \in Seq(Stream!Event) /\ Len(Word(q)) = Len(q.events) /\ Len(Word(q)) \in Nat
         /\ q \in EagerRecord /\ q.events \in Seq(EagerEvent) /\ AtWork(q, q, Own(Top(q).at))
         /\ Own(Top(q).at) \in Nat /\ q.calls \in Seq(CallFrame)
<1>1. q.events \in Seq(EagerEvent) /\ q \in EagerRecord /\ q.calls \in Seq(CallFrame)
  BY EagerTypes DEF Busy
<1>2. Types(q.events) \in Seq(Stream!Event) /\ Len(Types(q.events)) = Len(q.events)
  BY <1>1, TypesOf
<1>3. AtWork(q, q, Own(Top(q).at))
  BY WorkBegins DEF Busy
<1>4. Own(Top(q).at) \in Nat
  BY DEF Own
<1>5. Len(q.events) \in Nat
  BY <1>1
<1> QED BY <1>1, <1>2, <1>3, <1>4, <1>5 DEF Word

\* Work is still busy.
LEMMA WorkBusy ==
  ASSUME NEW p, NEW q, NEW d, AtWork(p, q, d)
  PROVE  Busy(q) /\ q.calls = p.calls /\ q.doc_open = p.doc_open
         /\ (q.stop_status = "NONE" => p.stop_status = "NONE")
BY DEF AtWork, Busy, SameDoc

\* One after another.
LEMMA SilentThrough ==
  ASSUME NEW p, NEW q, NEW r, Silent(p, q), Silent(q, r)
  PROVE  Silent(p, r)
BY DEF Silent, Outset

\* A helper that says nothing may come before or after one that says something.
LEMMA SilentSays ==
  ASSUME NEW p, NEW q, NEW r, NEW type
  PROVE  /\ Silent(p, q) /\ Says(q, r, type) => Says(p, r, type)
         /\ Says(p, q, type) /\ Silent(q, r) => Says(p, r, type)
BY DEF Silent, Says, Outset

\* The token is gone.
LEMMA ConsumeSilent ==
  ASSUME NEW q, Busy(q)
  PROVE  Silent(q, Consume(q))
<1>1. AtWork(q, q, Own(Top(q).at)) /\ q \in EagerRecord
  BY WordType
<1>2. AtWork(q, Consume(q), Own(Top(q).at))
  BY <1>1, ConsumeWork
<1>3. Consume(q).events = q.events /\ Consume(q).stream_ended = q.stream_ended
  BY <1>1 DEF Consume, EagerRecord
<1> HIDE DEF Consume
<1> QED BY <1>2, <1>3, WorkBusy DEF Silent, Outset, Word

\* The pending properties change.
LEMMA PendingSilent ==
  ASSUME NEW q, Busy(q), NEW props \in Props
  PROVE  Silent(q, WithPending(q, props)) /\ Silent(q, DropProps(q))
<1>1. AtWork(q, q, Own(Top(q).at)) /\ q \in EagerRecord
  BY WordType
<1>2. ASSUME NEW f \in Props PROVE Silent(q, WithPending(q, f))
  <2>1. AtWork(q, WithPending(q, f), Own(Top(q).at))
    BY <1>1, PendingWork
  <2>2. WithPending(q, f).events = q.events /\ WithPending(q, f).stream_ended = q.stream_ended
    BY <1>1 DEF WithPending, EagerRecord
  <2> QED BY <2>1, <2>2, WorkBusy DEF Silent, Outset, Word
<1>3. NoProps \in Props
  BY DEF NoProps, Props, Property
<1> QED BY <1>2, <1>3 DEF DropProps

\* The parser is told to stop.
LEMMA StopOutset ==
  ASSUME NEW q, Busy(q), NEW why \in {"ERR_LIMIT", "ERR_PARSE"},
         why = "ERR_LIMIT" /\ MaxDepth = 0 => OverLimit(q)
  PROVE  /\ Outset(q, StopWith(q, why)) /\ StopWith(q, why).stop_status # "NONE"
         /\ StopWith(q, why).events = q.events
<1>1. AtWork(q, q, Own(Top(q).at)) /\ q \in EagerRecord
  BY WordType
<1>2. AtWork(q, StopWith(q, why), Own(Top(q).at))
  BY <1>1, StopsWork
<1>3. /\ StopWith(q, why).events = q.events /\ StopWith(q, why).stream_ended = q.stream_ended
      /\ StopWith(q, why).stop_status # "NONE"
  BY <1>1 DEF StopWith, EagerRecord
<1> QED BY <1>2, <1>3, WorkBusy DEF Outset

\* The word of one event more.
LEMMA TypesMore ==
  ASSUME NEW events \in Seq(EagerEvent), NEW e \in EagerEvent, NEW type, e.type = type
  PROVE  Types(Append(events, e)) = Append(Types(events), type)
<1> DEFINE n == Len(events)
           t == Types(events)
           s == Append(events, e)
<1>1. /\ s \in Seq(EagerEvent) /\ Len(s) = n + 1 /\ n \in Nat
      /\ \A i \in 1..n : s[i] = events[i]
      /\ s[n + 1] = e
  BY AppendEvents
<1>2. Types(s) = [i \in 1..(n + 1) |-> s[i].type]
  BY <1>1 DEF Types
<1>3. t \in Seq(Stream!Event) /\ Len(t) = n
  BY TypesOf
<1>4. \A i \in 1..n : t[i] = events[i].type
  BY DEF Types
<1> HIDE DEF s, n, t
<1>5. Append(t, type) \in Seq(Stream!Event) /\ Len(Append(t, type)) = n + 1
  <2>1. type \in Stream!Event /\ n \in Nat
    BY <1>1 DEF EagerEvent
  <2> QED BY <1>3, <2>1
<1>6. \A i \in 1..(n + 1) : Append(t, type)[i] = s[i].type
  <2> SUFFICES ASSUME NEW i \in 1..(n + 1) PROVE Append(t, type)[i] = s[i].type
    OBVIOUS
  <2>1. CASE i = n + 1
    BY <1>1, <1>3, <2>1
  <2>2. CASE i # n + 1
    <3>1. i \in 1..n
      BY <1>1, <2>2
    <3> QED BY <1>1, <1>3, <1>4, <3>1
  <2> QED BY <2>1, <2>2
<1>7. Append(t, type) = [i \in 1..(n + 1) |-> Append(t, type)[i]]
  <2> DEFINE u == Append(t, type)
             D == 1..(n + 1)
  <2>1. u \in Seq(Stream!Event) /\ Len(u) = n + 1
    BY <1>5
  <2> HIDE DEF u
  <2>2. u \in [D -> Stream!Event]
    BY <2>1, LenProperties
  <2> HIDE DEF D
  <2>3. u = [i \in D |-> u[i]]
    BY <2>2
  <2> QED BY <2>3 DEF u, D
<1>8. Append(t, type) = [i \in 1..(n + 1) |-> s[i].type]
  <2> DEFINE u == Append(t, type)
             D == 1..(n + 1)
  <2>1. (\A i \in D : u[i] = s[i].type) /\ u = [i \in D |-> u[i]]
    BY <1>6, <1>7
  <2> HIDE DEF u, D
  <2>2. u = [i \in D |-> s[i].type]
    BY <2>1
  <2> QED BY <2>2 DEF u, D
<1>9. Types(s) = Append(t, type)
  <2> DEFINE u == Append(t, type)
  <2>1. Types(s) = [i \in 1..(n + 1) |-> s[i].type] /\ u = [i \in 1..(n + 1) |-> s[i].type]
    BY <1>2, <1>8
  <2> HIDE DEF u
  <2>2. Types(s) = u
    BY <2>1
  <2> QED BY <2>2 DEF u
<1> QED BY <1>9 DEF s, t

\* An event is queued.
LEMMA EnqueueSays ==
  ASSUME NEW q, Busy(q), NEW type \in Stream!Event \ DocTypes, NEW props \in Props
  PROVE  Says(q, Enqueue(q, EventWith(type, props)), type)
<1> DEFINE e == EventWith(type, props)
           s == Append(q.events, e)
           r == Enqueue(q, e)
<1>1. AtWork(q, q, Own(Top(q).at)) /\ q \in EagerRecord /\ q.events \in Seq(EagerEvent)
  BY WordType
<1>2. AtWork(q, r, Own(Top(q).at))
  BY <1>1, EnqueueWork
<1>3. CASE OverLimit(q)
  <2>1. r = StopWith(q, "ERR_LIMIT")
    BY <1>3 DEF Enqueue
  <2>2. Outset(q, StopWith(q, "ERR_LIMIT")) /\ StopWith(q, "ERR_LIMIT").stop_status # "NONE"
    BY <1>3, StopOutset
  <2> HIDE DEF r
  <2>3. Says(q, r, type)
    BY <2>1, <2>2 DEF Says
  <2> QED BY <2>3 DEF r
<1>4. CASE ~OverLimit(q)
  <2>1. r = [q EXCEPT !.events = s]
    BY <1>4 DEF Enqueue
  <2>2. e \in EagerEvent /\ e.type = type
    BY EventType
  <2> HIDE DEF r, e
  <2>3. r.events = s /\ r.stream_ended = q.stream_ended
    BY <1>1, <2>1 DEF EagerRecord
  <2>4. Types(s) = Append(Types(q.events), type)
    BY <1>1, <2>2, TypesMore DEF s
  <2>5. AtWork(q, r, Own(Top(q).at))
    BY <1>2 DEF r, e
  <2> HIDE DEF s
  <2>6. Says(q, r, type)
    BY <2>3, <2>4, <2>5, WorkBusy DEF Says, Outset, Word
  <2> QED BY <2>6 DEF r, e
<1> QED BY <1>3, <1>4

\* enqueue_event, queue_with_props and emit_empty.
LEMMA EnqueuesSay ==
  ASSUME NEW q, Busy(q), NEW type \in Stream!Event \ DocTypes
  PROVE  Says(q, EnqueuePlain(q, type), type) /\ Says(q, EnqueueWithProps(q, type), type)
<1>1. NoProps \in Props /\ Pending(q) \in Props
  BY EagerTypes DEF Busy
<1>2. Silent(q, DropProps(q))
  BY <1>1, PendingSilent
<1>3. Busy(DropProps(q))
  BY <1>2 DEF Silent, Outset
<1>4. Says(DropProps(q), EnqueueWithProps(q, type), type)
  BY <1>1, <1>3, EnqueueSays DEF EnqueueWithProps
<1>5. Says(q, EnqueueWithProps(q, type), type)
  BY <1>2, <1>4, SilentSays
<1>6. Says(q, EnqueuePlain(q, type), type)
  BY <1>1, EnqueueSays DEF EnqueuePlain
<1> QED BY <1>5, <1>6

\* An empty node is a scalar.
LEMMA EmptySays ==
  ASSUME NEW q, Busy(q)
  PROVE  Says(q, EmitEmpty(q), "SCALAR")
<1>1. "SCALAR" \in Stream!Event \ DocTypes
  BY EagerNames
<1> QED BY <1>1, EnqueuesSay DEF EmitEmpty

\* A context opens or closes.
LEMMA PushSilent ==
  ASSUME NEW q, Busy(q), NEW type \in BlockContext \cup FlowContext, NEW indent \in Nat
  PROVE  Silent(q, PushContext(q, type, indent))
<1> DEFINE r == PushContext(q, type, indent)
           c == [type |-> type, indent |-> indent]
<1>1. AtWork(q, q, Own(Top(q).at)) /\ q \in EagerRecord /\ Own(Top(q).at) \in Nat
  BY WordType
<1>2. AtWork(q, r, Own(Top(q).at) + 1)
  BY <1>1, PushWork
<1>3. r.events = q.events /\ r.stream_ended = q.stream_ended
  <2>1. \A why : /\ StopWith(q, why).events = q.events
                 /\ StopWith(q, why).stream_ended = q.stream_ended
    BY <1>1 DEF StopWith, EagerRecord
  <2>2. /\ [q EXCEPT !.contexts = Append(@, c)].events = q.events
        /\ [q EXCEPT !.contexts = Append(@, c)].stream_ended = q.stream_ended
    BY <1>1 DEF EagerRecord
  <2>3. \/ r = StopWith(q, "ERR_PARSE") \/ r = StopWith(q, "ERR_LIMIT")
        \/ r = [q EXCEPT !.contexts = Append(@, c)]
    BY DEF PushContext
  <2> HIDE DEF r, c
  <2> QED BY <2>1, <2>2, <2>3
<1> HIDE DEF r
<1>4. Silent(q, r)
  BY <1>2, <1>3, WorkBusy DEF Silent, Outset, Word
<1> QED BY <1>4 DEF r

\* Closing a context queues nothing.
LEMMA PopSilent ==
  ASSUME NEW q, Busy(q)
  PROVE  Silent(q, PopContext(q))
<1> DEFINE s == Front(q.contexts)
           t == [q EXCEPT !.contexts = s]
<1>1. q \in EagerRecord /\ q.contexts \in Seq(Context)
  BY EagerTypes DEF Busy
<1>2. CASE q.contexts = <<>>
  BY <1>2 DEF PopContext, Silent, Outset
<1>3. CASE q.contexts # <<>>
  <2>1. s \in Seq(Context)
    BY <1>1, <1>3, FrontContexts
  <2> HIDE DEF s
  <2>2. t \in EagerRecord
    BY <1>1, <2>1 DEF EagerRecord
  <2>3. /\ t.calls = q.calls /\ t.events = q.events /\ t.evt_base = q.evt_base
        /\ t.status = q.status /\ t.starved = q.starved /\ t.stop_status = q.stop_status
        /\ t.doc_open = q.doc_open /\ t.stream_ended = q.stream_ended
    BY <1>1 DEF EagerRecord
  <2> HIDE DEF t
  <2>4. Steady(t)
    BY <2>2, <2>3 DEF Busy, Steady, OverLimit
  <2>5. Silent(q, t)
    BY <2>3, <2>4 DEF Silent, Outset, Busy, Word
  <2> QED BY <1>3, <2>5 DEF PopContext, t, s
<1> QED BY <1>2, <1>3

\* The properties of an event queued change.
LEMMA ReplaceSilent ==
  ASSUME NEW q, Busy(q), NEW k, NEW props \in Props
  PROVE  Silent(q, [q EXCEPT !.events[k] = EventWith(@.type, props)])
<1> DEFINE r == [q EXCEPT !.events[k] = EventWith(@.type, props)]
           s == [q.events EXCEPT ![k] = EventWith(@.type, props)]
<1>1. AtWork(q, q, Own(Top(q).at)) /\ q \in EagerRecord /\ q.events \in Seq(EagerEvent)
  BY WordType
<1>2. AtWork(q, r, Own(Top(q).at))
  BY <1>1, ReplaceWork
<1>3. r.events = s /\ r.stream_ended = q.stream_ended
  BY <1>1 DEF EagerRecord
<1>4. Types(s) = Types(q.events)
  <2> DEFINE n == Len(q.events)
  <2>1. n \in Nat /\ DOMAIN q.events = 1..n
    BY <1>1
  <2>2. Len(s) = n
    BY <1>1, ReplaceEvents
  <2>3. \A i \in 1..n : s[i].type = q.events[i].type
    <3> SUFFICES ASSUME NEW i \in 1..n PROVE s[i].type = q.events[i].type
      OBVIOUS
    <3>1. CASE i = k
      <4>1. s[i] = EventWith(q.events[i].type, props)
        BY <2>1, <3>1
      <4> QED BY <4>1 DEF EventWith
    <3>2. CASE i # k
      BY <2>1, <3>2
    <3> QED BY <3>1, <3>2
  <2> HIDE DEF s
  <2> QED BY <2>2, <2>3 DEF Types
<1> HIDE DEF r, s
<1>5. Silent(q, r)
  BY <1>2, <1>3, <1>4, WorkBusy DEF Silent, Outset, Word
<1> QED BY <1>5 DEF r

\* A mapping's start is inserted.
Inserted(q, r, k) ==
  /\ Outset(q, r)
  /\ Len(Word(r)) = Len(Word(q)) + 1
  /\ \A j \in 1..k : Word(r)[j] = Word(q)[j]
  /\ Word(r)[k + 1] = "MAPPING_START"
  /\ \A j \in (k + 1)..Len(Word(q)) : Word(r)[j + 1] = Word(q)[j]

\* The start of a mapping is put in front of what was queued from there on.
LEMMA InsertSays ==
  ASSUME NEW q, Busy(q), ~OverLimit(q), NEW k \in Nat, k <= Len(q.events), NEW props \in Props
  PROVE  Inserted(q, InsertEvent(q, k + 1, EventWith("MAPPING_START", props)), k)
<1> DEFINE e == EventWith("MAPPING_START", props)
           s == InsertAt(q.events, k + 1, e)
           r == InsertEvent(q, k + 1, e)
           n == Len(q.events)
<1>1. /\ AtWork(q, q, Own(Top(q).at)) /\ q \in EagerRecord /\ q.events \in Seq(EagerEvent)
      /\ n \in Nat /\ Len(Word(q)) = n
  BY WordType
<1>2. k + 1 \in 1..(n + 1) /\ k + 1 - 1 = k
  BY <1>1
<1>3. AtWork(q, r, Own(Top(q).at))
  BY <1>1, <1>2, InsertWork
<1>4. e \in EagerEvent /\ e.type = "MAPPING_START"
  BY EventType, EagerNames
<1> HIDE DEF e
<1>5. /\ s \in Seq(EagerEvent) /\ Len(s) = n + 1
      /\ \A i \in 1..k : s[i] = q.events[i]
      /\ s[k + 1] = e
      /\ \A i \in (k + 1 + 1)..(n + 1) : s[i] = q.events[i - 1]
  <2> DEFINE j == k + 1
  <2>1. j \in 1..(Len(q.events) + 1) /\ j - 1 = k
    BY <1>2
  <2> HIDE DEF j, n
  <2>2. /\ InsertAt(q.events, j, e) \in Seq(EagerEvent)
        /\ Len(InsertAt(q.events, j, e)) = Len(q.events) + 1
        /\ \A i \in 1..(j - 1) : InsertAt(q.events, j, e)[i] = q.events[i]
        /\ InsertAt(q.events, j, e)[j] = e
        /\ \A i \in (j + 1)..(Len(q.events) + 1) : InsertAt(q.events, j, e)[i] = q.events[i - 1]
    <3>1. q.events \in Seq(EagerEvent) /\ e \in EagerEvent /\ j \in 1..(Len(q.events) + 1)
      BY <1>1, <1>4, <2>1
    <3> QED BY ONLY <3>1, InsertEvents
  <2> QED BY <2>1, <2>2 DEF j, n
<1>6. r.events = s /\ r.stream_ended = q.stream_ended
  BY <1>1 DEF EagerRecord, InsertEvent
<1>7. Outset(q, r)
  <2> HIDE DEF r
  <2> QED BY <1>3, <1>6, WorkBusy DEF Outset, r, e
<1> HIDE DEF r, s
<1>8. Len(Word(r)) = n + 1 /\ \A i \in 1..(n + 1) : Word(r)[i] = s[i].type
  BY <1>5, <1>6, TypesOf DEF Word, Types
<1>9. \A i \in 1..n : Word(q)[i] = q.events[i].type
  BY <1>1 DEF Word, Types
<1> HIDE DEF n
<1>10. \A j \in 1..k : Word(r)[j] = Word(q)[j]
  <2> SUFFICES ASSUME NEW j \in 1..k PROVE Word(r)[j] = Word(q)[j]
    OBVIOUS
  <2>1. j \in 1..n /\ j \in 1..(n + 1)
    BY <1>1, <1>2
  <2> QED BY <1>5, <1>8, <1>9, <2>1
<1>11. Word(r)[k + 1] = "MAPPING_START"
  BY <1>2, <1>4, <1>5, <1>8
<1>12. \A j \in (k + 1)..n : Word(r)[j + 1] = Word(q)[j]
  <2> SUFFICES ASSUME NEW j \in (k + 1)..n PROVE Word(r)[j + 1] = Word(q)[j]
    OBVIOUS
  <2>1. j \in 1..n /\ j + 1 \in 1..(n + 1) /\ j + 1 \in (k + 1 + 1)..(n + 1) /\ j + 1 - 1 = j
    BY <1>1
  <2>2. s[j + 1] = q.events[j]
    BY <1>5, <2>1
  <2> QED BY <1>8, <1>9, <2>1, <2>2
<1>13. Inserted(q, r, k)
  BY <1>1, <1>7, <1>8, <1>10, <1>11, <1>12 DEF Inserted
<1> QED BY <1>13 DEF r, e

-----------------------------------------------------------------------------
(***************************************************************************)
(* What a function of a node or a collection has written in its step.      *)
(***************************************************************************)

Deep(q) ==
  Busy(q) /\ Len(q.calls) >= 3 /\ Paired(q.calls) /\ q.doc_open /\ ~q.stream_ended

Begins(q, m) == m[Len(q.calls)]

Writes(a, q, place) ==
  /\ Deep(q)
  /\ q.stop_status = "NONE" =>
       \E m : /\ Laid(a, q.calls, Word(q), m) /\ Begins(q, m) <= Len(Word(q))
              /\ To(Word(q), Begins(q, m), Len(Word(q)), place)

\* Up to event k, and since then.
Splits(a, q, place, k, then) ==
  /\ Deep(q)
  /\ q.stop_status = "NONE" =>
       \E m : /\ Laid(a, q.calls, Word(q), m) /\ Begins(q, m) <= k /\ k <= Len(Word(q))
              /\ To(Word(q), Begins(q, m), k, place)
              /\ To(Word(q), k, Len(Word(q)), then)

\* Where a running function's part begins is the number of an event.
LEMMA BeginsType ==
  ASSUME NEW a, NEW q, Deep(q), NEW w, NEW m, Laid(a, q.calls, w, m)
  PROVE  /\ Begins(q, m) \in Nat /\ Len(q.calls) \in Nat /\ Len(q.calls) >= 3
         /\ Len(Word(q)) \in Nat
<1>1. Len(q.calls) \in Nat /\ Len(q.calls) >= 3 /\ Len(Word(q)) \in Nat
  BY WordType DEF Deep
<1>2. Len(q.calls) \in 3..Len(q.calls)
  BY <1>1
<1> QED BY <1>1, <1>2 DEF Laid, Begins

\* The helpers keep it where it is,
LEMMA DeepStays ==
  ASSUME NEW q, NEW r, Deep(q), Outset(q, r)
  PROVE  Deep(r)
BY DEF Deep, Outset

\* A helper that queues nothing leaves the function where it was in the grammar,
LEMMA WritesSilent ==
  ASSUME NEW a, NEW q, NEW r, NEW place, Writes(a, q, place), Silent(q, r)
  PROVE  Writes(a, r, place)
BY DeepStays DEF Writes, Silent, Outset, Begins

\* whether or not it may still insert an event.
LEMMA SplitsSilent ==
  ASSUME NEW a, NEW q, NEW r, NEW place, NEW k, NEW then, Splits(a, q, place, k, then), Silent(q, r)
  PROVE  Splits(a, r, place, k, then)
BY DeepStays DEF Splits, Silent, Outset, Begins

\* An event more.
Longer(a, q, r, type, m) ==
  /\ Laid(a, r.calls, Word(r), m) /\ Begins(r, m) = Begins(q, m)
  /\ Len(Word(r)) = Len(Word(q)) + 1 /\ Word(r)[Len(Word(q)) + 1] = type
  /\ \A j \in 1..Len(Word(q)) : Word(r)[j] = Word(q)[j]

\* Events are added at the end, so that those below are laid out as they were.
LEMMA LaidMore ==
  ASSUME NEW a, NEW q, NEW r, NEW type, Deep(q), Says(q, r, type), r.stop_status = "NONE",
         NEW m, Laid(a, q.calls, Word(q), m), Begins(q, m) <= Len(Word(q))
  PROVE  Longer(a, q, r, type, m)
<1> DEFINE w == Word(q)
           v == Word(r)
           n == Len(w)
<1>1. v = Append(w, type) /\ w \in Seq(Stream!Event) /\ n \in Nat /\ r.calls = q.calls
  BY WordType DEF Says, Outset, Deep
<1> HIDE DEF w, v
<1>2. Len(v) = n + 1 /\ v[n + 1] = type /\ \A j \in 1..n : v[j] = w[j]
  BY <1>1
<1>3. Begins(q, m) \in Nat /\ Len(q.calls) \in Nat /\ Len(q.calls) >= 3
  BY BeginsType
<1>4. \A j \in 1..Begins(q, m) : v[j] = w[j]
  <2>1. \A j \in 1..Begins(q, m) : j \in 1..n
    BY <1>1, <1>3 DEF w
  <2> QED BY <1>2, <2>1
<1>5. Laid(a, q.calls, v, m)
  BY <1>3, <1>4, LaidAlike DEF Begins, w
<1> QED BY <1>1, <1>2, <1>5 DEF w, v, Begins, Longer

\* An event that the place accepts leads to the next place,
LEMMA WritesSays ==
  ASSUME NEW a, NEW q, NEW r, NEW place, Writes(a, q, place), NEW type, Says(q, r, type),
         NEW to, Onward(place, type, to)
  PROVE  Writes(a, r, to)
<1>1. Deep(r) /\ Deep(q)
  BY DeepStays DEF Writes, Says
<1>2. ASSUME r.stop_status = "NONE"
      PROVE  \E m : /\ Laid(a, r.calls, Word(r), m) /\ Begins(r, m) <= Len(Word(r))
                    /\ To(Word(r), Begins(r, m), Len(Word(r)), to)
  <2>1. q.stop_status = "NONE"
    BY <1>2 DEF Says, Outset
  <2>2. PICK m : /\ Laid(a, q.calls, Word(q), m) /\ Begins(q, m) <= Len(Word(q))
                 /\ To(Word(q), Begins(q, m), Len(Word(q)), place)
    BY <2>1 DEF Writes
  <2> DEFINE i == Begins(q, m)
             n == Len(Word(q))
             v == Word(r)
  <2>10. Longer(a, q, r, type, m)
    BY <1>1, <1>2, <2>2, LaidMore
  <2>3. /\ Laid(a, r.calls, v, m) /\ Begins(r, m) = i /\ Len(v) = n + 1 /\ v[n + 1] = type
        /\ \A j \in 1..n : v[j] = Word(q)[j]
    BY <2>10 DEF Longer
  <2>4. i \in Nat /\ n \in Nat /\ i <= n
    BY <1>1, <2>2, BeginsType
  <2> HIDE DEF i, n, v
  <2>5. To(v, i, n, place)
    BY <2>2, <2>3, <2>4, ToAlike DEF i, n
  <2>6. To(v, i, n + 1, to)
    BY <2>3, <2>4, <2>5, ToOn
  <2>7. i <= n + 1
    BY <2>4
  <2> QED BY <2>3, <2>6, <2>7 DEF v
<1> QED BY <1>1, <1>2 DEF Writes

\* What follows may insert an event here.
LEMMA SplitsHere ==
  ASSUME NEW a, NEW q, NEW place, Writes(a, q, place)
  PROVE  Splits(a, q, place, Len(q.events), "BEFORE")
<1>1. Len(Word(q)) = Len(q.events) /\ Len(Word(q)) \in Nat
  BY WordType DEF Writes, Deep
<1>2. To(Word(q), Len(Word(q)), Len(Word(q)), "BEFORE") /\ Len(Word(q)) <= Len(Word(q))
  BY <1>1, ToNowhere
<1> QED BY <1>1, <1>2 DEF Writes, Splits

\* also behind the place where an event may still be inserted.
LEMMA SplitsSays ==
  ASSUME NEW a, NEW q, NEW r, NEW place, NEW k \in Nat, NEW then, Splits(a, q, place, k, then),
         NEW type, Says(q, r, type), NEW to, Onward(then, type, to)
  PROVE  Splits(a, r, place, k, to)
<1>1. Deep(r) /\ Deep(q)
  BY DeepStays DEF Splits, Says
<1>2. ASSUME r.stop_status = "NONE"
      PROVE  \E m : /\ Laid(a, r.calls, Word(r), m) /\ Begins(r, m) <= k /\ k <= Len(Word(r))
                    /\ To(Word(r), Begins(r, m), k, place)
                    /\ To(Word(r), k, Len(Word(r)), to)
  <2>1. q.stop_status = "NONE"
    BY <1>2 DEF Says, Outset
  <2>2. PICK m : /\ Laid(a, q.calls, Word(q), m) /\ Begins(q, m) <= k /\ k <= Len(Word(q))
                 /\ To(Word(q), Begins(q, m), k, place)
                 /\ To(Word(q), k, Len(Word(q)), then)
    BY <2>1 DEF Splits
  <2> DEFINE i == Begins(q, m)
             n == Len(Word(q))
             v == Word(r)
  <2>11. i \in Nat /\ n \in Nat
    BY <1>1, <2>2, BeginsType
  <2>4. i <= n /\ i <= k /\ k <= n
    <3>1. i <= k /\ k <= n
      BY <2>2
    <3> HIDE DEF i, n
    <3> QED BY <2>11, <3>1
  <2>10. Longer(a, q, r, type, m)
    BY <1>1, <1>2, <2>2, <2>4, LaidMore
  <2>3. /\ Laid(a, r.calls, v, m) /\ Begins(r, m) = i /\ Len(v) = n + 1 /\ v[n + 1] = type
        /\ \A j \in 1..n : v[j] = Word(q)[j]
    BY <2>10 DEF Longer
  <2> HIDE DEF i, n, v
  <2>5. To(v, k, n, then)
    BY <2>2, <2>3, <2>4, <2>11, ToAlike DEF n
  <2>6. To(v, k, n + 1, to)
    BY <2>3, <2>4, <2>5, <2>11, ToOn
  <2>7. k <= n + 1
    BY <2>4, <2>11
  <2>8. \A j \in 1..k : v[j] = Word(q)[j]
    BY <2>3, <2>4, <2>11
  <2>9. To(v, i, k, place)
    BY <2>2, <2>4, <2>8, <2>11, ToAlike DEF i
  <2> QED BY <2>3, <2>4, <2>6, <2>7, <2>9 DEF v
<1> QED BY <1>1, <1>2 DEF Splits

\* It inserts the start of a mapping.
LEMMA WritesInserted ==
  ASSUME NEW a, NEW q, NEW r, NEW place \in {"BEFORE", "SEQ"}, NEW k \in Nat,
         Splits(a, q, place, k, "DONE"), Inserted(q, r, k)
  PROVE  Writes(a, r, IF place = "BEFORE" THEN "VALUE" ELSE "PAIR_VALUE")
<1> DEFINE to == IF place = "BEFORE" THEN "VALUE" ELSE "PAIR_VALUE"
<1>1. Deep(r) /\ Deep(q)
  BY DeepStays DEF Splits, Inserted
<1>2. ASSUME r.stop_status = "NONE"
      PROVE  \E m : /\ Laid(a, r.calls, Word(r), m) /\ Begins(r, m) <= Len(Word(r))
                    /\ To(Word(r), Begins(r, m), Len(Word(r)), to)
  <2>1. q.stop_status = "NONE" /\ r.calls = q.calls
    BY <1>2 DEF Inserted, Outset
  <2>2. PICK m : /\ Laid(a, q.calls, Word(q), m) /\ Begins(q, m) <= k /\ k <= Len(Word(q))
                 /\ To(Word(q), Begins(q, m), k, place)
                 /\ To(Word(q), k, Len(Word(q)), "DONE")
    BY <2>1 DEF Splits
  <2> DEFINE i == Begins(q, m)
             w == Word(q)
             n == Len(w)
             v == Word(r)
  <2>11. i \in Nat /\ n \in Nat
    BY <1>1, <2>2, BeginsType
  <2>3. i \in Nat /\ n \in Nat /\ i <= n /\ i <= k /\ k <= n
    <3>1. i <= k /\ k <= n
      BY <2>2
    <3> HIDE DEF i, n
    <3> QED BY <2>11, <3>1
  <2>4. /\ Len(v) = n + 1 /\ \A j \in 1..k : v[j] = w[j]
        /\ v[k + 1] = "MAPPING_START" /\ \A j \in (k + 1)..n : v[j + 1] = w[j]
    BY DEF Inserted
  <2>5. Len(q.calls) \in Nat /\ Len(q.calls) >= 3
    BY <1>1, <2>2, BeginsType
  <2>6. \A j \in 1..i : v[j] = w[j]
    <3>1. \A j \in 1..i : j \in 1..k
      BY <2>3
    <3> QED BY <2>4, <3>1
  <2>7. Laid(a, q.calls, v, m)
    BY <2>2, <2>5, <2>6, LaidAlike DEF Begins
  <2> HIDE DEF i, w, v
  <2>8. To(v, i, n + 1, to)
    BY <2>2, <2>3, <2>4, ToInserted DEF i, w
  <2>9. i <= n + 1
    BY <2>3
  <2>10. Begins(r, m) = i
    BY <2>1 DEF Begins, i
  <2> QED BY <2>1, <2>4, <2>7, <2>8, <2>9, <2>10 DEF v
<1> QED BY <1>1, <1>2 DEF Writes

\* A node that is there.
LEMMA SplitsDone ==
  ASSUME NEW a, NEW q, NEW place \in Hole, NEW k \in Nat, Splits(a, q, place, k, "DONE")
  PROVE  Writes(a, q, Past(place))
<1>1. Deep(q)
  BY DEF Splits
<1>2. ASSUME q.stop_status = "NONE"
      PROVE  \E m : /\ Laid(a, q.calls, Word(q), m) /\ Begins(q, m) <= Len(Word(q))
                    /\ To(Word(q), Begins(q, m), Len(Word(q)), Past(place))
  <2>1. PICK m : /\ Laid(a, q.calls, Word(q), m) /\ Begins(q, m) <= k /\ k <= Len(Word(q))
                 /\ To(Word(q), Begins(q, m), k, place)
                 /\ To(Word(q), k, Len(Word(q)), "DONE")
    BY <1>2 DEF Splits
  <2> DEFINE i == Begins(q, m)
             n == Len(Word(q))
  <2>11. i \in Nat /\ n \in Nat
    BY <1>1, <2>1, BeginsType
  <2>2. i \in Nat /\ n \in Nat /\ i <= n /\ i <= k /\ k <= n
    <3>1. i <= k /\ k <= n
      BY <2>1
    <3> HIDE DEF i, n
    <3> QED BY <2>11, <3>1
  <2> HIDE DEF i, n
  <2>3. To(Word(q), i, n, Past(place))
    BY <2>1, <2>2, ToThrough DEF i, n
  <2> QED BY <2>1, <2>2, <2>3 DEF i, n
<1> QED BY <1>1, <1>2 DEF Writes

-----------------------------------------------------------------------------
(***************************************************************************)
(* What a step leaves: the events queued lead where the functions are.     *)
(***************************************************************************)

InPlace(a, q) ==
  \E m : /\ Laid(a, q.calls, Word(q), m)
         /\ Standing(Top(q), Word(q), Begins(q, m))

Inside(a, q) ==
  Len(q.calls) >= 3 /\ Paired(q.calls) /\ q.doc_open /\ ~q.stream_ended /\ InPlace(a, q)

\* Outside of a document's content.
Rest(q) ==
  IF At(q, {"DOC_CONTENT"}) THEN <<"STREAM", "DOC">>
  ELSE IF q.stream_ended THEN <<"END">>
  ELSE IF q.doc_open THEN <<"STREAM", "DOC_DONE">>
  ELSE IF q.stream_started THEN <<"STREAM">> ELSE <<"BEGIN">>

Surrounding(a, q) ==
  /\ Len(q.calls) < 3 /\ Leads(a, Word(q), 0, Len(Word(q)), Rest(q))
  /\ q.calls # <<>> => ~q.stream_ended
  /\ At(q, {"DOC_CONTENT"}) => q.doc_open

Going(q) == q.status = "OK" /\ ~q.starved /\ q.stop_status = "NONE"

Told(a, q) == Going(q) => Inside(a, q) \/ Surrounding(a, q)

\* What a function inside has written before its step.
LEMMA InsideWrites ==
  ASSUME NEW a, NEW q, Busy(q), q.stop_status = "NONE", Inside(a, q), Top(q).at \notin Inserts
  PROVE  Writes(a, q, Now(Top(q).at))
BY DEF Inside, InPlace, Standing, Writes, Deep

\* One that may still insert an event has a whole node behind that place.
LEMMA InsideSplits ==
  ASSUME NEW a, NEW q, Busy(q), q.stop_status = "NONE", Inside(a, q), Top(q).at \in Inserts
  PROVE  \E k \in Nat : /\ Top(q).index = k + 1 /\ k <= Len(q.events)
                        /\ Splits(a, q, NodeWaits(Top(q).at), k, "DONE")
<1>1. Len(Word(q)) = Len(q.events)
  BY WordType
<1>2. PICK m : Laid(a, q.calls, Word(q), m) /\ Standing(Top(q), Word(q), Begins(q, m))
  BY DEF Inside, InPlace
<1>3. PICK k \in Nat : /\ Top(q).index = k + 1 /\ Begins(q, m) <= k /\ k <= Len(Word(q))
                       /\ To(Word(q), Begins(q, m), k, NodeWaits(Top(q).at))
                       /\ To(Word(q), k, Len(Word(q)), "DONE")
  BY <1>2 DEF Standing
<1>4. Splits(a, q, NodeWaits(Top(q).at), k, "DONE")
  BY <1>2, <1>3 DEF Inside, Splits, Deep
<1> QED BY <1>1, <1>3, <1>4

\* Only the calls change.
LEMMA Recalled ==
  ASSUME NEW q, Busy(q), NEW calls
  PROVE  LET r == [q EXCEPT !.calls = calls]
         IN  /\ r.calls = calls /\ r.events = q.events /\ r.status = q.status
             /\ r.starved = q.starved /\ r.stop_status = q.stop_status
             /\ r.doc_open = q.doc_open /\ r.stream_ended = q.stream_ended
             /\ r.stream_started = q.stream_started
<1>1. q \in EagerRecord
  BY WordType
<1> QED BY <1>1 DEF EagerRecord

\* Nothing but the stack of calls has changed, and the new one is laid out.
LEMMA ToldCalls ==
  ASSUME NEW a, NEW q, Deep(q), NEW calls, Len(calls) >= 3, Paired(calls),
         q.stop_status = "NONE" =>
           \E m : /\ Laid(a, calls, Word(q), m)
                  /\ Standing(Last(calls), Word(q), m[Len(calls)])
  PROVE  Told(a, [q EXCEPT !.calls = calls])
<1> DEFINE r == [q EXCEPT !.calls = calls]
<1>1. /\ r.calls = calls /\ Word(r) = Word(q) /\ r.stop_status = q.stop_status
      /\ r.doc_open = q.doc_open /\ r.stream_ended = q.stream_ended
  BY Recalled DEF Deep, Word
<1> HIDE DEF r
<1>2. Top(r) = Last(calls) /\ \A m : Begins(r, m) = m[Len(calls)]
  BY <1>1 DEF Top, Begins
<1>3. r.stop_status = "NONE" => InPlace(a, r)
  BY <1>1, <1>2 DEF InPlace
<1>4. Told(a, r)
  BY <1>1, <1>3 DEF Told, Going, Inside, Deep
<1> QED BY <1>4 DEF r

\* One frame, or two, in place of the last.
OneInstead(c, d, f) ==
  /\ Len(d) = Len(c) /\ Last(d) = f /\ d[Len(c)] = f
  /\ \A j \in 1..(Len(c) - 1) : d[j] = c[j]

TwoInstead(c, d, f, g) ==
  /\ Len(d) = Len(c) + 1 /\ Last(d) = g /\ d[Len(c)] = f /\ d[Len(c) + 1] = g
  /\ \A j \in 1..(Len(c) - 1) : d[j] = c[j]

\* The top of the stack replaced.
LEMMA FrontOne ==
  ASSUME NEW c \in Seq(CallFrame), c # <<>>, NEW f
  PROVE  OneInstead(c, Append(Front(c), f), f)
<1> DEFINE S == CallFrame \cup {f}
           b == Front(c)
           n == Len(c)
<1>1. c \in Seq(S)
  OBVIOUS
<1> HIDE DEF S
<1>2. b \in Seq(S) /\ Len(b) = n - 1 /\ n \in Nat /\ \A j \in 1..(n - 1) : b[j] = c[j]
  BY <1>1, FrontLast
<1> HIDE DEF b, n
<1>3. f \in S
  BY DEF S
<1>4. /\ Len(Append(b, f)) = Len(b) + 1 /\ Append(b, f)[Len(b) + 1] = f
      /\ \A j \in 1..Len(b) : Append(b, f)[j] = b[j]
  BY <1>2, <1>3
<1>5. Len(b) + 1 = n
  BY <1>2
<1> DEFINE d == Append(b, f)
<1>6. Len(d) = n /\ d[n] = f /\ \A j \in 1..(n - 1) : d[j] = c[j]
  BY <1>2, <1>4, <1>5
<1> HIDE DEF d
<1>7. Last(d) = f
  BY <1>6 DEF Last
<1> QED BY <1>6, <1>7 DEF b, n, d, OneInstead

\* The top replaced, and one more above it.
LEMMA FrontTwo ==
  ASSUME NEW c \in Seq(CallFrame), c # <<>>, NEW f, NEW g
  PROVE  TwoInstead(c, Front(c) \o <<f, g>>, f, g)
<1> DEFINE S == CallFrame \cup {f, g}
           b == Front(c)
           n == Len(c)
           t == <<f, g>>
           d == b \o t
<1>1. c \in Seq(S)
  OBVIOUS
<1>2. f \in S /\ g \in S
  OBVIOUS
<1> HIDE DEF S
<1>3. b \in Seq(S) /\ Len(b) = n - 1 /\ n \in Nat /\ \A j \in 1..(n - 1) : b[j] = c[j]
  BY <1>1, FrontLast
<1> HIDE DEF b, n
<1>4. Len(b) + 1 = n
  BY <1>3
<1>5. t \in Seq(S) /\ Len(t) = 2 /\ t[1] = f /\ t[2] = g
  BY <1>2
<1> HIDE DEF t
<1>6. /\ Len(d) = Len(b) + Len(t)
      /\ \A j \in 1..(Len(b) + Len(t)) : d[j] = IF j <= Len(b) THEN b[j] ELSE t[j - Len(b)]
  BY <1>3, <1>5, ConcatProperties
<1> HIDE DEF d
<1>8. Len(d) = n + 1 /\ d[n] = f /\ d[n + 1] = g /\ \A j \in 1..(n - 1) : d[j] = c[j]
  <2>1. Len(b) = n - 1 /\ Len(b) \in Nat /\ n \in Nat /\ Len(b) + Len(t) = n + 1
    BY <1>3, <1>4, <1>5
  <2>2. /\ n \in 1..(n + 1) /\ ~(n <= n - 1) /\ n - (n - 1) = 1
        /\ n + 1 \in 1..(n + 1) /\ ~(n + 1 <= n - 1) /\ n + 1 - (n - 1) = 2
        /\ \A j \in 1..(n - 1) : j \in 1..(n + 1) /\ j <= n - 1
    BY <2>1
  <2> QED BY <1>3, <1>5, <1>6, <2>1, <2>2
<1>7. Last(d) = g
  BY <1>8 DEF Last
<1> QED BY <1>7, <1>8 DEF b, n, d, t, TwoInstead

\* The function goes on elsewhere.
LEMMA BecomesTold ==
  ASSUME NEW a, NEW q, NEW place, Writes(a, q, place), NEW f, Now(f.at) = place,
         f.at \notin Inserts, f.at # "PROPS", Top(q).at # "PROPS"
  PROVE  Told(a, Become(q, f))
<1> DEFINE c == q.calls
           d == Append(Front(c), f)
           n == Len(c)
<1>1. Deep(q) /\ q \in EagerRecord /\ c \in Seq(CallFrame) /\ c # <<>> /\ n \in Nat /\ n >= 3
  BY WordType DEF Writes, Deep, Busy
<1>2. Len(d) = n /\ Last(d) = f /\ d[n] = f /\ \A j \in 1..(n - 1) : d[j] = c[j]
  <2> HIDE DEF c
  <2>1. OneInstead(c, d, f)
    BY <1>1, FrontOne
  <2> HIDE DEF d
  <2> QED BY <2>1 DEF OneInstead
<1>3. Paired(c) /\ c[n].at # "PROPS"
  BY <1>1 DEF Deep, Top, Last
<1>4. Become(q, f) = [q EXCEPT !.calls = d]
  BY <1>1 DEF Become
<1> HIDE DEF c, d, n
<1>5. Paired(d)
  <2> SUFFICES ASSUME NEW j \in 2..(n - 1)
               PROVE  d[j].at \in PropsWaiters <=> d[j + 1].at = "PROPS"
    BY <1>2 DEF Paired
  <2>1. d[j] = c[j] /\ (c[j].at \in PropsWaiters <=> c[j + 1].at = "PROPS")
    BY <1>1, <1>2, <1>3 DEF Paired, n
  <2>2. CASE j = n - 1
    BY <1>1, <1>2, <1>3, <2>1, <2>2
  <2>3. CASE j # n - 1
    <3>1. j + 1 \in 1..(n - 1)
      BY <1>1, <2>3
    <3> QED BY <1>2, <2>1, <3>1
  <2> QED BY <2>2, <2>3
<1>6. ASSUME q.stop_status = "NONE"
      PROVE  \E m : Laid(a, d, Word(q), m) /\ Standing(Last(d), Word(q), m[Len(d)])
  <2>1. PICK m : /\ Laid(a, c, Word(q), m) /\ m[n] <= Len(Word(q))
                 /\ To(Word(q), m[n], Len(Word(q)), place)
    BY <1>6 DEF Writes, Begins, c, n
  <2>2. \A j \in 3..(n - 1) : d[j] = c[j]
    BY <1>1, <1>2
  <2>3. Laid(a, d, Word(q), m)
    BY <1>1, <1>2, <2>1, <2>2, LaidBehind DEF n
  <2>4. Standing(f, Word(q), m[n])
    BY <2>1 DEF Standing
  <2> QED BY <1>2, <2>3, <2>4
<1>7. Len(d) >= 3
  BY <1>1, <1>2
<1>8. Told(a, [q EXCEPT !.calls = d])
  BY <1>1, <1>5, <1>6, <1>7, ToldCalls
<1> QED BY <1>4, <1>8

\* A function that goes on at another point where the same may come next.
LEMMA GoesOnTold ==
  ASSUME NEW a, NEW q, NEW place, Writes(a, q, place), NEW at, Now(at) = place,
         at \notin Inserts, at # "PROPS", Top(q).at # "PROPS"
  PROVE  Told(a, GoOn(q, at))
<1> DEFINE f == [Top(q) EXCEPT !.at = at]
<1>1. Top(q) \in CallFrame
  BY Depths DEF Writes, Deep, Busy
<1>2. f.at = at
  BY <1>1 DEF CallFrame
<1> HIDE DEF f
<1>3. Told(a, Become(q, f))
  BY <1>2, BecomesTold
<1> QED BY <1>3 DEF GoOn, f

\* It waits for another one.
LEMMA PairTold ==
  ASSUME NEW a, NEW q, NEW place, NEW k \in Nat, NEW then, Splits(a, q, place, k, then),
         Top(q).at # "PROPS", NEW f, NEW g,
         f.at \in NodeWaiters \cup PropsWaiters, NodeWaits(f.at) = place,
         f.at \in PropsWaiters <=> g.at = "PROPS", f.at \in Inserts => f.index = k + 1,
         g.at \notin Inserts, Now(g.at) = then
  PROVE  Told(a, [q EXCEPT !.calls = Front(@) \o <<f, g>>])
<1> DEFINE c == q.calls
           d == Front(c) \o <<f, g>>
           n == Len(c)
<1>1. Deep(q) /\ q \in EagerRecord /\ c \in Seq(CallFrame) /\ c # <<>> /\ n \in Nat /\ n >= 3
  BY WordType DEF Splits, Deep, Busy
<1>2. /\ Len(d) = n + 1 /\ Last(d) = g /\ d[n] = f /\ d[n + 1] = g
      /\ \A j \in 1..(n - 1) : d[j] = c[j]
  <2> HIDE DEF c
  <2>1. TwoInstead(c, d, f, g)
    BY <1>1, FrontTwo
  <2> HIDE DEF d
  <2> QED BY <2>1 DEF TwoInstead
<1>3. Paired(c) /\ c[n].at # "PROPS"
  BY <1>1 DEF Deep, Top, Last
<1>4. [q EXCEPT !.calls = Front(@) \o <<f, g>>] = [q EXCEPT !.calls = d]
  BY <1>1
<1> HIDE DEF c, d, n
<1>5. Paired(d)
  <2> SUFFICES ASSUME NEW j \in 2..n
               PROVE  d[j].at \in PropsWaiters <=> d[j + 1].at = "PROPS"
    <3>1. Len(d) - 1 = n
      BY <1>1, <1>2
    <3> QED BY <3>1 DEF Paired
  <2>1. CASE j = n
    BY <1>2, <2>1
  <2>2. CASE j = n - 1
    <3>1. d[j] = c[j] /\ (c[j].at \in PropsWaiters <=> c[j + 1].at = "PROPS") /\ j + 1 = n
      BY <1>1, <1>2, <1>3, <2>2 DEF Paired, n
    <3>2. f.at # "PROPS"
      BY Tables
    <3> QED BY <1>2, <1>3, <3>1, <3>2
  <2>3. CASE j # n /\ j # n - 1
    <3>1. j \in 1..(n - 1) /\ j + 1 \in 1..(n - 1) /\ j \in 2..(n - 1)
      BY <1>1, <2>3
    <3>2. c[j].at \in PropsWaiters <=> c[j + 1].at = "PROPS"
      BY <1>3, <3>1 DEF Paired, n
    <3> QED BY <1>2, <3>1, <3>2
  <2> QED BY <2>1, <2>2, <2>3
<1>6. ASSUME q.stop_status = "NONE"
      PROVE  \E m : Laid(a, d, Word(q), m) /\ Standing(Last(d), Word(q), m[Len(d)])
  <2>1. PICK m : /\ Laid(a, c, Word(q), m) /\ m[n] <= k /\ k <= Len(Word(q))
                 /\ To(Word(q), m[n], k, place) /\ To(Word(q), k, Len(Word(q)), then)
    BY <1>6 DEF Splits, Begins, c, n
  <2>2. \A j \in 3..(n - 1) : d[j] = c[j]
    BY <1>1, <1>2
  <2>3. Share(d[n], Word(q), m[n], k)
    BY <1>2, <2>1 DEF Share
  <2>4. PICK l : Laid(a, d, Word(q), l) /\ l[n + 1] = k
    <3> DEFINE w == Word(q)
    <3>3. Len(c) = n
      BY DEF n
    <3>1. Waiter(a, c, d, n, w, m, k)
      BY <1>1, <1>2, <2>1, <2>2, <2>3, <3>3 DEF Waiter
    <3> HIDE DEF w
    <3>2. \E l : Laid(a, d, w, l) /\ l[n + 1] = k
      BY <3>1, LaidCall
    <3> QED BY <3>2 DEF w
  <2>5. Standing(g, Word(q), l[n + 1])
    BY <2>1, <2>4 DEF Standing
  <2> QED BY <1>2, <2>4, <2>5
<1>7. Len(d) >= 3
  BY <1>1, <1>2
<1>8. Told(a, [q EXCEPT !.calls = d])
  BY <1>1, <1>5, <1>6, <1>7, ToldCalls
<1> QED BY <1>4, <1>8

\* One that has written this far calls another at once.
LEMMA CallsTold ==
  ASSUME NEW a, NEW q, NEW place, Writes(a, q, place), Top(q).at # "PROPS",
         NEW callee \in {"PROPS", "BLOCK_NODE", "FLOW_NODE"}, NEW f,
         f.at \in NodeWaiters \cup PropsWaiters, NodeWaits(f.at) = place,
         f.at \in PropsWaiters <=> callee = "PROPS", f.at \in Inserts => f.index = Len(q.events) + 1
  PROVE  Told(a, CallThen(q, callee, f))
<1> DEFINE k == Len(q.events)
           g == NewFrame(callee)
<1>1. Splits(a, q, place, k, "BEFORE")
  BY SplitsHere
<1>2. k \in Nat
  BY WordType DEF Writes, Deep
<1>3. g.at = callee
  BY DEF NewFrame
<1>4. callee \notin Inserts /\ Now(callee) = "BEFORE"
  BY DEF Inserts, Now
<1> HIDE DEF k, g
<1>5. Told(a, [q EXCEPT !.calls = Front(@) \o <<f, g>>])
  BY <1>1, <1>2, <1>3, <1>4, PairTold DEF k
<1> QED BY <1>5 DEF CallThen, g

\* A function that calls another one for a node, and will not insert an event before it.
LEMMA CallsOnTold ==
  ASSUME NEW a, NEW q, NEW place, Writes(a, q, place), Top(q).at # "PROPS",
         NEW callee \in {"PROPS", "BLOCK_NODE", "FLOW_NODE"},
         NEW at \in (NodeWaiters \cup PropsWaiters) \ Inserts, NodeWaits(at) = place,
         at \in PropsWaiters <=> callee = "PROPS"
  PROVE  Told(a, CallAndGoOn(q, callee, at))
<1> DEFINE f == [Top(q) EXCEPT !.at = at]
<1>1. Top(q) \in CallFrame
  BY Depths DEF Writes, Deep, Busy
<1>2. f.at = at
  BY <1>1 DEF CallFrame
<1> HIDE DEF f
<1>3. Told(a, CallThen(q, callee, f))
  BY <1>2, CallsTold
<1> QED BY <1>3 DEF CallAndGoOn, f

\* The key of a block mapping is there.
LEMMA AfterKeyTold ==
  ASSUME NEW a, NEW q, Writes(a, q, "VALUE"), Top(q).at # "PROPS", NEW indent
  PROVE  Told(a, AfterKey(q, indent))
<1> DEFINE k == Len(q.events)
           f == [NewFrame("BLOCK_MAP") EXCEPT !.indent = indent]
           g == [NewFrame("MAP_VALUE") EXCEPT !.indent = indent]
<1>1. Splits(a, q, "VALUE", k, "BEFORE")
  BY SplitsHere
<1>2. k \in Nat
  BY WordType DEF Writes, Deep
<1>3. f.at = "BLOCK_MAP" /\ g.at = "MAP_VALUE"
  BY DEF NewFrame
<1> HIDE DEF k, f, g
<1>4. /\ f.at \in NodeWaiters \cup PropsWaiters /\ NodeWaits(f.at) = "VALUE"
      /\ ~(f.at \in PropsWaiters) /\ ~(g.at = "PROPS") /\ ~(f.at \in Inserts)
      /\ g.at \notin Inserts /\ Now(g.at) = "BEFORE"
  BY <1>3 DEF NodeWaiters, PropsWaiters, NodeWaits, Inserts, Now
<1>5. Told(a, [q EXCEPT !.calls = Front(@) \o <<f, g>>])
  BY <1>1, <1>2, <1>4, PairTold
<1> QED BY <1>5 DEF AfterKey, f, g

\* The levels of a document.
LEMMA StreamAppend ==
  /\ Append(<<"STREAM">>, "DOC") = <<"STREAM", "DOC">>
  /\ Append(<<"STREAM">>, "DOC_DONE") = <<"STREAM", "DOC_DONE">>
<1>1. ASSUME NEW x \in {"DOC", "DOC_DONE"} PROVE Append(<<"STREAM">>, x) = <<"STREAM", x>>
  <2> DEFINE m == Append(<<"STREAM">>, x)
             d == <<"STREAM", x>>
  <2>1. /\ m \in Seq(Stream!Level) /\ Len(m) = 2 /\ m[1] = "STREAM" /\ m[2] = x
        /\ d \in Seq(Stream!Level) /\ Len(d) = 2 /\ d[1] = "STREAM" /\ d[2] = x
    BY DEF Stream!Level
  <2> HIDE DEF m, d
  <2>2. \A i \in 1..2 : i = 1 \/ i = 2
    OBVIOUS
  <2>3. \A i \in 1..Len(m) : m[i] = d[i]
    BY <2>1, <2>2
  <2>4. m = d
    BY <2>1, <2>3, SeqEqual
  <2> QED BY <2>4 DEF m, d
<1> QED BY <1>1

\* The function returns: its node is there, or the node's properties are.
LEMMA ReturnsTold ==
  ASSUME NEW a, NEW q, NEW place, Writes(a, q, place),
         \/ place = "DONE" /\ Top(q).at # "PROPS"
         \/ place = "BEFORE" /\ Top(q).at = "PROPS"
  PROVE  Told(a, Finished(q))
<1> DEFINE c == q.calls
           d == Front(c)
           n == Len(c)
           w == Word(q)
           r == [q EXCEPT !.calls = d]
<1>1. /\ Deep(q) /\ q \in EagerRecord /\ c \in Seq(CallFrame) /\ c # <<>> /\ n \in Nat /\ n >= 3
      /\ Len(w) \in Nat
  BY WordType DEF Writes, Deep, Busy
<1>2. Len(d) = n - 1 /\ \A j \in 1..(n - 1) : d[j] = c[j]
  BY <1>1, FrontCalls
<1>3. Paired(c) /\ (c[n].at = "PROPS" <=> Top(q).at = "PROPS")
  BY <1>1 DEF Deep, Top, Last
<1>4. Finished(q) = r
  BY <1>1 DEF Finished
<1>5. /\ r.calls = d /\ Word(r) = w /\ r.stop_status = q.stop_status
      /\ r.doc_open = q.doc_open /\ r.stream_ended = q.stream_ended
  BY <1>1, Recalled DEF Deep, Word
<1>6. \A m : Begins(q, m) = m[n]
  BY DEF Begins
<1>7. Len(c) = n /\ \A j \in 1..n : n < 4 /\ j < n /\ j = 2 => c[j].at \in Waits(2)
  BY <1>1 DEF Deep, Busy, Steady, Stack
<1> HIDE DEF c, d, n, w, r
<1>8. CASE n = 3
  <2>1. Len(d) = 2 /\ d[2] = c[2] /\ c[2].at = "DOC_DONE" /\ c[3].at # "PROPS"
    <3>1. 2 \in 1..(n - 1) /\ 2 \in 1..n /\ 2 \in 2..(Len(c) - 1)
      BY <1>7, <1>8
    <3>2. c[2].at = "DOC_DONE"
      BY <1>7, <1>8, <3>1 DEF Waits
    <3>3. c[2].at \in PropsWaiters <=> c[2 + 1].at = "PROPS"
      BY <1>3, <3>1 DEF Paired
    <3> QED BY <1>2, <1>8, <3>1, <3>2, <3>3, Tables
  <2>2. Rest(r) = <<"STREAM", "DOC_DONE">> /\ ~r.stream_ended
    <3>1. Top(r).at = "DOC_DONE"
      BY <1>5, <2>1 DEF Top, Last
    <3> QED BY <1>1, <1>5, <3>1 DEF Rest, At, Deep
  <2>3. ASSUME r.stop_status = "NONE"
        PROVE  Leads(a, w, 0, Len(w), <<"STREAM", "DOC_DONE">>)
    <3>1. PICK m : Laid(a, c, w, m) /\ m[n] <= Len(w) /\ To(w, m[n], Len(w), "DONE")
      BY <1>3, <1>5, <1>6, <1>8, <2>1, <2>3 DEF Writes, c, w
    <3>2. Leads(a, w, 0, m[3], <<"STREAM", "DOC">>) /\ m[3] \in Nat /\ 0 <= m[3]
      <4>1. 3 \in 3..Len(c)
        BY <1>7, <1>8
      <4> QED BY <3>1, <4>1 DEF Laid
    <3>3. Leads(<<"STREAM", "DOC">>, w, m[3], Len(w), <<"STREAM", "DOC_DONE">>)
      <4>1. <<"STREAM">> \in Seq(Stream!Level) /\ "DOC" \in Waiting
        BY DEF Stream!Level, Waiting
      <4>2. Leads(Append(<<"STREAM">>, "DOC"), w, m[3], Len(w), Over(<<"STREAM">>, "DOC", "DONE"))
        BY <1>8, <3>1, <4>1 DEF To
      <4>3. /\ Append(<<"STREAM">>, "DOC") = <<"STREAM", "DOC">>
            /\ Over(<<"STREAM">>, "DOC", "DONE") = <<"STREAM", "DOC_DONE">>
        <5>1. /\ Append(<<"STREAM">>, "DOC") = <<"STREAM", "DOC">>
              /\ Append(<<"STREAM">>, "DOC_DONE") = <<"STREAM", "DOC_DONE">>
          BY StreamAppend
        <5>2. Stream!AfterNode("DOC") = "DOC_DONE"
          BY DEF Stream!AfterNode
        <5>3. Over(<<"STREAM">>, "DOC", "DONE") = Append(<<"STREAM">>, Stream!AfterNode("DOC"))
          BY DEF Over
        <5> QED BY <5>1, <5>2, <5>3
      <4> QED BY <4>2, <4>3
    <3> QED BY <1>1, <1>8, <3>1, <3>2, <3>3, LeadsThrough
  <2>4. Told(a, r)
    <3>1. Len(r.calls) < 3
      BY <1>5, <2>1
    <3>2. r.doc_open
      BY <1>1, <1>5 DEF Deep
    <3> QED BY <1>5, <2>2, <2>3, <3>1, <3>2 DEF Told, Going, Surrounding
  <2> QED BY <1>4, <2>4
<1>9. CASE n # 3
  <2>1. n >= 4 /\ Len(d) >= 3 /\ n - 1 \in Nat /\ n - 1 \in 1..(n - 1) /\ n - 1 \in 2..(Len(c) - 1)
    BY <1>1, <1>2, <1>7, <1>9
  <2>2. Paired(d)
    <3> SUFFICES ASSUME NEW j \in 2..(Len(d) - 1)
                 PROVE  d[j].at \in PropsWaiters <=> d[j + 1].at = "PROPS"
      BY DEF Paired
    <3>1. j \in 2..(Len(c) - 1) /\ j \in 1..(n - 1) /\ j + 1 \in 1..(n - 1)
      BY <1>1, <1>2, <1>7
    <3>2. c[j].at \in PropsWaiters <=> c[j + 1].at = "PROPS"
      BY <1>3, <3>1 DEF Paired
    <3> QED BY <1>2, <3>1, <3>2
  <2>3. d[n - 1].at \in PropsWaiters <=> c[n].at = "PROPS"
    <3>1. c[n - 1].at \in PropsWaiters <=> c[n - 1 + 1].at = "PROPS"
      BY <1>3, <2>1 DEF Paired
    <3>2. n - 1 + 1 = n
      BY <1>1
    <3> QED BY <1>2, <2>1, <3>1, <3>2
  <2>4. ASSUME q.stop_status = "NONE"
        PROVE  \E m : Laid(a, d, w, m) /\ Standing(Last(d), w, m[Len(d)])
    <3>1. PICK m : Laid(a, c, w, m) /\ m[n] <= Len(w) /\ To(w, m[n], Len(w), place)
      BY <1>6, <2>4 DEF Writes, c, w
    <3>2. /\ Laid(a, d, w, m) /\ Share(d[n - 1], w, m[n - 1], m[n])
          /\ m[n - 1] \in Nat /\ m[n] \in Nat /\ m[n - 1] <= m[n]
      BY <1>1, <1>2, <1>7, <2>1, <3>1, LaidReturn
    <3> DEFINE f == d[n - 1]
               i == m[n - 1]
               k == m[n]
    <3>3. Standing(f, w, i)
      <4>1. /\ f.at \in NodeWaiters \cup PropsWaiters /\ To(w, i, k, NodeWaits(f.at))
            /\ f.at \in Inserts => f.index = k + 1
        BY <3>2 DEF Share
      <4>2. i \in Nat /\ k \in Nat /\ i <= k /\ k <= Len(w) /\ To(w, k, Len(w), place)
        BY <3>1, <3>2
      <4>3. f.at \in PropsWaiters <=> c[n].at = "PROPS"
        BY <2>3
      <4> HIDE DEF f, i, k
      <4>4. i <= Len(w)
        BY <1>1, <4>2
      <4>5. NodeWaits(f.at) \in Hole
        BY <4>1, Tables
      <4>6. CASE place = "DONE" /\ c[n].at # "PROPS"
        <5>1. f.at \in NodeWaiters /\ Now(f.at) = Past(NodeWaits(f.at))
          BY <4>1, <4>3, <4>6, Tables
        <5>2. To(w, i, Len(w), Past(NodeWaits(f.at)))
          BY <1>1, <4>1, <4>2, <4>5, <4>6, ToThrough
        <5> QED BY <4>1, <4>2, <4>4, <4>6, <5>1, <5>2 DEF Standing
      <4>7. CASE place = "BEFORE" /\ c[n].at = "PROPS"
        <5>1. f.at \in PropsWaiters /\ Now(f.at) = NodeWaits(f.at) /\ f.at \notin Inserts
          BY <4>3, <4>7, Tables
        <5>2. To(w, i, Len(w), NodeWaits(f.at))
          BY <1>1, <4>1, <4>2, <4>5, <4>7, ToThrough
        <5> QED BY <4>4, <5>1, <5>2 DEF Standing
      <4> QED BY <1>3, <4>6, <4>7
    <3>4. Last(d) = f /\ m[Len(d)] = i
      BY <1>2 DEF Last
    <3> QED BY <3>2, <3>3, <3>4
  <2>5. Told(a, [q EXCEPT !.calls = d])
    BY <1>1, <2>1, <2>2, <2>4, ToldCalls DEF w
  <2> QED BY <1>4, <2>5 DEF r
<1> QED BY <1>8, <1>9

\* A function returns, with its node complete.
LEMMA FinishedTold ==
  ASSUME NEW a, NEW q, Writes(a, q, "DONE"), Top(q).at # "PROPS"
  PROVE  Told(a, Finished(q))
BY ReturnsTold

\* It goes on where it is.
LEMMA StaysTold ==
  ASSUME NEW a, NEW q, Writes(a, q, Now(Top(q).at)), Top(q).at \notin Inserts
  PROVE  Told(a, q)
<1>1. ASSUME q.stop_status = "NONE" PROVE InPlace(a, q)
  <2>1. PICK m : /\ Laid(a, q.calls, Word(q), m) /\ Begins(q, m) <= Len(Word(q))
                 /\ To(Word(q), Begins(q, m), Len(Word(q)), Now(Top(q).at))
    BY <1>1 DEF Writes
  <2>2. Standing(Top(q), Word(q), Begins(q, m))
    BY <2>1 DEF Standing
  <2> QED BY <2>1, <2>2 DEF InPlace
<1> QED BY <1>1 DEF Told, Going, Inside, Writes, Deep

\* An error, or a stop, is told.
LEMMA FailTold ==
  ASSUME NEW a, NEW q, q \in EagerRecord, NEW status, status # "OK"
  PROVE  Told(a, Fail(q, status))
BY DEF Told, Going, Fail, EagerRecord

\* A parse error ends it as well.
LEMMA ErrorTold ==
  ASSUME NEW a, NEW q, q \in EagerRecord
  PROVE  Told(a, EagerError(q))
BY DEF Told, Going, Fail, EagerError, ParseError, EagerRecord

\* So does a limit.
LEMMA StopTold ==
  ASSUME NEW a, NEW q, Busy(q), OverLimit(q)
  PROVE  Told(a, CheckStop(StopWith(q, "ERR_LIMIT")))
<1> DEFINE r == StopWith(q, "ERR_LIMIT")
<1>1. r \in EagerRecord /\ r.stop_status # "NONE"
  BY StopOutset, WordType DEF Outset
<1> HIDE DEF r
<1>2. r.stop_status # "OK"
  BY <1>1 DEF EagerRecord
<1> QED BY <1>1, <1>2, FailTold DEF CheckStop, r

-----------------------------------------------------------------------------
(***************************************************************************)
(* What each function of a node or a collection does in its step.          *)
(***************************************************************************)

\* A function that is not reading a node's properties has written this far.
Puts(a, q, place) == Writes(a, q, place) /\ Top(q).at # "PROPS"

\* What a helper may use of it.
LEMMA PutsType ==
  ASSUME NEW a, NEW q, NEW place, Puts(a, q, place)
  PROVE  /\ Deep(q) /\ Busy(q) /\ q \in EagerRecord /\ Top(q) \in CallFrame /\ Col(q) \in Nat
         /\ Pending(q) \in Props /\ NoProps \in Props /\ Len(q.events) \in Nat
<1>1. Deep(q) /\ Busy(q)
  BY DEF Puts, Writes, Deep
<1>2. q \in EagerRecord /\ Len(q.events) \in Nat
  BY <1>1, WordType
<1>3. Top(q) \in CallFrame /\ Col(q) \in Nat /\ Pending(q) \in Props /\ NoProps \in Props
  BY <1>1, Depths, EagerTypes DEF Busy
<1> QED BY <1>1, <1>2, <1>3

\* Helpers that queue nothing,
LEMMA PutsSilent ==
  ASSUME NEW a, NEW q, NEW r, NEW place, Puts(a, q, place), Silent(q, r)
  PROVE  Puts(a, r, place)
BY WritesSilent DEF Puts, Silent, Outset, Top

\* among them those that take a token, close a context or change the pending properties,
LEMMA PutsStill ==
  ASSUME NEW a, NEW q, NEW place, Puts(a, q, place)
  PROVE  /\ Puts(a, Consume(q), place) /\ Puts(a, PopContext(q), place)
         /\ Puts(a, DropProps(q), place)
         /\ \A props \in Props : Puts(a, WithPending(q, props), place)
<1>1. Busy(q) /\ NoProps \in Props
  BY PutsType
<1>2. Silent(q, Consume(q)) /\ Silent(q, PopContext(q)) /\ Silent(q, DropProps(q))
  BY <1>1, ConsumeSilent, PopSilent, PendingSilent
<1>3. \A props \in Props : Silent(q, WithPending(q, props))
  BY <1>1, PendingSilent
<1>4. Puts(a, Consume(q), place) /\ Puts(a, PopContext(q), place) /\ Puts(a, DropProps(q), place)
  BY <1>2, PutsSilent
<1>5. ASSUME NEW props \in Props PROVE Puts(a, WithPending(q, props), place)
  BY <1>3, PutsSilent
<1> QED BY <1>4, <1>5

\* and the one that opens a context.
LEMMA PutsPush ==
  ASSUME NEW a, NEW q, NEW place, Puts(a, q, place),
         NEW type \in BlockContext \cup FlowContext, NEW indent \in Nat
  PROVE  Puts(a, PushContext(q, type, indent), place)
<1>1. Busy(q)
  BY PutsType
<1>2. Silent(q, PushContext(q, type, indent))
  BY <1>1, PushSilent
<1> QED BY <1>2, PutsSilent

\* and one that queues an event.
LEMMA PutsSays ==
  ASSUME NEW a, NEW q, NEW r, NEW place, Puts(a, q, place), NEW type, Says(q, r, type),
         NEW to, Onward(place, type, to)
  PROVE  Puts(a, r, to)
<1>1. Writes(a, r, to)
  BY WritesSays DEF Puts
<1> QED BY <1>1 DEF Puts, Says, Outset, Top

\* Any of the functions that queue an event does.
LEMMA PutsOn ==
  ASSUME NEW a, NEW q, NEW place, Puts(a, q, place), NEW type \in Stream!Event \ DocTypes,
         NEW to, Onward(place, type, to)
  PROVE  /\ Puts(a, EnqueuePlain(q, type), to) /\ Puts(a, EnqueueWithProps(q, type), to)
         /\ \A props \in Props : Puts(a, Enqueue(q, EventWith(type, props)), to)
<1>1. Busy(q)
  BY PutsType
<1>2. /\ Says(q, EnqueuePlain(q, type), type) /\ Says(q, EnqueueWithProps(q, type), type)
      /\ \A props \in Props : Says(q, Enqueue(q, EventWith(type, props)), type)
  BY <1>1, EnqueuesSay, EnqueueSays
<1>3. Puts(a, EnqueuePlain(q, type), to) /\ Puts(a, EnqueueWithProps(q, type), to)
  BY <1>2, PutsSays
<1>4. ASSUME NEW props \in Props PROVE Puts(a, Enqueue(q, EventWith(type, props)), to)
  <2>1. Says(q, Enqueue(q, EventWith(type, props)), type)
    BY <1>2
  <2> QED BY <2>1, PutsSays
<1> QED BY <1>3, <1>4

\* A node that is one event.
LEMMA PutsLeaf ==
  ASSUME NEW a, NEW q, NEW place \in Hole, Puts(a, q, place), NEW type \in {"SCALAR", "ALIAS"}
  PROVE  /\ Puts(a, EnqueuePlain(q, type), Past(place))
         /\ Puts(a, EnqueueWithProps(q, type), Past(place))
         /\ \A props \in Props : Puts(a, Enqueue(q, EventWith(type, props)), Past(place))
<1>1. type \in Stream!Event \ DocTypes
  BY EagerNames
<1>2. Onward(place, type, Past(place))
  BY DEF Onward, Stream!Leaf
<1> QED BY <1>1, <1>2, PutsOn

\* An empty node in the place of a node.
LEMMA PutsEmpty ==
  ASSUME NEW a, NEW q, NEW place \in Hole, Puts(a, q, place)
  PROVE  Puts(a, EmitEmpty(q), Past(place))
<1>1. Puts(a, EnqueueWithProps(q, "SCALAR"), Past(place))
  BY PutsLeaf
<1> QED BY <1>1 DEF EmitEmpty

\* How the step ends.
LEMMA PutsEnd ==
  ASSUME NEW a, NEW q, NEW place, Puts(a, q, place)
  PROVE  /\ Told(a, EagerError(q))
         /\ place = "DONE" => Told(a, Finished(q))
         /\ \A at \in Label \ (Inserts \cup {"PROPS"}) : Now(at) = place => Told(a, GoOn(q, at))
<1>1. Told(a, EagerError(q))
  BY PutsType, ErrorTold
<1>2. place = "DONE" => Told(a, Finished(q))
  BY FinishedTold DEF Puts
<1>3. ASSUME NEW at \in Label \ (Inserts \cup {"PROPS"}), Now(at) = place PROVE Told(a, GoOn(q, at))
  BY <1>3, GoesOnTold DEF Puts
<1> QED BY <1>1, <1>2, <1>3

\* It calls a node's function, or that of its properties.
LEMMA PutsCall ==
  ASSUME NEW a, NEW q, NEW place, Puts(a, q, place)
  PROVE  /\ \A at \in NodeWaiters \ Inserts, callee \in {"BLOCK_NODE", "FLOW_NODE"} :
              NodeWaits(at) = place => Told(a, CallAndGoOn(q, callee, at))
         /\ \A at \in PropsWaiters : NodeWaits(at) = place => Told(a, CallAndGoOn(q, "PROPS", at))
<1>1. ASSUME NEW at \in NodeWaiters \ Inserts, NEW callee \in {"BLOCK_NODE", "FLOW_NODE"},
             NodeWaits(at) = place
      PROVE  Told(a, CallAndGoOn(q, callee, at))
  <2>1. at \in (NodeWaiters \cup PropsWaiters) \ Inserts /\ ~(at \in PropsWaiters)
    BY Tables
  <2> QED BY <1>1, <2>1, CallsOnTold DEF Puts
<1>2. ASSUME NEW at \in PropsWaiters, NodeWaits(at) = place
      PROVE  Told(a, CallAndGoOn(q, "PROPS", at))
  <2>1. at \in (NodeWaiters \cup PropsWaiters) \ Inserts
    BY Tables
  <2> QED BY <1>2, <2>1, CallsOnTold DEF Puts
<1> QED BY <1>1, <1>2

\* Where the functions that run are.
LEMMA Nows ==
  /\ \A at \in {"BLOCK_MAP", "MAP_KEY", "SCALAR_KEY", "ALIAS_KEY", "FLOW_MAP", "FLOW_KEY", "FLOW_MAP_NEXT",
                "IMPLICIT_KEY", "MAP_KEY_PROPS"} :
        Now(at) = "KEY" /\ at \in Label \ (Inserts \cup {"PROPS"})
  /\ \A at \in {"MAP_KEY_DONE", "FLOW_KEY_DONE", "FLOW_VALUE", "FLOW_VALUE_NODE"} :
        Now(at) = "VALUE" /\ at \in Label \ (Inserts \cup {"PROPS"})
  /\ \A at \in {"BLOCK_SEQ", "SEQ_ENTRY", "FLOW_SEQ", "FLOW_SEQ_NEXT"} :
        Now(at) = "SEQ" /\ at \in Label \ (Inserts \cup {"PROPS"})
  /\ \A at \in {"FLOW_PAIR_KEY", "FLOW_PAIR_END"} :
        Now(at) = "PAIR_KEY" /\ at \in Label \ (Inserts \cup {"PROPS"})
  /\ \A at \in {"FLOW_PAIR_VALUE", "FLOW_PAIR_NODE"} :
        Now(at) = "PAIR_VALUE" /\ at \in Label \ (Inserts \cup {"PROPS"})
  /\ \A at \in Outside \ (Inserts \cup {"PROPS"}) :
        Now(at) = "BEFORE" /\ at \in Label \ (Inserts \cup {"PROPS"})
BY DEF Now, Label, Inserts, Outside

\* Where the functions that wait for a node are.
LEMMA Waitings ==
  /\ \A at \in {"MAP_KEY_DONE", "FLOW_KEY_DONE", "FLOW_VALUE"} :
        NodeWaits(at) = "KEY" /\ at \in NodeWaiters \ Inserts
  /\ \A at \in {"BLOCK_MAP", "FLOW_MAP_NEXT"} : NodeWaits(at) = "VALUE" /\ at \in NodeWaiters \ Inserts
  /\ NodeWaits("BLOCK_SEQ") = "SEQ" /\ "BLOCK_SEQ" \in NodeWaiters \ Inserts
  /\ NodeWaits("FLOW_PAIR_VALUE") = "PAIR_KEY" /\ "FLOW_PAIR_VALUE" \in NodeWaiters \ Inserts
  /\ NodeWaits("FLOW_PAIR_END") = "PAIR_VALUE" /\ "FLOW_PAIR_END" \in NodeWaiters \ Inserts
  /\ \A at \in {"IMPLICIT_KEY", "MAP_KEY_PROPS"} : NodeWaits(at) = "KEY" /\ at \in PropsWaiters
  /\ \A at \in {"BLOCK_NODE_AT", "FLOW_NODE_AT", "INNER_NODE"} :
        NodeWaits(at) = "BEFORE" /\ at \in PropsWaiters
  /\ NodeWaits("FLOW_SEQ_NODE") = "SEQ" /\ NodeWaits("INNER_FLOW") = "BEFORE"
  /\ NodeWaits("FLOW_OR_KEY") = "BEFORE" /\ Inserts \subseteq NodeWaiters
BY DEF NodeWaits, NodeWaiters, PropsWaiters, Inserts

\* And where a node takes them.
LEMMA Pasts ==
  /\ Past("BEFORE") = "DONE" /\ Past("SEQ") = "SEQ" /\ Past("KEY") = "VALUE" /\ Past("VALUE") = "KEY"
  /\ Past("PAIR_KEY") = "PAIR_VALUE" /\ Past("PAIR_VALUE") = "PAIR_KEY"
  /\ {"BEFORE", "SEQ", "KEY", "VALUE", "PAIR_KEY", "PAIR_VALUE"} \subseteq Hole
BY DEF Past, Hole

\* Events other than a node's that go on.
LEMMA Onwards ==
  /\ Onward("BEFORE", "SEQUENCE_START", "SEQ") /\ Onward("BEFORE", "MAPPING_START", "KEY")
  /\ Onward("SEQ", "MAPPING_START", "PAIR_KEY") /\ Onward("SEQ", "SEQUENCE_END", "DONE")
  /\ Onward("KEY", "MAPPING_END", "DONE") /\ Onward("PAIR_KEY", "MAPPING_END", "SEQ")
  /\ {"SEQUENCE_START", "SEQUENCE_END", "MAPPING_START", "MAPPING_END"} \subseteq Stream!Event \ DocTypes
BY DEF Onward, Stream!Event, DocTypes

\* A node, or an empty one; a value, or an empty one; and what follows.
LEMMA NodeUnlessTold ==
  ASSUME NEW a, NEW q, NEW place \in Hole, Puts(a, q, place), NEW follow,
         NEW next \in NodeWaiters \ Inserts, NodeWaits(next) = place
  PROVE  Told(a, NodeUnless(q, follow, next))
<1>1. Told(a, CallAndGoOn(q, "FLOW_NODE", next))
  BY PutsCall
<1>2. Puts(a, EmitEmpty(q), Past(place))
  BY PutsEmpty
<1>3. Now(next) = Past(place) /\ next \in Label \ (Inserts \cup {"PROPS"})
  BY Tables DEF NodeWaiters, Label
<1>4. Told(a, GoOn(EmitEmpty(q), next))
  BY <1>2, <1>3, PutsEnd
<1> QED BY <1>1, <1>4 DEF NodeUnless

\* A token that announces a node, or an empty one without it.
LEMMA ValueAtTold ==
  ASSUME NEW a, NEW q, NEW place \in Hole, Puts(a, q, place),
         NEW node \in Label \ (Inserts \cup {"PROPS"}), Now(node) = place,
         NEW next \in Label \ (Inserts \cup {"PROPS"}), Now(next) = Past(place)
  PROVE  Told(a, ValueAt(q, node, next))
<1>1. Told(a, GoOn(Consume(q), node))
  BY PutsStill, PutsEnd
<1>2. Puts(a, EmitEmpty(q), Past(place))
  BY PutsEmpty
<1>3. Told(a, GoOn(EmitEmpty(q), next))
  BY <1>2, PutsEnd
<1> QED BY <1>1, <1>3 DEF ValueAt

\* After an entry of a flow collection comes a comma or the end.
LEMMA EntryEndTold ==
  ASSUME NEW a, NEW q, NEW place, Puts(a, q, place), NEW close,
         NEW loop \in Label \ (Inserts \cup {"PROPS"}), Now(loop) = place
  PROVE  Told(a, EntryEnd(q, close, loop))
<1>1. Puts(a, Consume(q), place)
  BY PutsStill
<1>2. Told(a, GoOn(Consume(q), loop))
  BY <1>1, PutsEnd
<1>3. Told(a, GoOn(q, loop)) /\ Told(a, EagerError(q))
  BY PutsEnd
<1> QED BY <1>2, <1>3 DEF EntryEnd

\* A collection's end.
LEMMA CloseFlowTold ==
  ASSUME NEW a, NEW q, NEW place, Puts(a, q, place), NEW end \in {"SEQUENCE_END", "MAPPING_END"},
         Onward(place, end, "DONE")
  PROVE  Told(a, CloseFlow(q, end))
<1> DEFINE c == Consume(q)
           line == q.current.line
           r == [c EXCEPT !.close_line = line]
<1>1. Puts(a, c, place) /\ Busy(c) /\ c \in EagerRecord /\ q \in EagerRecord
  BY PutsStill, PutsType
<1>2. line \in Nat
  BY <1>1, EagerTypes, PutsType DEF Busy
<1> HIDE DEF c, line
<1>3. r \in EagerRecord /\ Alike(r, c) /\ r.events = c.events /\ r.stream_ended = c.stream_ended
  BY <1>1, <1>2 DEF EagerRecord, Alike
<1> HIDE DEF r
<1>4. AtWork(c, r, Own(Top(c).at))
  BY <1>1, <1>3, WordType, AlikeWork
<1>5. Silent(c, r)
  BY <1>3, <1>4, WorkBusy DEF Silent, Outset, Word
<1>6. Puts(a, r, place)
  BY <1>1, <1>5, PutsSilent
<1>7. Puts(a, EnqueuePlain(r, end), "DONE")
  BY <1>6, Onwards, PutsOn
<1>8. Puts(a, PopContext(EnqueuePlain(r, end)), "DONE")
  BY <1>7, PutsStill
<1>9. Told(a, Finished(PopContext(EnqueuePlain(r, end))))
  BY <1>8, PutsEnd
<1> QED BY <1>9 DEF CloseFlow, r, c, line

\* parse_flow_sequence.
LEMMA FlowSeqTold ==
  ASSUME NEW a, NEW q, Puts(a, q, "SEQ")
  PROVE  Told(a, FlowSeq(q))
<1> DEFINE f == [Top(q) EXCEPT !.at = "FLOW_SEQ_NODE", !.index = Len(q.events) + 1]
           r == EnqueuePlain(q, "MAPPING_START")
<1>1. Told(a, CloseFlow(q, "SEQUENCE_END"))
  BY Onwards, CloseFlowTold
<1>2. Told(a, EagerError(q))
  BY PutsEnd
<1>3. Told(a, GoOn(Consume(r), "FLOW_PAIR_KEY"))
  <2>1. Puts(a, r, "PAIR_KEY")
    BY Onwards, PutsOn
  <2> HIDE DEF r
  <2>2. Puts(a, Consume(r), "PAIR_KEY")
    BY <2>1, PutsStill
  <2> QED BY <2>2, Nows, PutsEnd
<1>4. Told(a, CallThen(q, "FLOW_NODE", f))
  <2>1. Top(q) \in CallFrame
    BY PutsType
  <2>2. f.at = "FLOW_SEQ_NODE" /\ f.index = Len(q.events) + 1
    BY <2>1 DEF CallFrame
  <2> HIDE DEF f
  <2>3. /\ f.at \in NodeWaiters \cup PropsWaiters /\ NodeWaits(f.at) = "SEQ"
        /\ ~(f.at \in PropsWaiters)
    BY <2>2, Waitings, Tables DEF Inserts
  <2> QED BY <2>2, <2>3, CallsTold DEF Puts
<1> QED BY <1>1, <1>2, <1>3, <1>4 DEF FlowSeq

\* After an entry: its mapping starts before it, if it is a pair's key.
LEMMA FlowSeqNodeTold ==
  ASSUME NEW a, NEW q, Busy(q), q.stop_status = "NONE", Inside(a, q), Top(q).at = "FLOW_SEQ_NODE"
  PROVE  Told(a, FlowSeqNode(q))
<1> DEFINE e == EventWith("MAPPING_START", NoProps)
           r == InsertEvent(q, Top(q).index, e)
<1>1. PICK k \in Nat : Top(q).index = k + 1 /\ k <= Len(q.events) /\ Splits(a, q, "SEQ", k, "DONE")
  BY InsideSplits, Waitings DEF Inserts
<1>2. Puts(a, q, "SEQ")
  <2>1. Writes(a, q, Past("SEQ"))
    BY <1>1, Pasts, SplitsDone
  <2> QED BY <2>1, Pasts DEF Puts
<1>3. Told(a, GoOn(q, "FLOW_SEQ_NEXT"))
  BY <1>2, Nows, PutsEnd
<1>4. Len(q.events) >= Top(q).index
  <2>1. PICK m : /\ Laid(a, q.calls, Word(q), m) /\ k <= Len(Word(q))
                 /\ To(Word(q), k, Len(Word(q)), "DONE")
    BY <1>1 DEF Splits
  <2>2. Len(Word(q)) = Len(q.events) /\ Len(q.events) \in Nat
    BY WordType
  <2>3. k # Len(q.events)
    BY <2>1, <2>2, ToSomewhere
  <2> QED BY <1>1, <2>2, <2>3
<1>5. OverLimit(q) => Told(a, CheckStop(StopWith(q, "ERR_LIMIT")))
  BY StopTold
<1>6. ASSUME ~OverLimit(q) PROVE Told(a, GoOn(Consume(r), "FLOW_PAIR_NODE"))
  <2>1. Inserted(q, InsertEvent(q, k + 1, e), k)
    BY <1>1, <1>2, <1>6, PutsType, InsertSays
  <2>2. Inserted(q, r, k)
    BY <1>1, <2>1
  <2> HIDE DEF r, e
  <2>3. Writes(a, r, IF "SEQ" = "BEFORE" THEN "VALUE" ELSE "PAIR_VALUE")
    BY <1>1, <2>2, WritesInserted
  <2>4. Puts(a, r, "PAIR_VALUE")
    BY <2>2, <2>3 DEF Puts, Inserted, Outset, Top
  <2>5. Puts(a, Consume(r), "PAIR_VALUE")
    BY <2>4, PutsStill
  <2> QED BY <2>5, Nows, PutsEnd
<1>7. ~(Len(q.events) < Top(q).index)
  <2>1. Len(q.events) \in Nat
    BY WordType
  <2> QED BY <1>1, <1>4, <2>1
<1> QED BY <1>3, <1>5, <1>6, <1>7 DEF FlowSeqNode

\* In a pair without braces, and after an entry.
LEMMA FlowPairTold ==
  ASSUME NEW a, NEW q
  PROVE  /\ Puts(a, q, "PAIR_KEY") => Told(a, FlowPairKey(q)) /\ Told(a, FlowPairEnd(q))
         /\ Puts(a, q, "PAIR_VALUE") => Told(a, FlowPairValue(q)) /\ Told(a, FlowPairNode(q))
         /\ Puts(a, q, "SEQ") => Told(a, FlowSeqNext(q))
<1>1. ASSUME Puts(a, q, "PAIR_KEY") PROVE Told(a, FlowPairKey(q)) /\ Told(a, FlowPairEnd(q))
  <2>1. Told(a, FlowPairKey(q))
    BY <1>1, Waitings, Pasts, NodeUnlessTold DEF FlowPairKey
  <2>2. Puts(a, EnqueuePlain(q, "MAPPING_END"), "SEQ")
    BY <1>1, Onwards, PutsOn
  <2>3. Told(a, GoOn(EnqueuePlain(q, "MAPPING_END"), "FLOW_SEQ_NEXT"))
    BY <2>2, Nows, PutsEnd
  <2> QED BY <2>1, <2>3 DEF FlowPairEnd
<1>2. ASSUME Puts(a, q, "PAIR_VALUE") PROVE Told(a, FlowPairValue(q)) /\ Told(a, FlowPairNode(q))
  <2>1. Told(a, FlowPairNode(q))
    BY <1>2, Waitings, Pasts, NodeUnlessTold DEF FlowPairNode
  <2>2. /\ Now("FLOW_PAIR_NODE") = "PAIR_VALUE" /\ Now("FLOW_PAIR_END") = Past("PAIR_VALUE")
        /\ "PAIR_VALUE" \in Hole
        /\ "FLOW_PAIR_NODE" \in Label \ (Inserts \cup {"PROPS"})
        /\ "FLOW_PAIR_END" \in Label \ (Inserts \cup {"PROPS"})
    BY Nows, Pasts
  <2>3. Told(a, ValueAt(q, "FLOW_PAIR_NODE", "FLOW_PAIR_END"))
    BY <1>2, <2>2, ValueAtTold
  <2> QED BY <2>1, <2>3 DEF FlowPairValue
<1>3. ASSUME Puts(a, q, "SEQ") PROVE Told(a, FlowSeqNext(q))
  BY <1>3, Nows, EntryEndTold DEF FlowSeqNext
<1> QED BY <1>1, <1>2, <1>3

\* parse_flow_mapping.
LEMMA FlowMapTold ==
  ASSUME NEW a, NEW q
  PROVE  /\ Puts(a, q, "KEY") => Told(a, FlowMap(q)) /\ Told(a, FlowKeyAt(q)) /\ Told(a, FlowMapNext(q))
         /\ Puts(a, q, "VALUE") => Told(a, FlowValue(q)) /\ Told(a, FlowValueNode(q))
<1>1. ASSUME Puts(a, q, "KEY")
      PROVE  Told(a, FlowMap(q)) /\ Told(a, FlowKeyAt(q)) /\ Told(a, FlowMapNext(q))
  <2>1. Told(a, CloseFlow(q, "MAPPING_END"))
    BY <1>1, Onwards, CloseFlowTold
  <2>2. Told(a, EagerError(q))
    BY <1>1, PutsEnd
  <2>3. Puts(a, Consume(q), "KEY")
    BY <1>1, PutsStill
  <2>4. Told(a, GoOn(Consume(q), "FLOW_KEY"))
    BY <2>3, Nows, PutsEnd
  <2>5. Told(a, CallAndGoOn(q, "FLOW_NODE", "FLOW_VALUE"))
    BY <1>1, Waitings, PutsCall
  <2>6. Told(a, FlowKeyAt(q))
    BY <1>1, Waitings, Pasts, NodeUnlessTold DEF FlowKeyAt
  <2>7. Told(a, FlowMapNext(q))
    BY <1>1, Nows, EntryEndTold DEF FlowMapNext
  <2> QED BY <2>1, <2>2, <2>4, <2>5, <2>6, <2>7 DEF FlowMap
<1>2. ASSUME Puts(a, q, "VALUE") PROVE Told(a, FlowValue(q)) /\ Told(a, FlowValueNode(q))
  <2>1. Told(a, FlowValueNode(q))
    BY <1>2, Waitings, Pasts, NodeUnlessTold DEF FlowValueNode
  <2>2. /\ Now("FLOW_VALUE_NODE") = "VALUE" /\ Now("FLOW_MAP_NEXT") = Past("VALUE")
        /\ "VALUE" \in Hole
        /\ "FLOW_VALUE_NODE" \in Label \ (Inserts \cup {"PROPS"})
        /\ "FLOW_MAP_NEXT" \in Label \ (Inserts \cup {"PROPS"})
    BY Nows, Pasts
  <2>3. Told(a, ValueAt(q, "FLOW_VALUE_NODE", "FLOW_MAP_NEXT"))
    BY <1>2, <2>2, ValueAtTold
  <2> QED BY <2>1, <2>3 DEF FlowValue
<1> QED BY <1>1, <1>2

\* A collection starts: its node began with its start.
LEMMA OpenFlowPuts ==
  ASSUME NEW a, NEW q, Puts(a, q, "BEFORE")
  PROVE  /\ Puts(a, OpenFlow(q), Now(FlowLoop(q)))
         /\ Splits(a, OpenFlow(q), "BEFORE", Len(q.events), Now(FlowLoop(q)))
         /\ FlowLoop(q) \in Label \ (Inserts \cup {"PROPS"})
<1> DEFINE c == Consume(q)
           type == Start(Tok(q))
           r == EnqueueWithProps(c, type)
           ctx == IF Tok(q) = "FLOW_SEQ_START" THEN "FLOW_SEQ" ELSE "FLOW_MAP"
           s == PushContext(r, ctx, Col(q))
           to == Now(FlowLoop(q))
<1>1. /\ type \in Stream!Event \ DocTypes /\ Onward("BEFORE", type, to)
      /\ FlowLoop(q) \in Label \ (Inserts \cup {"PROPS"})
  <2>1. CASE Tok(q) = "FLOW_SEQ_START"
    <3>1. type = "SEQUENCE_START" /\ FlowLoop(q) = "FLOW_SEQ"
      BY <2>1 DEF Start, FlowLoop
    <3> QED BY <3>1, Onwards, Nows
  <2>2. CASE Tok(q) # "FLOW_SEQ_START"
    <3>1. type = "MAPPING_START" /\ FlowLoop(q) = "FLOW_MAP"
      BY <2>2 DEF Start, FlowLoop
    <3> QED BY <3>1, Onwards, Nows
  <2> QED BY <2>1, <2>2
<1>2. ctx \in BlockContext \cup FlowContext
  BY DEF FlowContext
<1>3. Busy(q) /\ Col(q) \in Nat /\ Len(q.events) \in Nat
  BY PutsType
<1>4. OpenFlow(q) = s
  BY DEF OpenFlow
<1> HIDE DEF type, ctx, to
<1>5. Silent(q, c) /\ Busy(c)
  BY <1>3, ConsumeSilent DEF Silent, Outset
<1> HIDE DEF c
<1>6. Says(c, r, type) /\ Busy(r)
  BY <1>1, <1>5, EnqueuesSay DEF Says, Outset
<1> HIDE DEF r
<1>7. Silent(r, s)
  BY <1>2, <1>3, <1>6, PushSilent
<1> HIDE DEF s
<1>8. Puts(a, s, to)
  <2>1. Puts(a, c, "BEFORE")
    BY <1>5, PutsSilent
  <2>2. Puts(a, r, to)
    BY <1>1, <1>6, <2>1, PutsSays
  <2> QED BY <1>7, <2>2, PutsSilent
<1>9. Splits(a, s, "BEFORE", Len(q.events), to)
  <2>1. Splits(a, q, "BEFORE", Len(q.events), "BEFORE")
    BY SplitsHere DEF Puts
  <2> DEFINE k == Len(q.events)
  <2>2. k \in Nat /\ Splits(a, q, "BEFORE", k, "BEFORE")
    BY <1>3, <2>1
  <2> HIDE DEF k
  <2>3. Splits(a, c, "BEFORE", k, "BEFORE")
    BY <1>5, <2>2, SplitsSilent
  <2>4. Splits(a, r, "BEFORE", k, to)
    BY <1>1, <1>6, <2>2, <2>3, SplitsSays
  <2>5. Splits(a, s, "BEFORE", k, to)
    BY <1>7, <2>4, SplitsSilent
  <2> QED BY <2>5 DEF k
<1> QED BY <1>1, <1>4, <1>8, <1>9 DEF to

\* parse_flow_node.
LEMMA FlowNodeTold ==
  ASSUME NEW a, NEW q, Puts(a, q, "BEFORE")
  PROVE  /\ Told(a, CallAndGoOn(q, "PROPS", "FLOW_NODE_AT"))
         /\ Told(a, FlowNodeAt(q)) /\ Told(a, FlowScalar(q))
<1> DEFINE f == [NewFrame("FLOW_SCALAR") EXCEPT !.props = Pending(q)]
           p == Consume(DropProps(q))
<1>1. Told(a, CallAndGoOn(q, "PROPS", "FLOW_NODE_AT"))
  BY Waitings, PutsCall
<1>2. Told(a, Finished(Consume(EnqueueWithProps(q, "ALIAS"))))
  <2>1. Puts(a, EnqueueWithProps(q, "ALIAS"), "DONE")
    BY Pasts, PutsLeaf
  <2> QED BY <2>1, PutsStill, PutsEnd
<1>3. Told(a, GoOn(OpenFlow(q), FlowLoop(q)))
  BY OpenFlowPuts, PutsEnd
<1>4. Told(a, Become(p, f))
  <2>1. f.at = "FLOW_SCALAR"
    BY DEF NewFrame
  <2>2. Puts(a, p, "BEFORE")
    BY PutsStill
  <2> HIDE DEF f, p
  <2>3. Now(f.at) = "BEFORE" /\ f.at \notin Inserts /\ f.at # "PROPS"
    BY <2>1, Nows DEF Outside, Inserts
  <2> QED BY <2>2, <2>3, BecomesTold DEF Puts
<1>5. Told(a, Finished(EmitEmpty(q)))
  <2>1. Puts(a, EmitEmpty(q), "DONE")
    BY Pasts, PutsEmpty
  <2> QED BY <2>1, PutsEnd
<1>6. Told(a, FlowScalar(q))
  <2>1. Top(q).props \in Props
    BY PutsType DEF CallFrame
  <2>2. Puts(a, Enqueue(q, EventWith("SCALAR", Top(q).props)), "DONE")
    BY <2>1, Pasts, PutsLeaf
  <2> QED BY <2>2, PutsEnd DEF FlowScalar
<1> QED BY <1>1, <1>2, <1>3, <1>4, <1>5, <1>6 DEF FlowNodeAt

\* A block collection's end, and its next entry.
LEMMA CloseBlockTold ==
  ASSUME NEW a, NEW q, NEW place, Puts(a, q, place), NEW end \in {"SEQUENCE_END", "MAPPING_END"},
         Onward(place, end, "DONE")
  PROVE  Told(a, CloseBlock(q, end))
<1>1. Puts(a, EnqueuePlain(q, end), "DONE")
  BY Onwards, PutsOn
<1>2. Puts(a, PopContext(EnqueuePlain(q, end)), "DONE")
  BY <1>1, PutsStill
<1> QED BY <1>2, PutsEnd DEF CloseBlock

\* The loop over the entries of a block collection begins.
LEMMA BlockLoopTold ==
  ASSUME NEW a, NEW q, NEW place, Puts(a, q, place), NEW loop \in {"BLOCK_MAP", "BLOCK_SEQ"},
         Now(loop) = place, NEW indent
  PROVE  Told(a, BlockLoop(q, loop, indent))
<1> DEFINE f == [NewFrame(loop) EXCEPT !.indent = indent]
<1>1. f.at = loop
  BY DEF NewFrame
<1> HIDE DEF f
<1>2. Now(f.at) = place /\ f.at \notin Inserts /\ f.at # "PROPS"
  BY <1>1, Nows
<1> QED BY <1>2, BecomesTold DEF BlockLoop, f, Puts

\* A key of a block mapping is queued.
LEMMA PutsKey ==
  ASSUME NEW a, NEW q, NEW indent
  PROVE  /\ Puts(a, q, "VALUE") => Told(a, AfterKey(q, indent))
         /\ Puts(a, q, "KEY") => Told(a, AfterKey(EmitEmpty(q), indent))
<1>1. Puts(a, q, "VALUE") => Told(a, AfterKey(q, indent))
  BY AfterKeyTold DEF Puts
<1>2. ASSUME Puts(a, q, "KEY") PROVE Told(a, AfterKey(EmitEmpty(q), indent))
  <2>1. Puts(a, EmitEmpty(q), "VALUE")
    BY <1>2, Pasts, PutsEmpty
  <2> QED BY <2>1, AfterKeyTold DEF Puts
<1> QED BY <1>1, <1>2

\* A value of a block mapping.
LEMMA MapValueTold ==
  ASSUME NEW a, NEW q, Puts(a, q, "BEFORE")
  PROVE  Told(a, MapValue(q)) /\ Told(a, MapValueNode(q))
<1>1. Puts(a, EmitEmpty(q), "DONE")
  BY Pasts, PutsEmpty
<1>2. Told(a, Finished(EmitEmpty(q)))
  BY <1>1, PutsEnd
<1>3. Now("MAP_VALUE_NODE") = "BEFORE" /\ "MAP_VALUE_NODE" \in Label \ (Inserts \cup {"PROPS"})
      /\ Now("BLOCK_NODE") = "BEFORE" /\ "BLOCK_NODE" \in Label \ (Inserts \cup {"PROPS"})
  BY DEF Now, Label, Inserts
<1>4. Puts(a, Consume(q), "BEFORE")
  BY PutsStill
<1>5. Told(a, GoOn(Consume(q), "MAP_VALUE_NODE"))
  BY <1>3, <1>4, PutsEnd
<1>6. Told(a, GoOn(q, "BLOCK_NODE"))
  BY <1>3, PutsEnd
<1> QED BY <1>2, <1>5, <1>6 DEF MapValue, MapValueNode

\* The loop of a mapping, and what follows a '?'.
LEMMA BlockMapTold ==
  ASSUME NEW a, NEW q
  PROVE  /\ Puts(a, q, "KEY") => Told(a, BlockMap(q)) /\ Told(a, MapKey(q)) /\ Told(a, MapKeyProps(q))
         /\ Puts(a, q, "VALUE") => Told(a, MapKeyDone(q))
<1>1. ASSUME Puts(a, q, "KEY")
      PROVE  Told(a, BlockMap(q)) /\ Told(a, MapKey(q)) /\ Told(a, MapKeyProps(q))
  <2>1. Told(a, CloseBlock(q, "MAPPING_END"))
    BY <1>1, Onwards, CloseBlockTold
  <2>2. Puts(a, Consume(q), "KEY")
    BY <1>1, PutsStill
  <2>3. Told(a, GoOn(Consume(q), "MAP_KEY"))
    BY <2>2, Nows, PutsEnd
  <2>4. Told(a, AfterKey(EmitEmpty(q), Indent(q)))
    BY <1>1, PutsKey
  <2>5. Told(a, CallAndGoOn(q, "PROPS", "IMPLICIT_KEY")) /\ Told(a, CallAndGoOn(q, "PROPS", "MAP_KEY_PROPS"))
    BY <1>1, Waitings, PutsCall
  <2>6. Puts(a, EmitEmpty(q), "VALUE")
    BY <1>1, Pasts, PutsEmpty
  <2>7. Told(a, GoOn(EmitEmpty(q), "MAP_KEY_DONE"))
    BY <2>6, Nows, PutsEnd
  <2>8. Told(a, CallAndGoOn(q, "BLOCK_NODE", "MAP_KEY_DONE"))
    BY <1>1, Waitings, PutsCall
  <2>9. Told(a, BlockMap(q))
    BY <2>1, <2>3, <2>4, <2>5 DEF BlockMap
  <2>10. Told(a, MapKey(q)) /\ Told(a, MapKeyProps(q))
    BY <2>5, <2>7, <2>8 DEF MapKey, MapKeyProps
  <2> QED BY <2>9, <2>10
<1>2. ASSUME Puts(a, q, "VALUE") PROVE Told(a, MapKeyDone(q))
  <2>1. Told(a, EagerError(q))
    BY <1>2, PutsEnd
  <2>2. Puts(a, EmitEmpty(q), "KEY")
    BY <1>2, Pasts, PutsEmpty
  <2>3. Told(a, GoOn(EmitEmpty(q), "BLOCK_MAP"))
    BY <2>2, Nows, PutsEnd
  <2>4. Told(a, AfterKey(q, Indent(q)))
    BY <1>2, PutsKey
  <2> QED BY <2>1, <2>3, <2>4 DEF MapKeyDone
<1> QED BY <1>1, <1>2

\* A key at the mapping's column, and its ':'.
LEMMA ImplicitKeyTold ==
  ASSUME NEW a, NEW q, Puts(a, q, "KEY")
  PROVE  Told(a, ImplicitKey(q))
<1>1. Told(a, EagerError(q)) /\ Told(a, CloseBlock(q, "MAPPING_END"))
  BY PutsEnd, Onwards, CloseBlockTold
<1>2. Told(a, AfterKey(EmitEmpty(q), Indent(q)))
  BY PutsKey
<1>3. ASSUME NEW at \in {"SCALAR_KEY", "ALIAS_KEY"} PROVE Told(a, LeafKey(q, at))
  <2> DEFINE f == [Top(q) EXCEPT !.at = at, !.props = Pending(q)]
             p == Consume(DropProps(q))
  <2>1. f.at = at
    BY PutsType DEF CallFrame
  <2>2. Puts(a, p, "KEY")
    BY PutsStill
  <2> HIDE DEF f, p
  <2>3. Now(f.at) = "KEY" /\ f.at \notin Inserts /\ f.at # "PROPS"
    BY <2>1, Nows
  <2>4. Told(a, Become(p, f))
    BY <2>2, <2>3, BecomesTold DEF Puts
  <2> QED BY <2>4 DEF LeafKey, f, p
<1>4. Told(a, CallAndGoOn(q, "FLOW_NODE", "FLOW_KEY_DONE"))
  BY Waitings, PutsCall
<1> QED BY <1>1, <1>2, <1>3, <1>4 DEF ImplicitKey

\* A key has been read, and its ':' is due.
LEMMA KeyColonTold ==
  ASSUME NEW a, NEW q
  PROVE  /\ Puts(a, q, "VALUE") => Told(a, KeyColon(q))
         /\ Puts(a, q, "KEY") => Told(a, LeafKeyColon(q, "SCALAR")) /\ Told(a, LeafKeyColon(q, "ALIAS"))
<1>1. ASSUME NEW p, Puts(a, p, "VALUE") PROVE Told(a, KeyColon(p))
  <2>1. Told(a, AfterKey(p, Indent(p))) /\ Told(a, EagerError(p))
    BY <1>1, PutsKey, PutsEnd
  <2> QED BY <2>1 DEF KeyColon
<1>2. ASSUME Puts(a, q, "KEY"), NEW type \in {"SCALAR", "ALIAS"} PROVE Told(a, LeafKeyColon(q, type))
  <2>1. Top(q).props \in Props
    BY <1>2, PutsType DEF CallFrame
  <2>2. Puts(a, Enqueue(q, EventWith(type, Top(q).props)), "VALUE")
    BY <1>2, <2>1, Pasts, PutsLeaf
  <2>3. Told(a, KeyColon(Enqueue(q, EventWith(type, Top(q).props))))
    BY <1>1, <2>2
  <2>4. Told(a, EagerError(q))
    BY <1>2, PutsEnd
  <2> QED BY <2>3, <2>4 DEF LeafKeyColon
<1> QED BY <1>1, <1>2

\* parse_block_sequence.
LEMMA BlockSeqTold ==
  ASSUME NEW a, NEW q, Puts(a, q, "SEQ")
  PROVE  Told(a, BlockSeq(q)) /\ Told(a, SeqEntry(q))
<1>1. Puts(a, EmitEmpty(q), "SEQ") /\ Puts(a, Consume(q), "SEQ")
  BY Pasts, PutsEmpty, PutsStill
<1>2. Told(a, CloseBlock(q, "SEQUENCE_END")) /\ Told(a, CloseBlock(EmitEmpty(q), "SEQUENCE_END"))
  BY <1>1, Onwards, CloseBlockTold
<1>3. Told(a, GoOn(Consume(q), "SEQ_ENTRY")) /\ Told(a, GoOn(EmitEmpty(q), "BLOCK_SEQ"))
  BY <1>1, Nows, PutsEnd
<1>4. Told(a, CallAndGoOn(q, "BLOCK_NODE", "BLOCK_SEQ"))
  BY Waitings, PutsCall
<1> QED BY <1>2, <1>3, <1>4 DEF BlockSeq, SeqEntry

\* The properties of a node, before it.
LEMMA NodePropsTold ==
  ASSUME NEW a, NEW q, Writes(a, q, "BEFORE"), Top(q).at = "PROPS"
  PROVE  Told(a, NodeProps(q))
<1> DEFINE r == TakeProperty(q)
<1>1. Busy(q) /\ q \in EagerRecord
  BY WordType DEF Writes, Deep
<1>2. Told(a, PropsRead(q))
  <2>1. Told(a, EagerError(q)) /\ Told(a, Finished(q))
    BY <1>1, ErrorTold, ReturnsTold
  <2> QED BY <2>1 DEF PropsRead
<1>3. Told(a, r)
  <2> DEFINE c == Consume(q)
  <2>1. Silent(q, c) /\ Busy(c) /\ c \in EagerRecord
    BY <1>1, ConsumeSilent, WordType DEF Silent, Outset
  <2>2. /\ q.current.line \in Nat /\ q.current.pos \in Nat /\ Col(q) \in Nat
        /\ q.current.pos \in Property
    BY <1>1, EagerTypes DEF Busy, Property
  <2> DEFINE n == IF Tok(q) = "ANCHOR" THEN q.current.pos ELSE c.anchor
             t == IF Tok(q) = "TAG" THEN q.current.pos ELSE c.tag
             l == IF HasProps(q) THEN c.props_line ELSE q.current.line
             k == IF HasProps(q) THEN c.props_col ELSE Col(q)
  <2>3. n \in Property /\ t \in Property /\ l \in Nat /\ k \in Nat
    BY <2>1, <2>2 DEF EagerRecord
  <2>4. r = [c EXCEPT !.anchor = n, !.tag = t, !.props_line = l, !.props_col = k]
    BY <2>1 DEF TakeProperty, EagerRecord
  <2> HIDE DEF n, t, l, k, r, c
  <2>5. r \in EagerRecord /\ Alike(r, c) /\ r.events = c.events /\ r.stream_ended = c.stream_ended
    BY <2>1, <2>3, <2>4 DEF EagerRecord, Alike
  <2>6. AtWork(c, r, Own(Top(c).at))
    BY <2>1, <2>5, WordType, AlikeWork
  <2>7. Silent(c, r)
    BY <2>1, <2>5, <2>6, WorkBusy DEF Silent, Outset, Word
  <2>8. Writes(a, r, "BEFORE") /\ Top(r).at = "PROPS"
    <3>1. Writes(a, c, "BEFORE")
      BY <2>1, WritesSilent
    <3>2. Writes(a, r, "BEFORE")
      BY <2>7, <3>1, WritesSilent
    <3> QED BY <2>1, <2>7, <3>2 DEF Silent, Outset, Top
  <2>9. Now("PROPS") = "BEFORE" /\ "PROPS" \notin Inserts
    BY DEF Now, Inserts
  <2> QED BY <2>8, <2>9, StaysTold
<1>4. Told(a, [q EXCEPT !.starved = TRUE])
  BY <1>1 DEF Told, Going, EagerRecord
<1> QED BY <1>2, <1>3, <1>4 DEF NodeProps

\* A block collection starts.
LEMMA StartMappingPuts ==
  ASSUME NEW a, NEW q, Puts(a, q, "BEFORE"), NEW indent \in Nat
  PROVE  Puts(a, StartMapping(q, indent), "KEY")
<1>1. Puts(a, EnqueueWithProps(q, "MAPPING_START"), "KEY")
  BY Onwards, PutsOn
<1> QED BY <1>1, PutsPush DEF StartMapping, BlockContext

\* And its first key is queued.
LEMMA FirstKeyTold ==
  ASSUME NEW a, NEW q, Puts(a, q, "BEFORE"), NEW indent \in Nat, NEW type \in {"SCALAR", "ALIAS"}
  PROVE  /\ Told(a, AfterKey(EnqueuePlain(StartMapping(q, indent), type), indent))
         /\ \A props \in Props :
              Told(a, AfterKey(Enqueue(StartMapping(q, indent), EventWith(type, props)), indent))
<1> DEFINE s == StartMapping(q, indent)
<1>1. Puts(a, s, "KEY")
  BY StartMappingPuts
<1> HIDE DEF s
<1>2. /\ Puts(a, EnqueuePlain(s, type), "VALUE")
      /\ \A props \in Props : Puts(a, Enqueue(s, EventWith(type, props)), "VALUE")
  BY <1>1, Pasts, PutsLeaf
<1>3. Told(a, AfterKey(EnqueuePlain(s, type), indent))
  BY <1>2, PutsKey
<1>4. ASSUME NEW props \in Props PROVE Told(a, AfterKey(Enqueue(s, EventWith(type, props)), indent))
  BY <1>2, PutsKey
<1> QED BY <1>3, <1>4 DEF s

\* A block sequence in place of the node.
LEMMA SequencePuts ==
  ASSUME NEW a, NEW q, Puts(a, q, "BEFORE")
  PROVE  Puts(a, PushContext(EnqueueWithProps(q, "SEQUENCE_START"), "BLOCK_SEQ", Col(q)), "SEQ")
<1>1. Puts(a, EnqueueWithProps(q, "SEQUENCE_START"), "SEQ")
  BY Onwards, PutsOn
<1>2. Col(q) \in Nat
  BY PutsType
<1> QED BY <1>1, <1>2, PutsPush DEF BlockContext

\* A block sequence begins.
LEMMA StartSequenceTold ==
  ASSUME NEW a, NEW q, Puts(a, q, "BEFORE")
  PROVE  Told(a, StartSequence(q))
<1>1. Puts(a, PushContext(EnqueueWithProps(q, "SEQUENCE_START"), "BLOCK_SEQ", Col(q)), "SEQ")
  BY SequencePuts
<1> QED BY <1>1, Nows, BlockLoopTold DEF StartSequence

\* A node that may be a key.
LEMMA MaybeKeyTold ==
  ASSUME NEW a, NEW q, Puts(a, q, "BEFORE"), NEW p,
         NEW at \in {"INNER_SCALAR", "ALIAS_NODE", "SCALAR_NODE"}, NEW indent, NEW props
  PROVE  /\ Told(a, Become(q, MaybeKey(p, at, indent)))
         /\ Told(a, Become(q, [MaybeKey(p, at, indent) EXCEPT !.props = props]))
<1> DEFINE f == MaybeKey(p, at, indent)
           g == [f EXCEPT !.props = props]
<1>1. f.at = at /\ g.at = at
  BY DEF MaybeKey, NewFrame
<1> HIDE DEF f, g
<1>2. /\ Now(f.at) = "BEFORE" /\ f.at \notin Inserts /\ f.at # "PROPS"
      /\ Now(g.at) = "BEFORE" /\ g.at \notin Inserts /\ g.at # "PROPS"
  BY <1>1 DEF Now, Inserts
<1> QED BY <1>2, BecomesTold DEF Puts, f, g

\* A flow collection that may be a key: its frame knows where it begins.
LEMMA FlowMaybeKeyTold ==
  ASSUME NEW a, NEW q, Puts(a, q, "BEFORE"), NEW f, f.at \in {"INNER_FLOW", "FLOW_OR_KEY"},
         f.index = Len(q.events) + 1
  PROVE  Told(a, CallThen(OpenFlow(q), FlowLoop(q), f))
<1> DEFINE g == NewFrame(FlowLoop(q))
           r == OpenFlow(q)
           k == Len(q.events)
<1>1. /\ Puts(a, r, Now(FlowLoop(q))) /\ Splits(a, r, "BEFORE", k, Now(FlowLoop(q)))
      /\ FlowLoop(q) \in Label \ (Inserts \cup {"PROPS"})
  BY OpenFlowPuts
<1>2. g.at = FlowLoop(q) /\ k \in Nat
  BY PutsType DEF NewFrame
<1> HIDE DEF g, r, k
<1>3. /\ f.at \in NodeWaiters \cup PropsWaiters /\ NodeWaits(f.at) = "BEFORE"
      /\ (f.at \in PropsWaiters <=> g.at = "PROPS") /\ (f.at \in Inserts => f.index = k + 1)
      /\ g.at \notin Inserts /\ Now(g.at) = Now(FlowLoop(q))
  <2>1. f.at \in Inserts
    BY DEF Inserts
  <2> QED BY <1>1, <1>2, <2>1, Waitings, Tables DEF k
<1> DEFINE then == Now(FlowLoop(q))
<1>4. Splits(a, r, "BEFORE", k, then) /\ Now(g.at) = then /\ Top(r).at # "PROPS"
  BY <1>1, <1>3 DEF Puts
<1> HIDE DEF then
<1>5. Told(a, [r EXCEPT !.calls = Front(@) \o <<f, g>>])
  BY <1>2, <1>3, <1>4, PairTold
<1> QED BY <1>5 DEF CallThen, g, r

\* The collection is a key: its mapping starts before it.
LEMMA KeyMappingTold ==
  ASSUME NEW a, NEW q, NEW k \in Nat, Splits(a, q, "BEFORE", k, "DONE"), Top(q).at # "PROPS",
         k <= Len(q.events), NEW indent \in Nat, NEW props \in Props
  PROVE  Told(a, KeyMapping(q, k + 1, indent, props))
<1> DEFINE r == InsertEvent(q, k + 1, EventWith("MAPPING_START", props))
           s == PushContext(r, "BLOCK_MAP", indent)
<1>1. Busy(q)
  BY DEF Splits, Deep
<1>2. OverLimit(q) => Told(a, CheckStop(StopWith(q, "ERR_LIMIT")))
  BY <1>1, StopTold
<1>3. ASSUME ~OverLimit(q) PROVE Told(a, AfterKey(s, indent))
  <2>1. Inserted(q, r, k)
    BY <1>1, <1>3, InsertSays
  <2> HIDE DEF r
  <2>2. Writes(a, r, IF "BEFORE" = "BEFORE" THEN "VALUE" ELSE "PAIR_VALUE")
    BY <2>1, WritesInserted
  <2>3. Puts(a, r, "VALUE")
    BY <2>1, <2>2 DEF Puts, Inserted, Outset, Top
  <2>4. Puts(a, s, "VALUE")
    BY <2>3, PutsPush DEF BlockContext
  <2> QED BY <2>4, PutsKey
<1> QED BY <1>2, <1>3 DEF KeyMapping

\* The fields of a frame that may be a key's.
LEMMA MaybeKeyFields ==
  ASSUME NEW q, NEW at, NEW indent, NEW outer, NEW props
  PROVE  LET f == [MaybeKey(q, at, indent) EXCEPT !.outer = outer]
             g == [MaybeKey(q, at, indent) EXCEPT !.outer = outer, !.props = props]
         IN  /\ f.at = at /\ f.index = Len(q.events) + 1
             /\ g.at = at /\ g.index = Len(q.events) + 1
BY DEF MaybeKey, NewFrame

\* parse_block_node, at a second set of properties.
LEMMA InnerNodeTold ==
  ASSUME NEW a, NEW q, Puts(a, q, "BEFORE")
  PROVE  Told(a, InnerNode(q))
<1> DEFINE f == Top(q)
           o == WithPending(q, f.outer)
           c == InnerColumn(q)
           props == Pending(q)
           n == f.indent
<1>1. /\ f \in CallFrame /\ props \in Props /\ f.outer \in Props /\ n \in Nat
  BY PutsType DEF CallFrame
<1>2. Puts(a, o, "BEFORE") /\ o \in EagerRecord /\ Col(o) \in Nat
  <2>1. Puts(a, o, "BEFORE")
    BY <1>1, PutsStill
  <2> QED BY <2>1, PutsType
<1>3. Told(a, Become(Consume(o), [MaybeKey(q, "INNER_SCALAR", c) EXCEPT !.props = props]))
  <2>1. Puts(a, Consume(o), "BEFORE")
    BY <1>2, PutsStill
  <2> HIDE DEF o, c, props
  <2> QED BY <2>1, MaybeKeyTold
<1>4. Told(a, WithPending(StartSequence(o), props))
  <2> DEFINE s == PushContext(EnqueueWithProps(o, "SEQUENCE_START"), "BLOCK_SEQ", Col(o))
             t == WithPending(s, props)
             k == Col(o)
  <2>1. Puts(a, s, "SEQ")
    BY <1>2, SequencePuts
  <2>2. s \in EagerRecord /\ Puts(a, t, "SEQ")
    BY <1>1, <2>1, PutsType, PutsStill
  <2>3. StartSequence(o) = BlockLoop(s, "BLOCK_SEQ", k)
    BY DEF StartSequence
  <2> HIDE DEF k, s, props, o
  <2>4. Told(a, BlockLoop(t, "BLOCK_SEQ", k))
    BY <2>2, Nows, BlockLoopTold
  <2>5. WithPending(BlockLoop(s, "BLOCK_SEQ", k), props) = BlockLoop(t, "BLOCK_SEQ", k)
    BY <2>2 DEF BlockLoop, Become, WithPending, EagerRecord
  <2> QED BY <2>3, <2>4, <2>5
<1>5. Told(a, AfterKey(Enqueue(StartMapping(o, n), EventWith("SCALAR", props)), n))
  <2> HIDE DEF o, props, n
  <2> QED BY <1>1, <1>2, FirstKeyTold
<1>6. Told(a, CallThen(OpenFlow(q), FlowLoop(q),
                [MaybeKey(q, "INNER_FLOW", c) EXCEPT !.outer = f.outer, !.props = props]))
  <2> DEFINE g == [MaybeKey(q, "INNER_FLOW", c) EXCEPT !.outer = f.outer, !.props = props]
  <2>1. g.at = "INNER_FLOW" /\ g.index = Len(q.events) + 1
    BY MaybeKeyFields
  <2> HIDE DEF g
  <2>2. Told(a, CallThen(OpenFlow(q), FlowLoop(q), g))
    BY <2>1, FlowMaybeKeyTold
  <2> QED BY <2>2 DEF g
<1>7. Told(a, Finished(EmitEmpty(q)))
  <2>1. Puts(a, EmitEmpty(q), "DONE")
    BY Pasts, PutsEmpty
  <2> QED BY <2>1, PutsEnd
<1> QED BY <1>3, <1>4, <1>5, <1>6, <1>7 DEF InnerNode

\* parse_block_node, a scalar after a second set of properties.
LEMMA InnerScalarTold ==
  ASSUME NEW a, NEW q, Puts(a, q, "BEFORE")
  PROVE  Told(a, InnerScalar(q))
<1> DEFINE f == Top(q)
           k == f.indent
           u == f.props
<1>1. k \in Nat /\ u \in Props /\ Pending(q) \in Props
  BY PutsType DEF CallFrame
<1>2. Told(a, AfterKey(Enqueue(StartMapping(q, k), EventWith("SCALAR", u)), k))
  <2> HIDE DEF k, u
  <2> QED BY <1>1, FirstKeyTold
<1>3. Told(a, EagerError(q))
  BY PutsEnd
<1>4. Told(a, Finished(Enqueue(DropProps(q), EventWith("SCALAR", Union(Pending(q), u)))))
  <2> HIDE DEF k, u
  <2>1. Puts(a, DropProps(q), "BEFORE") /\ Union(Pending(q), u) \in Props
    BY <1>1, PutsStill, UnionProps
  <2>2. Puts(a, Enqueue(DropProps(q), EventWith("SCALAR", Union(Pending(q), u))), "DONE")
    BY <2>1, Pasts, PutsLeaf
  <2> QED BY <2>2, PutsEnd
<1> QED BY <1>2, <1>3, <1>4 DEF InnerScalar

\* parse_block_node, an alias: a node or a key.
LEMMA AliasNodeTold ==
  ASSUME NEW a, NEW q, Puts(a, q, "BEFORE")
  PROVE  Told(a, AliasNode(q))
<1> DEFINE f == Top(q)
           k == f.indent
<1>1. k \in Nat
  BY PutsType DEF CallFrame
<1>2. Told(a, AfterKey(EnqueuePlain(StartMapping(q, k), "ALIAS"), k))
  <2> HIDE DEF k
  <2> QED BY <1>1, FirstKeyTold
<1>3. Told(a, EagerError(q))
  BY PutsEnd
<1>4. Told(a, Finished(EnqueuePlain(q, "ALIAS")))
  <2>1. Puts(a, EnqueuePlain(q, "ALIAS"), "DONE")
    BY Pasts, PutsLeaf
  <2> QED BY <2>1, PutsEnd
<1> QED BY <1>2, <1>3, <1>4 DEF AliasNode

\* parse_block_node, a scalar: a node or a key.
LEMMA ScalarNodeTold ==
  ASSUME NEW a, NEW q, Puts(a, q, "BEFORE")
  PROVE  Told(a, ScalarNode(q))
<1> DEFINE f == Top(q)
           k == f.indent
           p == EnqueuePlain(q, "MAPPING_START")
           r == PushContext(p, "BLOCK_MAP", k)
<1>1. k \in Nat
  BY PutsType DEF CallFrame
<1>2. Told(a, Finished(EnqueueWithProps(q, "SCALAR")))
  <2>1. Puts(a, EnqueueWithProps(q, "SCALAR"), "DONE")
    BY Pasts, PutsLeaf
  <2> QED BY <2>1, PutsEnd
<1>3. Told(a, AfterKey(EnqueuePlain(StartMapping(q, k), "SCALAR"), k))
  <2> HIDE DEF k
  <2> QED BY <1>1, FirstKeyTold
<1>4. Told(a, AfterKey(EnqueueWithProps(r, "SCALAR"), k))
  <2> HIDE DEF k
  <2>1. Puts(a, p, "KEY")
    BY Onwards, PutsOn
  <2> HIDE DEF p
  <2>2. Puts(a, r, "KEY")
    BY <1>1, <2>1, PutsPush DEF BlockContext
  <2> HIDE DEF r
  <2>3. Puts(a, EnqueueWithProps(r, "SCALAR"), "VALUE")
    BY <2>2, Pasts, PutsLeaf
  <2> QED BY <2>3, PutsKey
<1> QED BY <1>2, <1>3, <1>4 DEF ScalarNode

\* parse_block_node, at a value without a key.
LEMMA BareValueTold ==
  ASSUME NEW a, NEW q, Puts(a, q, "BEFORE")
  PROVE  Told(a, BareValue(q))
<1> DEFINE k == q.props_col
           c == Col(q)
           p == EnqueuePlain(q, "MAPPING_START")
           r == PushContext(p, "BLOCK_MAP", k)
<1>1. k \in Nat /\ c \in Nat
  BY PutsType, EagerTypes DEF Busy
<1>2. Told(a, AfterKey(EmitEmpty(r), k))
  <2> HIDE DEF k
  <2>1. Puts(a, p, "KEY")
    BY Onwards, PutsOn
  <2> HIDE DEF p
  <2>2. Puts(a, r, "KEY")
    BY <1>1, <2>1, PutsPush DEF BlockContext
  <2> QED BY <2>2, PutsKey
<1>3. Told(a, BlockLoop(StartMapping(q, c), "BLOCK_MAP", c))
  <2> HIDE DEF c
  <2>1. Puts(a, StartMapping(q, c), "KEY")
    BY <1>1, StartMappingPuts
  <2> QED BY <2>1, Nows, BlockLoopTold
<1> QED BY <1>2, <1>3 DEF BareValue

\* A flow collection that is there: a node, or a key.
LEMMA FlowThere ==
  ASSUME NEW a, NEW q, Busy(q), q.stop_status = "NONE", Inside(a, q),
         Top(q).at \in {"INNER_FLOW", "FLOW_OR_KEY"}
  PROVE  /\ Puts(a, q, "DONE")
         /\ \E k \in Nat : /\ Top(q).index = k + 1 /\ k <= Len(q.events)
                           /\ Splits(a, q, "BEFORE", k, "DONE")
<1>1. Top(q).at \in Inserts /\ NodeWaits(Top(q).at) = "BEFORE" /\ Top(q).at # "PROPS"
  BY Waitings DEF Inserts
<1>2. PICK k \in Nat : /\ Top(q).index = k + 1 /\ k <= Len(q.events)
                       /\ Splits(a, q, "BEFORE", k, "DONE")
  BY <1>1, InsideSplits
<1>3. Writes(a, q, Past("BEFORE"))
  BY <1>2, Pasts, SplitsDone
<1> QED BY <1>1, <1>2, <1>3, Pasts DEF Puts

\* parse_block_node, a flow collection after a second set of properties.
LEMMA InnerFlowTold ==
  ASSUME NEW a, NEW q, Busy(q), q.stop_status = "NONE", Inside(a, q), Top(q).at = "INNER_FLOW"
  PROVE  Told(a, InnerFlow(q))
<1> DEFINE f == Top(q)
           n == f.indent
           o == f.outer
           u == f.props
           i == f.index
           p == DropProps(q)
           w == Union(o, u)
           r == [p EXCEPT !.events[i] = EventWith(@.type, w)]
<1>1. Puts(a, q, "DONE")
  BY FlowThere
<1>2. PICK k \in Nat : i = k + 1 /\ k <= Len(q.events) /\ Splits(a, q, "BEFORE", k, "DONE")
  BY FlowThere
<1>3. n \in Nat /\ u \in Props /\ o \in Props
  BY <1>1, PutsType DEF CallFrame
<1>4. Told(a, KeyMapping(q, i, n, o))
  <2>1. Told(a, KeyMapping(q, k + 1, n, o))
    <3> HIDE DEF n, o
    <3> QED BY <1>1, <1>2, <1>3, KeyMappingTold DEF Puts
  <2> QED BY <1>2, <2>1
<1>5. Told(a, EagerError(q))
  BY <1>1, PutsEnd
<1>6. Told(a, Finished(r))
  <2>1. Puts(a, p, "DONE") /\ Busy(p)
    BY <1>1, PutsStill, PutsType
  <2>2. w \in Props
    BY <1>3, UnionProps
  <2> HIDE DEF w, i, p
  <2>3. Silent(p, r)
    BY <2>1, <2>2, ReplaceSilent
  <2> HIDE DEF r
  <2> QED BY <2>1, <2>3, PutsSilent, PutsEnd
<1> QED BY <1>4, <1>5, <1>6 DEF InnerFlow

\* parse_block_node, a flow collection.
LEMMA FlowOrKeyTold ==
  ASSUME NEW a, NEW q, Busy(q), q.stop_status = "NONE", Inside(a, q), Top(q).at = "FLOW_OR_KEY"
  PROVE  Told(a, FlowOrKey(q))
<1> DEFINE f == Top(q)
           n == f.indent
           o == f.outer
           i == f.index
           p == MoveProps(q, f)
<1>1. Puts(a, q, "DONE") /\ q \in EagerRecord
  BY FlowThere, WordType
<1>2. PICK k \in Nat : i = k + 1 /\ k <= Len(q.events) /\ Splits(a, q, "BEFORE", k, "DONE")
  BY FlowThere
<1>3. n \in Nat /\ o \in Props /\ NoProps \in Props
  BY <1>1, PutsType DEF CallFrame
<1>4. Told(a, Finished(q))
  BY <1>1, PutsEnd
<1>5. Silent(q, p)
  <2> DEFINE r == [q EXCEPT !.events[i] = EventWith(@.type, NoProps)]
  <2>1. Silent(q, r)
    <3> HIDE DEF i
    <3> QED BY <1>3, ReplaceSilent
  <2>2. Silent(q, q)
    BY DEF Silent, Outset
  <2>3. p = q \/ p = r
    BY DEF MoveProps
  <2> HIDE DEF p, r
  <2> QED BY <2>1, <2>2, <2>3
<1>6. Told(a, KeyMapping(p, k + 1, n, o))
  <2> HIDE DEF n, o, p
  <2>1. Splits(a, p, "BEFORE", k, "DONE")
    BY <1>2, <1>5, SplitsSilent
  <2>2. Top(p).at # "PROPS"
    BY <1>1, <1>5 DEF Silent, Outset, Top, Puts
  <2>3. k <= Len(p.events)
    <3>1. Len(Word(p)) = Len(p.events) /\ Len(Word(q)) = Len(q.events)
      BY <1>5, WordType DEF Silent, Outset
    <3> QED BY <1>2, <1>5, <3>1 DEF Silent
  <2> QED BY <1>3, <2>1, <2>2, <2>3, KeyMappingTold
<1>7. Told(a, KeyMapping(p, i, n, o))
  BY <1>2, <1>6
<1> QED BY <1>4, <1>7 DEF FlowOrKey

\* parse_block_node, at a node on a later line than its properties.
LEMMA NodeInNodeTold ==
  ASSUME NEW a, NEW q, Puts(a, q, "BEFORE")
  PROVE  Told(a, NodeInNode(q))
<1> DEFINE f == [NewFrame("INNER_NODE") EXCEPT !.outer = Pending(q), !.line = q.current.line,
                                               !.indent = Col(q)]
           p == DropProps(q)
<1>1. f.at = "INNER_NODE"
  BY DEF NewFrame
<1>2. Puts(a, p, "BEFORE")
  BY PutsStill
<1> HIDE DEF f, p
<1>3. /\ f.at \in NodeWaiters \cup PropsWaiters /\ NodeWaits(f.at) = "BEFORE"
      /\ f.at \in PropsWaiters /\ ~(f.at \in Inserts)
  BY <1>1, Waitings DEF Inserts
<1>4. Told(a, CallThen(p, "PROPS", f))
  BY <1>2, <1>3, CallsTold DEF Puts
<1> QED BY <1>4 DEF NodeInNode, f, p

\* parse_block_node.
LEMMA BlockNodeTold ==
  ASSUME NEW a, NEW q, Puts(a, q, "BEFORE")
  PROVE  /\ Told(a, CallAndGoOn(q, "PROPS", "BLOCK_NODE_AT"))
         /\ Told(a, BlockNodeAt(q))
<1>1. Told(a, CallAndGoOn(q, "PROPS", "BLOCK_NODE_AT"))
  BY Waitings, PutsCall
<1>2. Told(a, BlockNodeAt(q))
  <2> DEFINE c == Col(q)
             k == FlowKeyColumn(q)
             j == ScalarKeyColumn(q)
             o == IF PropsAbove(q) THEN Pending(q) ELSE NoProps
  <2>1. c \in Nat /\ Puts(a, Consume(q), "BEFORE")
    BY PutsType, PutsStill
  <2> HIDE DEF c, k, j, o
  <2>2. Told(a, EagerError(q))
    BY PutsEnd
  <2>3. Told(a, Finished(EmitEmpty(q)))
    <3>1. Puts(a, EmitEmpty(q), "DONE")
      BY Pasts, PutsEmpty
    <3> QED BY <3>1, PutsEnd
  <2>4. Told(a, NodeInNode(q))
    BY NodeInNodeTold
  <2>5. /\ Told(a, Become(Consume(q), MaybeKey(q, "ALIAS_NODE", c)))
        /\ Told(a, Become(Consume(q), MaybeKey(q, "SCALAR_NODE", j)))
    BY <2>1, MaybeKeyTold
  <2>6. Told(a, CallThen(OpenFlow(q), FlowLoop(q),
                  [MaybeKey(q, "FLOW_OR_KEY", k) EXCEPT !.outer = o]))
    <3> DEFINE g == [MaybeKey(q, "FLOW_OR_KEY", k) EXCEPT !.outer = o]
    <3>1. g.at = "FLOW_OR_KEY" /\ g.index = Len(q.events) + 1
      BY MaybeKeyFields
    <3> HIDE DEF g
    <3>2. Told(a, CallThen(OpenFlow(q), FlowLoop(q), g))
      BY <3>1, FlowMaybeKeyTold
    <3> QED BY <3>2 DEF g
  <2>7. Told(a, StartSequence(q))
    BY StartSequenceTold
  <2>8. Told(a, BlockLoop(StartMapping(q, c), "BLOCK_MAP", c))
    <3>1. Puts(a, StartMapping(q, c), "KEY")
      BY <2>1, StartMappingPuts
    <3> QED BY <3>1, Nows, BlockLoopTold
  <2>9. Told(a, BareValue(q))
    BY BareValueTold
  <2> QED BY <2>2, <2>3, <2>4, <2>5, <2>6, <2>7, <2>8, <2>9 DEF BlockNodeAt, c, k, j, o
<1> QED BY <1>1, <1>2

-----------------------------------------------------------------------------
(***************************************************************************)
(* What any function of a node or a collection does at a token.            *)
(***************************************************************************)

\* In a flow collection,
LEMMA HandleFlowTold ==
  ASSUME NEW a, NEW q, Puts(a, q, Now(Top(q).at)),
         Top(q).at \in {"FLOW_NODE", "FLOW_NODE_AT", "FLOW_SCALAR", "FLOW_SEQ",
                        "FLOW_PAIR_KEY", "FLOW_PAIR_VALUE", "FLOW_PAIR_NODE", "FLOW_PAIR_END",
                        "FLOW_SEQ_NEXT", "FLOW_MAP", "FLOW_KEY",
                        "FLOW_VALUE", "FLOW_VALUE_NODE", "FLOW_MAP_NEXT"}
  PROVE  Told(a, Handle(q))
<1> DEFINE at == Top(q).at
<1>1. CASE at \in {"FLOW_NODE", "FLOW_NODE_AT", "FLOW_SCALAR"}
  <2>1. Puts(a, q, "BEFORE")
    BY <1>1, Nows DEF Outside, Inserts
  <2>2. /\ Told(a, CallAndGoOn(q, "PROPS", "FLOW_NODE_AT"))
        /\ Told(a, FlowNodeAt(q)) /\ Told(a, FlowScalar(q))
    BY <2>1, FlowNodeTold
  <2>3. at = "FLOW_NODE" => Handle(q) = CallAndGoOn(q, "PROPS", "FLOW_NODE_AT")
    BY DEF Handle
  <2>4. at = "FLOW_NODE_AT" => Handle(q) = FlowNodeAt(q)
    BY DEF Handle
  <2>5. at = "FLOW_SCALAR" => Handle(q) = FlowScalar(q)
    BY DEF Handle
  <2> QED BY <1>1, <2>2, <2>3, <2>4, <2>5
<1>2. CASE at \in {"FLOW_SEQ", "FLOW_SEQ_NEXT"}
  <2>1. Puts(a, q, "SEQ")
    BY <1>2, Nows
  <2>2. Told(a, FlowSeq(q)) /\ Told(a, FlowSeqNext(q))
    BY <2>1, FlowSeqTold, FlowPairTold
  <2>3. at = "FLOW_SEQ" => Handle(q) = FlowSeq(q)
    BY DEF Handle
  <2>4. at = "FLOW_SEQ_NEXT" => Handle(q) = FlowSeqNext(q)
    BY DEF Handle
  <2> QED BY <1>2, <2>2, <2>3, <2>4
<1>3. CASE at \in {"FLOW_PAIR_KEY", "FLOW_PAIR_END"}
  <2>1. Puts(a, q, "PAIR_KEY")
    BY <1>3, Nows
  <2>2. Told(a, FlowPairKey(q)) /\ Told(a, FlowPairEnd(q))
    BY <2>1, FlowPairTold
  <2>3. at = "FLOW_PAIR_KEY" => Handle(q) = FlowPairKey(q)
    BY DEF Handle
  <2>4. at = "FLOW_PAIR_END" => Handle(q) = FlowPairEnd(q)
    BY DEF Handle
  <2> QED BY <1>3, <2>2, <2>3, <2>4
<1>4. CASE at \in {"FLOW_PAIR_VALUE", "FLOW_PAIR_NODE"}
  <2>1. Puts(a, q, "PAIR_VALUE")
    BY <1>4, Nows
  <2>2. Told(a, FlowPairValue(q)) /\ Told(a, FlowPairNode(q))
    BY <2>1, FlowPairTold
  <2>3. at = "FLOW_PAIR_VALUE" => Handle(q) = FlowPairValue(q)
    BY DEF Handle
  <2>4. at = "FLOW_PAIR_NODE" => Handle(q) = FlowPairNode(q)
    BY DEF Handle
  <2> QED BY <1>4, <2>2, <2>3, <2>4
<1>5. CASE at \in {"FLOW_MAP", "FLOW_KEY", "FLOW_MAP_NEXT"}
  <2>1. Puts(a, q, "KEY")
    BY <1>5, Nows
  <2>2. Told(a, FlowMap(q)) /\ Told(a, FlowKeyAt(q)) /\ Told(a, FlowMapNext(q))
    BY <2>1, FlowMapTold
  <2>3. at = "FLOW_MAP" => Handle(q) = FlowMap(q)
    BY DEF Handle
  <2>4. at = "FLOW_KEY" => Handle(q) = FlowKeyAt(q)
    BY DEF Handle
  <2>5. at = "FLOW_MAP_NEXT" => Handle(q) = FlowMapNext(q)
    BY DEF Handle
  <2> QED BY <1>5, <2>2, <2>3, <2>4, <2>5
<1>6. CASE at \in {"FLOW_VALUE", "FLOW_VALUE_NODE"}
  <2>1. Puts(a, q, "VALUE")
    BY <1>6, Nows
  <2>2. Told(a, FlowValue(q)) /\ Told(a, FlowValueNode(q))
    BY <2>1, FlowMapTold
  <2>3. at = "FLOW_VALUE" => Handle(q) = FlowValue(q)
    BY DEF Handle
  <2>4. at = "FLOW_VALUE_NODE" => Handle(q) = FlowValueNode(q)
    BY DEF Handle
  <2> QED BY <1>6, <2>2, <2>3, <2>4
<1> QED BY <1>1, <1>2, <1>3, <1>4, <1>5, <1>6

\* in a block collection,
LEMMA HandleBlockTold ==
  ASSUME NEW a, NEW q, Puts(a, q, Now(Top(q).at)),
         Top(q).at \in {"BLOCK_MAP", "MAP_KEY", "MAP_KEY_PROPS", "MAP_KEY_DONE",
                        "IMPLICIT_KEY", "SCALAR_KEY", "ALIAS_KEY", "FLOW_KEY_DONE",
                        "MAP_VALUE", "MAP_VALUE_NODE", "BLOCK_SEQ", "SEQ_ENTRY"}
  PROVE  Told(a, Handle(q))
<1> DEFINE at == Top(q).at
<1>1. CASE at \in {"BLOCK_MAP", "MAP_KEY", "MAP_KEY_PROPS", "IMPLICIT_KEY"}
  <2>1. Puts(a, q, "KEY")
    BY <1>1, Nows
  <2>2. /\ Told(a, BlockMap(q)) /\ Told(a, MapKey(q)) /\ Told(a, MapKeyProps(q))
        /\ Told(a, ImplicitKey(q))
    BY <2>1, BlockMapTold, ImplicitKeyTold
  <2>3. at = "BLOCK_MAP" => Handle(q) = BlockMap(q)
    BY DEF Handle
  <2>4. at = "MAP_KEY" => Handle(q) = MapKey(q)
    BY DEF Handle
  <2>5. at = "MAP_KEY_PROPS" => Handle(q) = MapKeyProps(q)
    BY DEF Handle
  <2>6. at = "IMPLICIT_KEY" => Handle(q) = ImplicitKey(q)
    BY DEF Handle
  <2> QED BY <1>1, <2>2, <2>3, <2>4, <2>5, <2>6
<1>2. CASE at \in {"MAP_KEY_DONE", "FLOW_KEY_DONE"}
  <2>1. Puts(a, q, "VALUE")
    BY <1>2, Nows
  <2>2. Told(a, MapKeyDone(q)) /\ Told(a, KeyColon(q))
    BY <2>1, BlockMapTold, KeyColonTold
  <2>3. at = "MAP_KEY_DONE" => Handle(q) = MapKeyDone(q)
    BY DEF Handle
  <2>4. at = "FLOW_KEY_DONE" => Handle(q) = KeyColon(q)
    BY DEF Handle
  <2> QED BY <1>2, <2>2, <2>3, <2>4
<1>3. CASE at \in {"SCALAR_KEY", "ALIAS_KEY"}
  <2>1. Puts(a, q, "KEY")
    BY <1>3, Nows
  <2>2. Told(a, LeafKeyColon(q, "SCALAR")) /\ Told(a, LeafKeyColon(q, "ALIAS"))
    BY <2>1, KeyColonTold
  <2>3. at = "SCALAR_KEY" => Handle(q) = LeafKeyColon(q, "SCALAR")
    BY DEF Handle
  <2>4. at = "ALIAS_KEY" => Handle(q) = LeafKeyColon(q, "ALIAS")
    BY DEF Handle
  <2> QED BY <1>3, <2>2, <2>3, <2>4
<1>4. CASE at \in {"MAP_VALUE", "MAP_VALUE_NODE"}
  <2>1. Puts(a, q, "BEFORE")
    BY <1>4, Nows DEF Outside, Inserts
  <2>2. Told(a, MapValue(q)) /\ Told(a, MapValueNode(q))
    BY <2>1, MapValueTold
  <2>3. at = "MAP_VALUE" => Handle(q) = MapValue(q)
    BY DEF Handle
  <2>4. at = "MAP_VALUE_NODE" => Handle(q) = MapValueNode(q)
    BY DEF Handle
  <2> QED BY <1>4, <2>2, <2>3, <2>4
<1>5. CASE at \in {"BLOCK_SEQ", "SEQ_ENTRY"}
  <2>1. Puts(a, q, "SEQ")
    BY <1>5, Nows
  <2>2. Told(a, BlockSeq(q)) /\ Told(a, SeqEntry(q))
    BY <2>1, BlockSeqTold
  <2>3. at = "BLOCK_SEQ" => Handle(q) = BlockSeq(q)
    BY DEF Handle
  <2>4. at = "SEQ_ENTRY" => Handle(q) = SeqEntry(q)
    BY DEF Handle
  <2> QED BY <1>5, <2>2, <2>3, <2>4
<1> QED BY <1>1, <1>2, <1>3, <1>4, <1>5

\* in a node,
LEMMA HandleNodeTold ==
  ASSUME NEW a, NEW q, Puts(a, q, "BEFORE"),
         Top(q).at \in {"BLOCK_NODE", "BLOCK_NODE_AT", "INNER_NODE", "INNER_SCALAR",
                        "ALIAS_NODE", "SCALAR_NODE"}
  PROVE  Told(a, Handle(q))
<1> DEFINE at == Top(q).at
<1>1. CASE at \in {"BLOCK_NODE", "BLOCK_NODE_AT"}
  <2>1. Told(a, CallAndGoOn(q, "PROPS", "BLOCK_NODE_AT")) /\ Told(a, BlockNodeAt(q))
    BY BlockNodeTold
  <2>2. at = "BLOCK_NODE" => Handle(q) = CallAndGoOn(q, "PROPS", "BLOCK_NODE_AT")
    BY DEF Handle
  <2>3. at = "BLOCK_NODE_AT" => Handle(q) = BlockNodeAt(q)
    BY DEF Handle
  <2> QED BY <1>1, <2>1, <2>2, <2>3
<1>2. at = "INNER_NODE" => Told(a, Handle(q))
  BY InnerNodeTold DEF Handle
<1>3. at = "INNER_SCALAR" => Told(a, Handle(q))
  BY InnerScalarTold DEF Handle
<1>4. at = "ALIAS_NODE" => Told(a, Handle(q))
  BY AliasNodeTold DEF Handle
<1>5. at = "SCALAR_NODE" => Told(a, Handle(q))
  BY ScalarNodeTold DEF Handle
<1> QED BY <1>1, <1>2, <1>3, <1>4, <1>5

\* anywhere inside.
LEMMA HandleInsideTold ==
  ASSUME NEW a, NEW q, Busy(q), q.stop_status = "NONE", Inside(a, q)
  PROVE  Told(a, Handle(q))
<1> DEFINE at == Top(q).at
<1>1. at \in Label /\ at \notin StreamLabels /\ at \notin DocLabels
  <2>1. Top(q) \in CallFrame /\ Len(q.calls) >= 3 /\ Len(q.calls) \in Nat
        /\ (at \in DocLabels => Len(q.calls) = 2)
        /\ (at \in StreamLabels => Len(q.calls) = 1)
    BY Depths DEF Busy, Inside
  <2>2. at \in Label
    BY <2>1 DEF CallFrame
  <2> DEFINE n == Len(q.calls)
             d == at \in DocLabels
             s == at \in StreamLabels
  <2>3. n >= 3 /\ n \in Nat /\ (d => n = 2) /\ (s => n = 1)
    BY <2>1
  <2> HIDE DEF n, d, s
  <2>4. ~d /\ ~s
    BY <2>3
  <2>5. at \notin DocLabels /\ at \notin StreamLabels
    BY <2>4 DEF d, s
  <2> QED BY <2>2, <2>5
<1>2. CASE at \in Inserts
  <2>1. at = "FLOW_SEQ_NODE" => Handle(q) = FlowSeqNode(q)
    BY DEF Handle
  <2>2. at = "INNER_FLOW" => Handle(q) = InnerFlow(q)
    BY DEF Handle
  <2>3. at = "FLOW_OR_KEY" => Handle(q) = FlowOrKey(q)
    BY DEF Handle
  <2> QED BY <1>2, <2>1, <2>2, <2>3, FlowSeqNodeTold, InnerFlowTold, FlowOrKeyTold DEF Inserts
<1>3. CASE at = "PROPS"
  <2>1. Writes(a, q, Now("PROPS")) /\ Now("PROPS") = "BEFORE"
    BY <1>3, InsideWrites DEF Inserts, Now
  <2>2. Handle(q) = NodeProps(q)
    BY <1>3 DEF Handle
  <2> QED BY <1>3, <2>1, <2>2, NodePropsTold
<1>4. CASE at \notin Inserts \cup {"PROPS"}
  <2>1. Puts(a, q, Now(at))
    BY <1>4, InsideWrites DEF Puts
  <2>2. at \in {"BLOCK_NODE", "BLOCK_NODE_AT", "INNER_NODE", "INNER_SCALAR",
                "ALIAS_NODE", "SCALAR_NODE"} => Now(at) = "BEFORE"
    BY DEF Now
  <2>3. at \in {"BLOCK_NODE", "BLOCK_NODE_AT", "INNER_NODE", "INNER_SCALAR",
                "ALIAS_NODE", "SCALAR_NODE"} => Told(a, Handle(q))
    BY <2>1, <2>2, HandleNodeTold
  <2>4. at \in {"FLOW_NODE", "FLOW_NODE_AT", "FLOW_SCALAR", "FLOW_SEQ",
                "FLOW_PAIR_KEY", "FLOW_PAIR_VALUE", "FLOW_PAIR_NODE", "FLOW_PAIR_END",
                "FLOW_SEQ_NEXT", "FLOW_MAP", "FLOW_KEY",
                "FLOW_VALUE", "FLOW_VALUE_NODE", "FLOW_MAP_NEXT"} => Told(a, Handle(q))
    BY <2>1, HandleFlowTold
  <2>5. at \in {"BLOCK_MAP", "MAP_KEY", "MAP_KEY_PROPS", "MAP_KEY_DONE",
                "IMPLICIT_KEY", "SCALAR_KEY", "ALIAS_KEY", "FLOW_KEY_DONE",
                "MAP_VALUE", "MAP_VALUE_NODE", "BLOCK_SEQ", "SEQ_ENTRY"} => Told(a, Handle(q))
    BY <2>1, HandleBlockTold
  <2> HIDE DEF at
  <2> QED BY <1>1, <1>4, <2>3, <2>4, <2>5 DEF Label, StreamLabels, DocLabels, Inserts
<1> QED BY <1>2, <1>3, <1>4

-----------------------------------------------------------------------------
(***************************************************************************)
(* The functions of the stream and of a document.                          *)
(***************************************************************************)

\* What one has made of p in its step: the levels its events lead to, and
\* whether a document is open.
Stands(a, p, q, levels, open_doc) ==
  /\ Busy(q) /\ q.calls = p.calls /\ q.doc_open = open_doc
  /\ q.stream_ended = p.stream_ended /\ q.stream_started = p.stream_started
  /\ q.stop_status = "NONE" => Leads(a, Word(q), 0, Len(Word(q)), levels)

\* The words that lead on, of a stream's and a document's start and end.
LEMMA DocLevels ==
  /\ "STREAM_START" \in Stream!Accepts(<<"BEGIN">>)
  /\ Stream!After(<<"BEGIN">>, "STREAM_START") = <<"STREAM">>
  /\ "DOC_START" \in Stream!Accepts(<<"STREAM">>)
  /\ Stream!After(<<"STREAM">>, "DOC_START") = <<"STREAM", "DOC">>
  /\ "DOC_END" \in Stream!Accepts(<<"STREAM", "DOC_DONE">>)
  /\ Stream!After(<<"STREAM", "DOC_DONE">>, "DOC_END") = <<"STREAM">>
  /\ "STREAM_END" \in Stream!Accepts(<<"STREAM">>)
  /\ Stream!After(<<"STREAM">>, "STREAM_END") = <<"END">>
  /\ "SCALAR" \in Stream!Accepts(<<"STREAM", "DOC">>)
  /\ Stream!After(<<"STREAM", "DOC">>, "SCALAR") = <<"STREAM", "DOC_DONE">>
  /\ {<<"BEGIN">>, <<"STREAM">>, <<"STREAM", "DOC">>, <<"STREAM", "DOC_DONE">>, <<"END">>}
       \subseteq Seq(Stream!Level)
<1>1. {<<"BEGIN">>, <<"STREAM">>, <<"STREAM", "DOC">>, <<"STREAM", "DOC_DONE">>, <<"END">>}
        \subseteq Seq(Stream!Level)
  BY DEF Stream!Level
<1>2. /\ Stream!Top(<<"BEGIN">>) = "BEGIN" /\ Stream!Top(<<"STREAM">>) = "STREAM"
      /\ Stream!Top(<<"STREAM", "DOC">>) = "DOC"
      /\ Stream!Top(<<"STREAM", "DOC_DONE">>) = "DOC_DONE"
  BY DEF Stream!Top
<1>3. Stream!Below(<<"STREAM", "DOC_DONE">>) = <<"STREAM">>
  <2>1. <<"STREAM">> \in Seq(Stream!Level) /\ "DOC_DONE" \in Stream!Level
    BY DEF Stream!Level
  <2>2. Stream!Below(Append(<<"STREAM">>, "DOC_DONE")) = <<"STREAM">>
    BY <2>1, LastLevel
  <2> QED BY <2>2, StreamAppend
<1>4. Append(<<"STREAM">>, "DOC") = <<"STREAM", "DOC">>
  BY StreamAppend
<1>5. [<<"STREAM", "DOC">> EXCEPT ![2] = "DOC_DONE"] = <<"STREAM", "DOC_DONE">>
  OBVIOUS
<1>6. /\ "STREAM_START" \in Stream!Accepts(<<"BEGIN">>)
      /\ "DOC_START" \in Stream!Accepts(<<"STREAM">>)
      /\ "DOC_END" \in Stream!Accepts(<<"STREAM", "DOC_DONE">>)
      /\ "STREAM_END" \in Stream!Accepts(<<"STREAM">>)
      /\ "SCALAR" \in Stream!Accepts(<<"STREAM", "DOC">>)
  BY <1>2 DEF Stream!Accepts, Stream!NodeStart, Stream!Leaf
<1>7. /\ Stream!After(<<"BEGIN">>, "STREAM_START") = <<"STREAM">>
      /\ Stream!After(<<"STREAM">>, "STREAM_END") = <<"END">>
      /\ Stream!After(<<"STREAM">>, "DOC_START") = Append(<<"STREAM">>, "DOC")
      /\ Stream!After(<<"STREAM", "DOC_DONE">>, "DOC_END") = Stream!Below(<<"STREAM", "DOC_DONE">>)
  BY DEF Stream!After, Stream!Leaf
<1>8. Stream!After(<<"STREAM", "DOC">>, "SCALAR") = <<"STREAM", "DOC_DONE">>
  <2>1. Stream!AfterNode("DOC") = "DOC_DONE"
    BY DEF Stream!AfterNode
  <2>2. [<<"STREAM", "DOC">> EXCEPT ![Len(<<"STREAM", "DOC">>)] = Stream!AfterNode(@)]
          = [<<"STREAM", "DOC">> EXCEPT ![2] = "DOC_DONE"]
    BY <2>1
  <2>3. Stream!After(<<"STREAM", "DOC">>, "SCALAR")
          = [<<"STREAM", "DOC">> EXCEPT ![Len(<<"STREAM", "DOC">>)] = Stream!AfterNode(@)]
    BY DEF Stream!After, Stream!Leaf
  <2> QED BY <1>5, <2>2, <2>3
<1> QED BY <1>1, <1>3, <1>4, <1>6, <1>7, <1>8

\* Nothing queued, or an event that the levels accept.
LEMMA StandsSilent ==
  ASSUME NEW a, NEW p, NEW q, NEW levels, NEW b, Stands(a, p, q, levels, b),
         NEW r, Silent(q, r), r.stream_started = q.stream_started
  PROVE  Stands(a, p, r, levels, b)
BY DEF Stands, Silent, Outset

\* An accepted event leads from the levels to those after it.
LEMMA AppendLeads ==
  ASSUME NEW a, NEW w \in Seq(Stream!Event), NEW levels, Leads(a, w, 0, Len(w), levels),
         NEW type \in Stream!Event, type \in Stream!Accepts(levels),
         Stream!After(levels, type) \in Seq(Stream!Level)
  PROVE  Leads(a, Append(w, type), 0, Len(Append(w, type)), Stream!After(levels, type))
<1> DEFINE x == Append(w, type)
           n == Len(w)
<1>1. n \in Nat /\ Len(x) = n + 1 /\ x[n + 1] = type /\ \A j \in 1..n : x[j] = w[j]
  OBVIOUS
<1> HIDE DEF x, n
<1>2. Leads(a, x, 0, n, levels)
  <2>1. 0 \in Nat /\ \A j \in (0 + 1)..n : w[j] = x[j]
    BY <1>1
  <2> QED BY <1>1, <2>1, LeadsAlike DEF n
<1>3. Leads(a, x, 0, n + 1, Stream!After(levels, x[n + 1]))
  BY <1>1, <1>2, LeadsOn
<1> QED BY <1>1, <1>3 DEF x

\* An event that is accepted between two documents, or at their ends.
LEMMA StandsSays ==
  ASSUME NEW a, NEW p, NEW q, NEW levels, NEW b, Stands(a, p, q, levels, b),
         NEW type \in Stream!Event, type \in Stream!Accepts(levels),
         Stream!After(levels, type) \in Seq(Stream!Level),
         NEW r, Says(q, r, type), r.stream_started = q.stream_started
  PROVE  Stands(a, p, r, Stream!After(levels, type), b)
<1>1. Word(q) \in Seq(Stream!Event)
  BY WordType DEF Stands
<1>2. r.stop_status = "NONE"
        => Leads(a, Word(r), 0, Len(Word(r)), Stream!After(levels, type))
  BY <1>1, AppendLeads DEF Stands, Says, Outset
<1> QED BY <1>2 DEF Stands, Says, Outset

\* A document's start or end is queued.
LEMMA TurnedStands ==
  ASSUME NEW a, NEW p, NEW q, NEW levels, NEW b, Stands(a, p, q, levels, b),
         Top(q).at \in Above, NEW type \in DocTypes, type \in Stream!Accepts(levels),
         Stream!After(levels, type) \in Seq(Stream!Level), NEW o, o = Turned(q, type)
  PROVE  Stands(a, p, o, Stream!After(levels, type), type = "DOC_START")
<1> DEFINE e == EventWith(type, NoProps)
           s == Append(q.events, e)
           r == EnqueuePlain(q, type)
           c == type = "DOC_START"
<1>1. /\ Busy(q) /\ Steady(q) /\ q.calls # <<>> /\ Ready(q, Top(q).at)
      /\ q \in EagerRecord /\ q.events \in Seq(EagerEvent) /\ Word(q) \in Seq(Stream!Event)
  BY WordType DEF Stands, Busy, Ready
<1>2. From(q, q) /\ AtWork(q, q, 0)
  BY <1>1, FromBegins
<1>3. From(q, o) /\ AtWork(o, o, 0)
  <2>1. From(q, o)
    BY <1>1, <1>2, DocEvent
  <2> QED BY <2>1 DEF From
<1>4. type \in Stream!Event /\ NoProps \in Props
  BY DEF DocTypes, Stream!Event, NoProps, Props, Property
<1>5. e \in EagerEvent /\ e.type = type
  BY <1>4, EventType
<1>6. o = [r EXCEPT !.doc_open = c]
  BY DEF Turned
<1>7. CASE OverLimit(q)
  <2>1. r = StopWith(q, "ERR_LIMIT")
    BY <1>7 DEF EnqueuePlain, Enqueue
  <2>2. StopWith(q, "ERR_LIMIT") \in EagerRecord
    <3>1. Outset(q, StopWith(q, "ERR_LIMIT"))
      BY <1>1, <1>7, StopOutset
    <3> QED BY <3>1, WordType DEF Outset
  <2>3. /\ StopWith(q, "ERR_LIMIT").stop_status # "NONE"
        /\ StopWith(q, "ERR_LIMIT").stream_ended = q.stream_ended
    BY <1>1 DEF StopWith, EagerRecord
  <2> HIDE DEF r, c, e, s
  <2>4. o.stop_status # "NONE" /\ o.stream_ended = q.stream_ended /\ o.doc_open = c
    BY <1>6, <2>1, <2>2, <2>3 DEF EagerRecord
  <2> QED BY <1>3, <2>4, WorkBusy DEF From, Stands, c
<1>8. CASE ~OverLimit(q)
  <2>1. r = [q EXCEPT !.events = s]
    BY <1>8 DEF EnqueuePlain, Enqueue
  <2>2. s \in Seq(EagerEvent)
    BY <1>1, <1>5
  <2> HIDE DEF r, c, e, s
  <2>3. r \in EagerRecord /\ r.events = s /\ r.stop_status = q.stop_status
        /\ r.stream_ended = q.stream_ended
    BY <1>1, <2>1, <2>2 DEF EagerRecord
  <2>4. /\ o.events = s /\ o.stop_status = q.stop_status
        /\ o.stream_ended = q.stream_ended /\ o.doc_open = c
    BY <1>6, <2>3 DEF EagerRecord
  <2>5. Word(o) = Append(Word(q), type)
    <3>1. Types(s) = Append(Types(q.events), type)
      BY <1>1, <1>5, TypesMore DEF s
    <3> QED BY <2>4, <3>1 DEF Word
  <2>6. o.stop_status = "NONE"
          => Leads(a, Word(o), 0, Len(Word(o)), Stream!After(levels, type))
    BY <1>1, <1>4, <2>4, <2>5, AppendLeads DEF Stands
  <2> QED BY <1>3, <2>4, <2>6, WorkBusy DEF From, Stands, c
<1> QED BY <1>7, <1>8

\* close_document: nothing is open in the document but itself.
LEMMA CloseStands ==
  ASSUME NEW a, NEW p, Busy(p), p.stop_status = "NONE", Matched(p), Top(p).at \in Above,
         Stands(a, p, p, IF p.doc_open THEN <<"STREAM", "DOC_DONE">> ELSE <<"STREAM">>, p.doc_open)
  PROVE  Stands(a, p, CloseDocument(p), <<"STREAM">>, FALSE)
<1>1. CASE ~p.doc_open
  <2>1. CloseDocument(p) = p /\ Stands(a, p, p, <<"STREAM">>, p.doc_open)
    BY <1>1 DEF CloseDocument
  <2>2. p.doc_open = FALSE
    BY <1>1, WordType DEF EagerRecord
  <2> QED BY <2>1, <2>2
<1>2. CASE p.doc_open
  <2>1. UnrollAll(p) = p
    <3>1. Len(p.contexts) = 0
      BY AboveFrames DEF Matched, Busy
    <3> DEFINE f == CHOOSE f : f = [n \in 0..0 |-> IF n = 0 THEN p ELSE CloseTop(f[n - 1])]
    <3>2. f = [n \in 0..0 |-> IF n = 0 THEN p ELSE CloseTop(f[n - 1])]
      BY Unrolled
    <3>3. UnrollAll(p) = f[0]
      BY <3>1 DEF UnrollAll
    <3> HIDE DEF f
    <3> QED BY <3>2, <3>3
  <2>2. CloseDocument(p) = Turned(p, "DOC_END")
    BY <1>2, <2>1 DEF CloseDocument, Turned
  <2>3. Stands(a, p, p, <<"STREAM", "DOC_DONE">>, p.doc_open)
    BY <1>2
  <2>4. Stands(a, p, CloseDocument(p), Stream!After(<<"STREAM", "DOC_DONE">>, "DOC_END"),
               "DOC_END" = "DOC_START")
    BY <2>2, <2>3, DocLevels, TurnedStands DEF DocTypes
  <2> QED BY <2>4, DocLevels
<1>3. p.doc_open \in BOOLEAN
  BY WordType DEF EagerRecord
<1> QED BY <1>1, <1>2, <1>3

\* A document begins.
LEMMA OpenStands ==
  ASSUME NEW a, NEW p, NEW q, NEW b, Stands(a, p, q, <<"STREAM">>, b), Top(q).at \in Above,
         NEW line \in Nat
  PROVE  Stands(a, p, OpenDocument(q, line), <<"STREAM", "DOC">>, TRUE)
<1> DEFINE t == [q EXCEPT !.doc_start_line = line]
<1>1. Busy(q) /\ q \in EagerRecord
  BY WordType DEF Stands
<1>2. t \in EagerRecord /\ Alike(t, q) /\ t.stream_ended = q.stream_ended
  BY <1>1 DEF EagerRecord, Alike
<1>3. OpenDocument(q, line) = Turned(t, "DOC_START")
  BY DEF OpenDocument, Turned
<1> HIDE DEF t
<1>4. Steady(t)
  BY <1>1, <1>2, AlikeSteady DEF Busy
<1>5. Silent(q, t) /\ t.stream_started = q.stream_started /\ Top(t) = Top(q)
  BY <1>1, <1>2, <1>4 DEF Silent, Outset, Busy, Alike, Word, Top
<1>6. Stands(a, p, t, <<"STREAM">>, b)
  BY <1>5, StandsSilent
<1>7. Stands(a, p, OpenDocument(q, line), Stream!After(<<"STREAM">>, "DOC_START"),
             "DOC_START" = "DOC_START")
  BY <1>3, <1>5, <1>6, DocLevels, TurnedStands DEF DocTypes
<1> QED BY <1>7, DocLevels

\* What the waiting functions stand for when nothing of the content is left, and the
\* record after a step that leaves these functions.
Places(started, calls, ended, b, levels) ==
  LET content == calls # <<>> /\ Last(calls).at = "DOC_CONTENT"
  IN  /\ content => b
      /\ levels = IF content THEN <<"STREAM", "DOC">>
                  ELSE IF ended THEN <<"END">>
                  ELSE IF b THEN <<"STREAM", "DOC_DONE">>
                  ELSE IF started THEN <<"STREAM">> ELSE <<"BEGIN">>

Leaving(q, r, calls, ended) ==
  /\ r.calls = calls /\ r.events = q.events /\ r.doc_open = q.doc_open
  /\ r.stream_ended = ended /\ r.stop_status = q.stop_status

\* How the step ends: outside of the content,
LEMMA AboveTold ==
  ASSUME NEW a, NEW p, NEW q, NEW levels, NEW b, Stands(a, p, q, levels, b),
         NEW calls, Len(calls) < 3, NEW ended \in BOOLEAN, calls # <<>> => ~ended,
         NEW r, Busy(q) => Leaving(q, r, calls, ended),
         Places(r.stream_started, calls, ended, b, levels)
  PROVE  Told(a, r)
<1>1. /\ Word(r) = Word(q) /\ r.stop_status = q.stop_status
      /\ r.calls = calls /\ r.doc_open = b /\ r.stream_ended = ended
  BY DEF Stands, Word, Leaving
<1>2. At(r, {"DOC_CONTENT"}) <=> calls # <<>> /\ Last(calls).at = "DOC_CONTENT"
  BY <1>1 DEF At, Top
<1>3. Rest(r) = levels
  BY <1>1, <1>2 DEF Rest, Places
<1>4. r.stop_status = "NONE" => Leads(a, Word(r), 0, Len(Word(r)), Rest(r))
  BY <1>1, <1>3 DEF Stands
<1> QED BY <1>1, <1>2, <1>4 DEF Told, Going, Surrounding, Places

\* or at the root node.
LEMMA EnterTold ==
  ASSUME NEW a, NEW p, NEW q, Stands(a, p, q, <<"STREAM", "DOC">>, TRUE),
         Top(q).at \in DocLabels, ~q.stream_ended
  PROVE  Told(a, CallAndGoOn(q, "BLOCK_NODE", "DOC_DONE"))
<1> DEFINE c == q.calls
           f == [Top(q) EXCEPT !.at = "DOC_DONE"]
           g == NewFrame("BLOCK_NODE")
           d == Front(c) \o <<f, g>>
           r == [q EXCEPT !.calls = d]
           w == Word(q)
<1>1. Busy(q) /\ c \in Seq(CallFrame) /\ c # <<>> /\ Len(w) \in Nat
  BY WordType DEF Stands, Busy
<1>2. Len(c) = 2 /\ Top(q) \in CallFrame
  BY <1>1, Depths DEF Busy
<1>3. TwoInstead(c, d, f, g) /\ f.at = "DOC_DONE" /\ g.at = "BLOCK_NODE"
  <2>1. f.at = "DOC_DONE" /\ g.at = "BLOCK_NODE"
    BY <1>2 DEF CallFrame, NewFrame
  <2> HIDE DEF f, g, c
  <2>2. TwoInstead(c, Front(c) \o <<f, g>>, f, g)
    BY <1>1, FrontTwo
  <2> QED BY <2>1, <2>2
<1>4. CallAndGoOn(q, "BLOCK_NODE", "DOC_DONE") = r
  BY DEF CallAndGoOn, CallThen
<1>5. /\ r.calls = d /\ Word(r) = w /\ r.stop_status = q.stop_status
      /\ r.doc_open = q.doc_open /\ r.stream_ended = q.stream_ended
  BY <1>1, Recalled DEF Word
<1> HIDE DEF c, d, f, g, r
<1>6. Len(d) = 3 /\ d[2] = f /\ d[3] = g /\ Last(d) = g
  BY <1>2, <1>3 DEF TwoInstead, Last
<1>7. Paired(d)
  <2> SUFFICES ASSUME NEW j \in 2..(Len(d) - 1)
               PROVE  d[j].at \in PropsWaiters <=> d[j + 1].at = "PROPS"
    BY DEF Paired
  <2>1. j = 2 /\ j + 1 = 3
    BY <1>6
  <2>2. "DOC_DONE" \notin PropsWaiters
    BY DEF PropsWaiters
  <2> QED BY <1>3, <1>6, <2>1, <2>2
<1>8. ASSUME r.stop_status = "NONE" PROVE InPlace(a, r)
  <2> DEFINE n == Len(w)
             m == [j \in 3..3 |-> n]
  <2>1. Leads(a, w, 0, n, <<"STREAM", "DOC">>)
    BY <1>5, <1>8 DEF Stands
  <2>2. m[3] = n
    OBVIOUS
  <2> HIDE DEF w, n, m
  <2>3. n \in Nat /\ n <= n
    BY <1>1 DEF n
  <2>4. \A j \in 3..Len(d) : j = 3
    BY <1>6
  <2>5. ~ \E j \in 3..(Len(d) - 1) : TRUE
    BY <1>6
  <2>6. Laid(a, d, w, m)
    BY <2>1, <2>2, <2>3, <2>4, <2>5 DEF Laid
  <2>7. To(w, n, n, "BEFORE")
    BY <2>3, ToNowhere
  <2>8. Standing(g, w, n)
    BY <1>3, <2>3, <2>7 DEF Standing, Inserts, Now, n
  <2>9. Top(r) = g /\ Begins(r, m) = n
    BY <1>5, <1>6, <2>2 DEF Top, Begins
  <2> QED BY <1>5, <2>6, <2>8, <2>9 DEF InPlace
<1>9. Told(a, r)
  BY <1>5, <1>6, <1>7, <1>8 DEF Told, Going, Inside, Stands
<1> QED BY <1>4, <1>9

\* A document's function goes on, or returns.
DocPlace(q, open_doc) ==
  IF open_doc THEN <<"STREAM", "DOC_DONE">>
  ELSE IF q.stream_started THEN <<"STREAM">> ELSE <<"BEGIN">>

\* It is where the grammar is at its next point, or at its caller's.
LEMMA DocOnTold ==
  ASSUME NEW a, NEW p, NEW q, NEW levels, NEW b, Stands(a, p, q, levels, b),
         Top(q).at \in DocLabels, ~q.stream_ended
  PROVE  /\ b /\ levels = <<"STREAM", "DOC">> => Told(a, GoOn(q, "DOC_CONTENT"))
         /\ levels = DocPlace(q, b)
              => Told(a, Finished(q)) /\ Told(a, GoOn(q, "DIRECTIVES"))
<1> DEFINE c == q.calls
           d == Front(c)
<1>1. Busy(q) /\ c \in Seq(CallFrame) /\ c # <<>> /\ Top(q) \in CallFrame /\ q \in EagerRecord
  BY WordType, Depths DEF Stands, Busy
<1>2. Len(c) = 2 /\ Len(d) = 1 /\ d[1].at = "STREAM_DONE"
  BY <1>1, Depths, AboveFrames DEF Busy, Above
<1>3. FALSE \in BOOLEAN /\ q.stream_ended = FALSE
  BY <1>1 DEF EagerRecord
<1>4. ASSUME NEW at \in DocLabels,
             levels = IF at = "DOC_CONTENT" THEN <<"STREAM", "DOC">> ELSE DocPlace(q, b),
             at = "DOC_CONTENT" => b
      PROVE  Told(a, GoOn(q, at))
  <2> DEFINE f == [Top(q) EXCEPT !.at = at]
             e == Append(d, f)
             r == [q EXCEPT !.calls = e]
  <2>1. f.at = at
    BY <1>1 DEF CallFrame
  <2>2. GoOn(q, at) = r
    BY DEF GoOn, Become
  <2>3. Busy(q) => Leaving(q, r, e, FALSE)
    BY <1>3, Recalled DEF Leaving
  <2>9. r.stream_started = q.stream_started
    BY <1>1 DEF EagerRecord
  <2> HIDE DEF f, r, c, d
  <2>4. OneInstead(c, Append(Front(c), f), f)
    BY <1>1, FrontOne
  <2>5. Len(e) = 2 /\ Last(e) = f /\ e # <<>>
    <3>1. Len(e) = 2 /\ Last(e) = f
      BY <1>2, <2>4 DEF OneInstead, d
    <3> HIDE DEF e
    <3> QED BY <3>1
  <2> HIDE DEF e
  <2>6. Len(e) < 3
    BY <2>5
  <2>7. Places(r.stream_started, e, FALSE, b, levels)
    BY <1>4, <2>1, <2>5, <2>9 DEF DocPlace, Places
  <2>8. Told(a, r)
    BY <1>3, <2>3, <2>6, <2>7, AboveTold
  <2> QED BY <2>2, <2>8
<1>5. levels = DocPlace(q, b) => Told(a, Finished(q))
  <2> SUFFICES ASSUME levels = DocPlace(q, b) PROVE Told(a, Finished(q))
    OBVIOUS
  <2> DEFINE r == [q EXCEPT !.calls = d]
  <2>1. Finished(q) = r
    BY DEF Finished
  <2>2. Busy(q) => Leaving(q, r, d, FALSE)
    BY <1>3, Recalled DEF Leaving
  <2>9. r.stream_started = q.stream_started
    BY <1>1 DEF EagerRecord
  <2> HIDE DEF r, c, d
  <2>3. Last(d).at = "STREAM_DONE" /\ Len(d) < 3
    BY <1>2 DEF Last
  <2>4. Places(r.stream_started, d, FALSE, b, levels)
    BY <2>3, <2>9 DEF DocPlace, Places
  <2>5. Told(a, r)
    BY <1>3, <2>2, <2>3, <2>4, AboveTold
  <2> QED BY <2>1, <2>5
<1>6. {"DOC_CONTENT", "DIRECTIVES"} \subseteq DocLabels
  BY DEF DocLabels
<1> QED BY <1>4, <1>5, <1>6

\* A function of the stream or of a document, before its step.
Due(a, p) ==
  Busy(p) /\ p.stop_status = "NONE" /\ Matched(p) /\ DocLaw(p) /\ Surrounding(a, p)

\* Before the step the levels are those of the point it waits at.
LEMMA DueStands ==
  ASSUME NEW a, NEW p, Due(a, p)
  PROVE  /\ ~p.stream_ended /\ p.doc_open \in BOOLEAN /\ p \in EagerRecord
         /\ Stands(a, p, p, IF Top(p).at = "DOC_CONTENT" THEN <<"STREAM", "DOC">>
                            ELSE DocPlace(p, p.doc_open), p.doc_open)
         /\ Top(p).at = "DOC_CONTENT" => p.doc_open
         /\ p.doc_open => p.stream_started
         /\ Law(p, Top(p).at, Len(p.calls))
<1>1. p \in EagerRecord /\ p.calls # <<>>
  BY WordType DEF Due, Busy
<1>2. ~p.stream_ended /\ p.doc_open \in BOOLEAN
  BY <1>1 DEF Due, Surrounding, EagerRecord
<1>3. At(p, {"DOC_CONTENT"}) <=> Top(p).at = "DOC_CONTENT"
  BY <1>1 DEF At
<1>4. Rest(p) = IF Top(p).at = "DOC_CONTENT" THEN <<"STREAM", "DOC">> ELSE DocPlace(p, p.doc_open)
  BY <1>2, <1>3 DEF Rest, DocPlace
<1>5. Leads(a, Word(p), 0, Len(Word(p)), Rest(p)) /\ (p.doc_open => p.stream_started)
  BY DEF Due, Surrounding, DocLaw
<1>6. Law(p, Top(p).at, Len(p.calls))
  BY <1>1, DocumentLaw DEF Due
<1> QED BY <1>1, <1>2, <1>3, <1>4, <1>5, <1>6 DEF Stands, Due, Surrounding

\* parse_document, at its first token,
LEMMA DocumentAtTold ==
  ASSUME NEW a, NEW p, Due(a, p), Top(p).at \in {"DOCUMENT", "DIRECTIVES"}
  PROVE  Told(a, DocumentAt(p)) /\ Told(a, Document(p))
<1> DEFINE c == CloseDocument(p)
           d == Consume(c)
           o == OpenDocument(d, p.current.line)
           n == OpenDocument(p, 0)
<1>1. /\ ~p.stream_ended /\ p.doc_open \in BOOLEAN /\ p \in EagerRecord
      /\ Stands(a, p, p, DocPlace(p, p.doc_open), p.doc_open)
      /\ Law(p, Top(p).at, Len(p.calls))
  BY DueStands
<1>2. p.stream_started /\ Top(p).at \in DocLabels /\ Top(p).at \in Above
  BY <1>1 DEF Law, DocLabels, Above
<1>3. DocPlace(p, p.doc_open) = IF p.doc_open THEN <<"STREAM", "DOC_DONE">> ELSE <<"STREAM">>
  BY <1>2 DEF DocPlace
<1>4. Stands(a, p, c, <<"STREAM">>, FALSE)
  BY <1>1, <1>2, <1>3, CloseStands DEF Due
<1> HIDE DEF c
<1>5. Stands(a, p, d, <<"STREAM">>, FALSE)
  <2>1. Busy(c) /\ c \in EagerRecord
    BY <1>4, WordType DEF Stands
  <2>2. Silent(c, d) /\ d.stream_started = c.stream_started
    BY <2>1, ConsumeSilent DEF Consume, EagerRecord
  <2> HIDE DEF d
  <2> QED BY <1>4, <2>2, StandsSilent
<1> HIDE DEF d
<1>6. /\ Top(d) = Top(p) /\ ~d.stream_ended /\ d.stream_started
      /\ p.current.line \in Nat
  BY <1>1, <1>2, <1>5, EagerTypes DEF Stands, Top, Due, Busy
<1>7. Stands(a, p, o, <<"STREAM", "DOC">>, TRUE)
  BY <1>2, <1>5, <1>6, OpenStands
<1> HIDE DEF o
<1>8. Told(a, GoOn(o, "DOC_CONTENT"))
  <2>1. Top(o) = Top(p) /\ ~o.stream_ended
    BY <1>1, <1>7 DEF Stands, Top
  <2> QED BY <1>2, <1>7, <2>1, DocOnTold
<1>9. Told(a, Finished(d))
  <2>1. DocPlace(d, FALSE) = <<"STREAM">>
    BY <1>6 DEF DocPlace
  <2> QED BY <1>2, <1>5, <1>6, <2>1, DocOnTold
<1>10. Told(a, Finished(p))
  BY <1>1, <1>2, DocOnTold
<1>11. Told(a, EagerError(p))
  BY <1>1, ErrorTold
<1>12. Tok(p) \notin DocumentEnds
         => Told(a, CallAndGoOn(IF p.doc_open THEN p ELSE n, "BLOCK_NODE", "DOC_DONE"))
  <2> SUFFICES ASSUME Tok(p) \notin DocumentEnds
               PROVE  Told(a, CallAndGoOn(IF p.doc_open THEN p ELSE n, "BLOCK_NODE", "DOC_DONE"))
    OBVIOUS
  <2>1. ~p.doc_open
    <3>1. p.doc_open /\ Top(p).at = "DOCUMENT"
            => /\ Tok(p) \in DocumentEnds \cup {"NONE"}
               /\ Tok(p) \notin {"STREAM_END", "NONE"}
      BY <1>1 DEF Law, DocToken
    <3>2. Top(p).at = "DIRECTIVES" => ~p.doc_open
      BY <1>1 DEF Law
    <3> QED BY <3>1, <3>2
  <2>2. Stands(a, p, p, <<"STREAM">>, p.doc_open) /\ 0 \in Nat
    BY <1>1, <1>3, <2>1
  <2>3. Stands(a, p, n, <<"STREAM", "DOC">>, TRUE)
    BY <1>2, <2>2, OpenStands
  <2> HIDE DEF n
  <2>4. Top(n) = Top(p) /\ ~n.stream_ended
    BY <1>1, <2>3 DEF Stands, Top
  <2>5. Told(a, CallAndGoOn(n, "BLOCK_NODE", "DOC_DONE"))
    BY <1>2, <2>3, <2>4, EnterTold
  <2> QED BY <2>1, <2>5
<1>13. \/ DocumentAt(p) = GoOn(o, "DOC_CONTENT")
       \/ DocumentAt(p) = Finished(d)
       \/ DocumentAt(p) = Finished(p)
       \/ DocumentAt(p) = EagerError(p)
       \/ /\ Tok(p) \notin DocumentEnds
          /\ DocumentAt(p) = CallAndGoOn(IF p.doc_open THEN p ELSE n, "BLOCK_NODE", "DOC_DONE")
  BY DEF DocumentAt, DocumentEnds, c, d, o
<1>14. Told(a, DocumentAt(p))
  BY <1>8, <1>9, <1>10, <1>11, <1>12, <1>13
<1>15. ~p.doc_open => Told(a, GoOn(Consume(p), "DIRECTIVES"))
  <2> SUFFICES ASSUME ~p.doc_open PROVE Told(a, GoOn(Consume(p), "DIRECTIVES"))
    OBVIOUS
  <2> DEFINE k == Consume(p)
  <2>1. Silent(p, k) /\ k.stream_started = p.stream_started
    BY <1>1, ConsumeSilent DEF Consume, EagerRecord, Due
  <2> HIDE DEF k
  <2>2. Stands(a, p, k, DocPlace(p, p.doc_open), p.doc_open)
    BY <1>1, <2>1, StandsSilent
  <2>3. Top(k) = Top(p) /\ ~k.stream_ended /\ DocPlace(k, p.doc_open) = DocPlace(p, p.doc_open)
    BY <1>1, <2>1, <2>2 DEF Stands, Top, DocPlace
  <2>4. Told(a, GoOn(k, "DIRECTIVES"))
    BY <1>2, <2>2, <2>3, DocOnTold
  <2> QED BY <2>4 DEF k
<1> QED BY <1>11, <1>14, <1>15 DEF Document

\* after a directive,
LEMMA AfterDirectiveTold ==
  ASSUME NEW a, NEW p, Due(a, p), Top(p).at = "DIRECTIVES"
  PROVE  Told(a, AfterDirective(p))
<1>1. Told(a, Document(p)) /\ p \in EagerRecord
  BY DocumentAtTold, DueStands
<1> QED BY <1>1, ErrorTold DEF AfterDirective

\* An event queued leaves the stream started or not.
LEMMA EnqueueStarted ==
  ASSUME NEW q \in EagerRecord, NEW type
  PROVE  /\ EnqueuePlain(q, type).stream_started = q.stream_started
         /\ EnqueueWithProps(q, type).stream_started = q.stream_started
<1>1. ASSUME NEW r \in EagerRecord, NEW e
      PROVE  Enqueue(r, e).stream_started = r.stream_started
  BY <1>1 DEF Enqueue, StopWith, EagerRecord
<1>2. DropProps(q) \in EagerRecord /\ DropProps(q).stream_started = q.stream_started
  BY DEF DropProps, WithPending, NoProps, Property, EagerRecord
<1> QED BY <1>1, <1>2 DEF EnqueuePlain, EnqueueWithProps

\* after "---",
LEMMA DocumentContentTold ==
  ASSUME NEW a, NEW p, Due(a, p), Top(p).at = "DOC_CONTENT"
  PROVE  Told(a, DocumentContent(p))
<1> DEFINE e == EmitEmpty(p)
<1>1. /\ Stands(a, p, p, <<"STREAM", "DOC">>, TRUE) /\ ~p.stream_ended /\ p.doc_open
      /\ p \in EagerRecord /\ Busy(p) /\ Top(p).at \in DocLabels
  <2>1. p.doc_open = TRUE
    BY DueStands
  <2> QED BY <2>1, DueStands DEF Due, DocLabels
<1>2. Stands(a, p, e, <<"STREAM", "DOC_DONE">>, TRUE)
  <2>1. Says(p, e, "SCALAR")
    BY <1>1, EmptySays
  <2>2. e.stream_started = p.stream_started
    BY <1>1, EnqueueStarted DEF EmitEmpty
  <2> HIDE DEF e
  <2>3. "SCALAR" \in Stream!Event
    BY EagerNames
  <2>4. Stands(a, p, e, Stream!After(<<"STREAM", "DOC">>, "SCALAR"), TRUE)
    BY <1>1, <2>1, <2>2, <2>3, DocLevels, StandsSays
  <2> QED BY <2>4, DocLevels
<1> HIDE DEF e
<1>3. Top(e) = Top(p) /\ ~e.stream_ended
  BY <1>1, <1>2 DEF Stands, Top
<1>4. Told(a, Finished(e))
  BY <1>1, <1>2, <1>3, DocOnTold DEF DocPlace
<1>5. Told(a, CallAndGoOn(p, "BLOCK_NODE", "DOC_DONE"))
  BY <1>1, EnterTold
<1>6. Told(a, EagerError(p))
  BY <1>1, ErrorTold
<1> QED BY <1>4, <1>5, <1>6 DEF DocumentContent, e

\* and at its end.
LEMMA DocumentDoneTold ==
  ASSUME NEW a, NEW p, Due(a, p), Top(p).at = "DOC_DONE"
  PROVE  Told(a, DocumentDone(p))
<1>1. /\ Stands(a, p, p, DocPlace(p, p.doc_open), p.doc_open) /\ ~p.stream_ended
      /\ p \in EagerRecord /\ Top(p).at \in DocLabels
  BY DueStands DEF DocLabels
<1>2. Told(a, Finished(p)) /\ Told(a, EagerError(p))
  BY <1>1, DocOnTold, ErrorTold
<1> QED BY <1>2 DEF DocumentDone

\* No function is left.
LEMMA NoCalls ==
  ASSUME NEW q \in EagerRecord
  PROVE  [q EXCEPT !.calls = <<>>] \in EagerRecord
<1>1. <<>> \in Seq(CallFrame)
  OBVIOUS
<1>2. ASSUME NEW calls \in Seq(CallFrame) PROVE [q EXCEPT !.calls = calls] \in EagerRecord
  BY DEF EagerRecord
<1> QED BY <1>1, <1>2

\* The stream's start, its end, or its next document.
LEMMA StreamStartTold ==
  ASSUME NEW a, NEW p, Due(a, p), Top(p).at = "STREAM", ~p.stream_started
  PROVE  Told(a, [EnqueuePlain(Consume(p), "STREAM_START") EXCEPT !.stream_started = TRUE])
<1> DEFINE c == Consume(p)
           e == EnqueuePlain(c, "STREAM_START")
           r == [e EXCEPT !.stream_started = TRUE]
<1>1. /\ ~p.stream_ended /\ ~p.doc_open /\ p \in EagerRecord /\ Busy(p)
      /\ Stands(a, p, p, <<"BEGIN">>, FALSE)
  <2>1. ~p.doc_open /\ p.doc_open = FALSE
    BY DueStands
  <2> QED BY <2>1, DueStands DEF DocPlace, Due
<1>2. /\ Stands(a, p, c, <<"BEGIN">>, FALSE) /\ Busy(c) /\ c \in EagerRecord
      /\ c.stream_started = p.stream_started
  <2>1. Silent(p, c) /\ c.stream_started = p.stream_started
    BY <1>1, ConsumeSilent DEF Consume, EagerRecord
  <2> HIDE DEF c
  <2>2. Stands(a, p, c, <<"BEGIN">>, FALSE)
    BY <1>1, <2>1, StandsSilent
  <2> QED BY <2>1, <2>2, WordType DEF Stands
<1> HIDE DEF c
<1>3. Stands(a, p, e, <<"STREAM">>, FALSE)
  <2>1. "STREAM_START" \in Stream!Event /\ "STREAM_START" \notin DocTypes
    BY DEF Stream!Event, DocTypes
  <2>2. Says(c, e, "STREAM_START") /\ e.stream_started = c.stream_started
    BY <1>2, <2>1, EnqueuesSay, EnqueueStarted
  <2> HIDE DEF e
  <2>3. Stands(a, p, e, Stream!After(<<"BEGIN">>, "STREAM_START"), FALSE)
    BY <1>2, <2>1, <2>2, DocLevels, StandsSays
  <2> QED BY <2>3, DocLevels
<1> HIDE DEF e
<1>4. e \in EagerRecord /\ e.calls = p.calls /\ ~e.stream_ended /\ Len(p.calls) = 1
  BY <1>1, <1>3, WordType, Depths DEF Stands, Busy, StreamLabels
<1>5. Leaving(e, r, p.calls, FALSE) /\ r.stream_started = TRUE
  <2>1. e.stream_ended = FALSE
    BY <1>4 DEF EagerRecord
  <2> QED BY <1>4, <2>1 DEF Leaving, EagerRecord
<1> HIDE DEF r
<1>6. Places(r.stream_started, p.calls, FALSE, FALSE, <<"STREAM">>)
  <2>1. Last(p.calls).at # "DOC_CONTENT"
    BY DEF Top
  <2> QED BY <1>5, <2>1 DEF Places
<1>7. FALSE \in BOOLEAN /\ Len(p.calls) < 3
  BY <1>4
<1>8. Told(a, r)
  BY <1>3, <1>5, <1>6, <1>7, AboveTold
<1> QED BY <1>8 DEF r, e, c

\* The end of the text: the last document is closed, and then the stream.
LEMMA StreamEndTold ==
  ASSUME NEW a, NEW p, Due(a, p), Top(p).at = "STREAM", p.stream_started
  PROVE  Told(a, CheckStop([Finished(EnqueuePlain(Consume(CloseDocument(p)), "STREAM_END"))
                              EXCEPT !.stream_ended = TRUE]))
<1> DEFINE c == CloseDocument(p)
           d == Consume(c)
           e == EnqueuePlain(d, "STREAM_END")
           r == [Finished(e) EXCEPT !.stream_ended = TRUE]
<1>1. /\ ~p.stream_ended /\ p.doc_open \in BOOLEAN /\ p \in EagerRecord /\ Busy(p)
      /\ Stands(a, p, p, IF p.doc_open THEN <<"STREAM", "DOC_DONE">> ELSE <<"STREAM">>, p.doc_open)
      /\ Top(p).at \in Above
  BY DueStands DEF DocPlace, Due, Above, StreamLabels
<1>2. Stands(a, p, c, <<"STREAM">>, FALSE) /\ Busy(c) /\ c \in EagerRecord
  <2>1. Stands(a, p, c, <<"STREAM">>, FALSE)
    BY <1>1, CloseStands DEF Due
  <2> HIDE DEF c
  <2> QED BY <2>1, WordType DEF Stands
<1> HIDE DEF c
<1>3. Stands(a, p, d, <<"STREAM">>, FALSE) /\ Busy(d) /\ d \in EagerRecord
  <2>1. Silent(c, d) /\ d.stream_started = c.stream_started
    BY <1>2, ConsumeSilent DEF Consume, EagerRecord
  <2> HIDE DEF d
  <2>2. Stands(a, p, d, <<"STREAM">>, FALSE)
    BY <1>2, <2>1, StandsSilent
  <2> QED BY <2>2, WordType DEF Stands
<1> HIDE DEF d
<1>4. Stands(a, p, e, <<"END">>, FALSE)
  <2>1. "STREAM_END" \in Stream!Event /\ "STREAM_END" \notin DocTypes
    BY DEF Stream!Event, DocTypes
  <2>2. Says(d, e, "STREAM_END") /\ e.stream_started = d.stream_started
    BY <1>3, <2>1, EnqueuesSay, EnqueueStarted
  <2> HIDE DEF e
  <2>3. Stands(a, p, e, Stream!After(<<"STREAM">>, "STREAM_END"), FALSE)
    BY <1>3, <2>1, <2>2, DocLevels, StandsSays
  <2> QED BY <2>3, DocLevels
<1> HIDE DEF e
<1>5. e \in EagerRecord /\ e.calls = p.calls /\ Front(p.calls) = <<>>
  BY <1>1, <1>4, WordType, AboveFrames DEF Stands, Busy, StreamLabels
<1>6. Leaving(e, r, <<>>, TRUE) /\ r \in EagerRecord
  <2> DEFINE o == Finished(e)
  <2>1. o = [e EXCEPT !.calls = <<>>]
    BY <1>5 DEF Finished
  <2>2. o \in EagerRecord
    BY <1>5, <2>1, NoCalls
  <2>3. /\ o.calls = <<>> /\ o.events = e.events /\ o.doc_open = e.doc_open
        /\ o.stop_status = e.stop_status
    BY <1>5, <2>1 DEF EagerRecord
  <2> HIDE DEF o
  <2>4. [o EXCEPT !.stream_ended = TRUE] \in EagerRecord
    BY <2>2 DEF EagerRecord
  <2> QED BY <2>2, <2>3, <2>4 DEF Leaving, EagerRecord, o
<1> HIDE DEF r
<1>7. Places(r.stream_started, <<>>, TRUE, FALSE, <<"END">>)
  BY DEF Places
<1>8. Told(a, r)
  <2>1. TRUE \in BOOLEAN /\ Len(<<>>) < 3
    OBVIOUS
  <2> QED BY <1>4, <1>6, <1>7, <2>1, AboveTold
<1>9. Told(a, CheckStop(r))
  <2>1. r.stop_status # "NONE" => r.stop_status # "OK"
    BY <1>6 DEF EagerRecord
  <2> QED BY <1>6, <1>8, <2>1, FailTold DEF CheckStop
<1> QED BY <1>9 DEF r, e, d, c

\* A document begins, or what is before one.
LEMMA StreamCallsTold ==
  ASSUME NEW a, NEW p, Due(a, p), Top(p).at = "STREAM", p.stream_started, NEW f
  PROVE  Told(a, CallThen(p, "DOCUMENT", f))
<1> DEFINE c == p.calls
           g == NewFrame("DOCUMENT")
           d == Front(c) \o <<f, g>>
           r == CallThen(p, "DOCUMENT", f)
<1>1. /\ ~p.stream_ended /\ p.doc_open \in BOOLEAN /\ p \in EagerRecord /\ Busy(p)
      /\ Stands(a, p, p, DocPlace(p, p.doc_open), p.doc_open)
  BY DueStands DEF Due
<1>2. c \in Seq(CallFrame) /\ c # <<>> /\ Len(c) = 1
  BY <1>1, WordType, Depths DEF Busy, StreamLabels
<1>3. g.at = "DOCUMENT"
  BY DEF NewFrame
<1>4. r = [p EXCEPT !.calls = d]
  BY DEF CallThen
<1> HIDE DEF c, g, r
<1>5. TwoInstead(c, d, f, g)
  BY <1>2, FrontTwo
<1> HIDE DEF d
<1>6. Len(d) = 2 /\ Last(d).at = "DOCUMENT" /\ d # <<>>
  BY <1>2, <1>3, <1>5 DEF TwoInstead, Last
<1>7. Leaving(p, r, d, FALSE) /\ r.stream_started = p.stream_started
  <2>1. p.stream_ended = FALSE
    BY <1>1 DEF EagerRecord
  <2> QED BY <1>1, <1>4, <2>1 DEF Leaving, EagerRecord
<1>8. Places(r.stream_started, d, FALSE, p.doc_open, DocPlace(p, p.doc_open))
  BY <1>6, <1>7 DEF Places, DocPlace
<1>9. FALSE \in BOOLEAN /\ Len(d) < 3
  BY <1>6
<1>10. Told(a, r)
  BY <1>1, <1>7, <1>8, <1>9, AboveTold
<1> QED BY <1>10 DEF r

\* The stream's function, whatever the token.
LEMMA StreamAtTold ==
  ASSUME NEW a, NEW p, Due(a, p), Top(p).at = "STREAM"
  PROVE  Told(a, StreamAt(p))
<1> DEFINE s == [EnqueuePlain(Consume(p), "STREAM_START") EXCEPT !.stream_started = TRUE]
           e == CheckStop([Finished(EnqueuePlain(Consume(CloseDocument(p)), "STREAM_END"))
                             EXCEPT !.stream_ended = TRUE])
           c == CallThen(p, "DOCUMENT", MaybeKey(p, "STREAM_DONE", p.current.pos))
<1>1. p.stream_started => Told(a, e) /\ Told(a, c)
  BY StreamCallsTold, StreamEndTold
<1>2. ~p.stream_started => Told(a, s)
  BY StreamStartTold
<1>3. \/ ~p.stream_started /\ StreamAt(p) = s
      \/ p.stream_started /\ (StreamAt(p) = e \/ StreamAt(p) = c)
  <2>1. StreamAt(p) = CASE ~p.stream_started -> s
                        [] p.stream_started /\ Tok(p) \in {"STREAM_END", "NONE"} -> e
                        [] OTHER -> c
    BY Zenon DEF StreamAt
  <2> HIDE DEF s, e, c
  <2> QED BY <2>1
<1> HIDE DEF s, e, c
<1> QED BY <1>1, <1>2, <1>3

\* The document is done, or it consumed nothing.
LEMMA StreamDoneTold ==
  ASSUME NEW a, NEW p, Due(a, p), Top(p).at = "STREAM_DONE"
  PROVE  Told(a, StreamDone(p))
<1> DEFINE r == Finished(p)
<1>1. /\ ~p.stream_ended /\ p.doc_open \in BOOLEAN /\ p \in EagerRecord /\ Busy(p)
      /\ Stands(a, p, p, DocPlace(p, p.doc_open), p.doc_open)
  BY DueStands DEF Due
<1>2. Front(p.calls) = <<>>
  BY <1>1, AboveFrames DEF Busy, StreamLabels, Above
<1>3. /\ Leaving(p, r, <<>>, FALSE) /\ r.stream_started = p.stream_started
      /\ r \in EagerRecord
  <2>1. r = [p EXCEPT !.calls = <<>>] /\ p.stream_ended = FALSE
    BY <1>1, <1>2 DEF Finished, EagerRecord
  <2> HIDE DEF r
  <2>2. r \in EagerRecord
    BY <1>1, <2>1, NoCalls
  <2>3. /\ r.calls = <<>> /\ r.events = p.events /\ r.doc_open = p.doc_open
        /\ r.stream_ended = p.stream_ended /\ r.stop_status = p.stop_status
        /\ r.stream_started = p.stream_started
    BY <1>1, <2>1 DEF EagerRecord
  <2> QED BY <2>1, <2>2, <2>3 DEF Leaving
<1> HIDE DEF r
<1>4. Places(r.stream_started, <<>>, FALSE, p.doc_open, DocPlace(p, p.doc_open))
  BY <1>3 DEF Places, DocPlace
<1>5. Told(a, r)
  <2>1. FALSE \in BOOLEAN /\ Len(<<>>) < 3
    OBVIOUS
  <2> QED BY <1>1, <1>3, <1>4, <2>1, AboveTold
<1>6. Told(a, CheckStop(r))
  <2>1. r.stop_status # "NONE" => r.stop_status # "OK"
    BY <1>3 DEF EagerRecord
  <2> QED BY <1>3, <1>5, <2>1, FailTold DEF CheckStop
<1>7. Told(a, EagerError(p))
  BY <1>1, ErrorTold
<1> QED BY <1>6, <1>7 DEF StreamDone, r

\* The step of a function of the stream or of a document.
LEMMA HandleAboveTold ==
  ASSUME NEW a, NEW p, Due(a, p), Top(p).at \in Above
  PROVE  /\ Top(p).at = "STREAM_DONE" => Told(a, StreamDone(p))
         /\ Top(p).at # "STREAM_DONE" => Told(a, Handle(p))
<1> DEFINE at == Top(p).at
<1>1. at = "STREAM" => Handle(p) = StreamAt(p)
  BY DEF Handle
<1>2. at = "DOCUMENT" => Handle(p) = Document(p)
  BY DEF Handle
<1>3. at = "DIRECTIVES" => Handle(p) = AfterDirective(p)
  BY DEF Handle
<1>4. at = "DOC_CONTENT" => Handle(p) = DocumentContent(p)
  BY DEF Handle
<1>5. at = "DOC_DONE" => Handle(p) = DocumentDone(p)
  BY DEF Handle
<1>6. at \in {"STREAM", "STREAM_DONE", "DOCUMENT", "DIRECTIVES", "DOC_CONTENT", "DOC_DONE"}
  BY DEF Above, StreamLabels, DocLabels
<1> QED BY <1>1, <1>2, <1>3, <1>4, <1>5, <1>6, StreamAtTold, StreamDoneTold, DocumentAtTold,
           AfterDirectiveTold, DocumentContentTold, DocumentDoneTold

-----------------------------------------------------------------------------
(***************************************************************************)
(* One step of the eager parser.                                           *)
(***************************************************************************)

\* The next token is seen: what is told stays told.
LEMMA SeenTold ==
  ASSUME NEW a, NEW p, NEW y, Alike(y, p), y.stream_ended = p.stream_ended
  PROVE  (Inside(a, p) => Inside(a, y)) /\ (Surrounding(a, p) => Surrounding(a, y))
<1>1. Word(y) = Word(p) /\ Top(y) = Top(p) /\ y.calls = p.calls /\ y.doc_open = p.doc_open
  BY DEF Word, Top, Alike
<1>2. At(y, {"DOC_CONTENT"}) <=> At(p, {"DOC_CONTENT"})
  BY <1>1 DEF At
<1>3. Rest(y) = Rest(p)
  BY <1>1, <1>2 DEF Rest, Alike
<1>4. \A m : Begins(y, m) = Begins(p, m)
  BY <1>1 DEF Begins
<1>5. InPlace(a, p) => InPlace(a, y)
  BY <1>1, <1>4 DEF InPlace
<1>6. Inside(a, p) => Inside(a, y)
  BY <1>1, <1>5 DEF Inside
<1>7. Surrounding(a, p) => Surrounding(a, y)
  BY <1>1, <1>2, <1>3 DEF Surrounding
<1> QED BY <1>6, <1>7

\* A parser that knows where it is, before the step of a function.
Poised(a, p) ==
  /\ Busy(p) /\ p.stop_status = "NONE" /\ Matched(p) /\ DocLaw(p)
  /\ Inside(a, p) \/ Surrounding(a, p)

\* Every function keeps to the grammar, from one token to the next.
LEMMA PoisedTold ==
  ASSUME NEW a, NEW p, Poised(a, p)
  PROVE  /\ Top(p).at = "STREAM_DONE" => Told(a, StreamDone(p))
         /\ Top(p).at # "STREAM_DONE" => Told(a, Handle(p))
<1>1. /\ Top(p).at \in Label /\ Len(p.calls) \in Nat
      /\ (Top(p).at \in Inner => Len(p.calls) >= 3)
      /\ (Top(p).at \in StreamLabels => Len(p.calls) = 1)
  BY Depths DEF Poised, Busy, CallFrame
<1>2. CASE Inside(a, p)
  <2>1. Len(p.calls) >= 3
    BY <1>2 DEF Inside
  <2>2. Top(p).at # "STREAM_DONE"
    <3> DEFINE n == Len(p.calls)
    <3>3. n \in Nat /\ n >= 3
      BY <1>1, <2>1
    <3> HIDE DEF n
    <3>4. n # 1
      BY <3>3
    <3>1. Len(p.calls) # 1
      BY <3>4 DEF n
    <3>2. Top(p).at \notin StreamLabels
      BY <1>1, <3>1
    <3> QED BY <3>2 DEF StreamLabels
  <2>3. Told(a, Handle(p))
    BY <1>2, HandleInsideTold DEF Poised
  <2> QED BY <2>2, <2>3
<1>3. CASE Surrounding(a, p)
  <2>1. Len(p.calls) < 3
    BY <1>3 DEF Surrounding
  <2>2. Top(p).at \notin Inner
    BY <1>1, <2>1
  <2>3. Top(p).at \in Above
    BY <1>1, <2>2 DEF Inner, Above
  <2>4. Due(a, p)
    BY <1>3 DEF Poised, Due
  <2> QED BY <2>3, <2>4, HandleAboveTold
<1> QED BY <1>2, <1>3 DEF Poised

\* The token is seen first.
LEMMA PeekTold ==
  ASSUME NEW a, NEW p, Poised(a, p), Top(p).at # "STREAM_DONE"
  PROVE  Told(a, HandleIfRunning(EagerPeek(p)))
<1> DEFINE r == Scan(p.scanner)
           x == EagerPeek(p)
<1>1. p \in EagerRecord /\ p.scanner \in ScannerState /\ Steady(p) /\ p.calls # <<>>
      /\ p.status = "OK" /\ ~p.starved /\ Busy(p)
  BY EagerTypes DEF Poised, Busy
<1>2. r \in ScanResult
  BY <1>1, ScanType
<1> HIDE DEF r
<1>3. r.res \in {"OK", "ERROR", "STARVED"} /\ r.s \in ScannerState /\ r.tok \in Token
  BY <1>2 DEF ScanResult
<1>4. CASE p.have_token
  <2>1. x = p /\ Running(p)
    BY <1>1, <1>4 DEF EagerPeek, Running
  <2> QED BY <2>1, PoisedTold DEF HandleIfRunning
<1>5. CASE ~p.have_token /\ r.res = "OK"
  <2> DEFINE y == [p EXCEPT !.scanner = r.s, !.current = r.tok, !.have_token = TRUE]
  <2>1. x = y
    BY <1>5 DEF EagerPeek, EagerSeen, r
  <2>2. y \in EagerRecord /\ Alike(y, p) /\ y.have_token /\ y.stream_ended = p.stream_ended
    BY <1>1, <1>3 DEF EagerRecord, Alike
  <2> HIDE DEF y
  <2>3. Steady(y)
    BY <1>1, <2>2, AlikeSteady
  <2>4. Top(y) = Top(p) /\ Running(y) /\ Busy(y) /\ y.stop_status = "NONE"
    BY <1>1, <2>2, <2>3 DEF Alike, Top, Running, Busy, Poised
  <2>5. Matched(y)
    BY <2>2 DEF Matched, Alike, Poised
  <2>6. DocLaw(y)
    <3>1. Law(p, Top(p).at, Len(p.calls))
      BY <1>1, DocumentLaw DEF Poised
    <3>2. ~p.doc_open \/ ~(Len(p.calls) <= 1 \/ Top(p).at = "DOCUMENT")
      BY <1>5, <3>1 DEF Law, DocToken
    <3>3. Top(p).at # "DOCUMENT"
      BY <1>5, <3>1 DEF Law
    <3>4. Law(y, Top(p).at, Len(p.calls))
      BY <2>2, <3>1, <3>2, <3>3 DEF Law, Alike
    <3>5. Top(y) = Top(p) /\ y.calls = p.calls
      BY <2>2 DEF Alike, Top
    <3> QED BY <1>1, <3>4, <3>5, LawHolds
  <2>7. Inside(a, y) \/ Surrounding(a, y)
    BY <2>2, SeenTold DEF Poised
  <2>8. Poised(a, y)
    BY <2>4, <2>5, <2>6, <2>7 DEF Poised
  <2>9. Told(a, Handle(y))
    BY <2>4, <2>8, PoisedTold
  <2> QED BY <2>1, <2>4, <2>9 DEF HandleIfRunning
<1>6. CASE ~p.have_token /\ r.res = "ERROR"
  <2> DEFINE y == [p EXCEPT !.scanner = r.s, !.error_msg = "scan"]
  <2>1. x = Fail(y, "ERR_SCAN")
    BY <1>6 DEF EagerPeek, EagerSeen, r
  <2>2. y \in EagerRecord
    BY <1>1, <1>3 DEF EagerRecord, EagerMessage, Message
  <2> HIDE DEF y
  <2>3. Told(a, Fail(y, "ERR_SCAN"))
    BY <2>2, FailTold
  <2>4. Fail(y, "ERR_SCAN").status = "ERR_SCAN"
    BY <2>2 DEF Fail, EagerRecord
  <2> HIDE DEF x
  <2>5. Told(a, x) /\ ~Running(x)
    BY <2>1, <2>3, <2>4 DEF Running
  <2> QED BY <2>5 DEF HandleIfRunning, x
<1>7. CASE ~p.have_token /\ r.res = "STARVED"
  <2>1. x = [p EXCEPT !.starved = TRUE]
    BY <1>7 DEF EagerPeek, EagerSeen, r
  <2>2. x.starved /\ ~Running(x)
    BY <1>1, <2>1 DEF Running, EagerRecord
  <2> QED BY <2>2 DEF HandleIfRunning, Told, Going
<1>8. p.have_token \in BOOLEAN
  BY <1>1 DEF EagerRecord
<1> QED BY <1>3, <1>4, <1>5, <1>6, <1>7, <1>8

\* What is checked before it changes nothing, or fails.
LEMMA CheckedTold ==
  ASSUME NEW p, Busy(p)
  PROVE  Checked(p) = p \/ Checked(p).status # "OK"
<1> DEFINE s == StopWith(p, "ERR_LIMIT")
<1>1. p \in EagerRecord /\ s \in EagerRecord /\ s.stop_status # "NONE"
  <2>1. p \in EagerRecord
    BY WordType
  <2>2. "limit" \in EagerMessage
    BY DEF EagerMessage, Message
  <2> QED BY <2>1, <2>2 DEF StopWith, EagerRecord
<1> HIDE DEF s
<1>2. ASSUME NEW q \in EagerRecord
      PROVE  (CheckStop(q) = q /\ q.stop_status = "NONE") \/ CheckStop(q).status # "OK"
  <2>1. q.stop_status # "NONE" => Fail(q, q.stop_status).status # "OK"
    BY DEF Fail, EagerRecord
  <2> QED BY <2>1 DEF CheckStop
<1>3. CheckStop(p) = p \/ CheckStop(p).status # "OK"
  BY <1>1, <1>2
<1>4. CheckStop(s).status # "OK"
  BY <1>1, <1>2
<1>5. CheckLimits(p) = p \/ CheckLimits(p).status # "OK"
  BY <1>3, <1>4 DEF CheckLimits, s
<1> QED BY <1>3, <1>5 DEF Checked

\* A parser whose queued events lead where it is still is such a one after a step.
LEMMA EagerStepTold ==
  ASSUME NEW a, NEW p, Busy(p), Told(a, p),
         p.stop_status = "NONE" => Matched(p) /\ DocLaw(p)
  PROVE  Told(a, EagerStep(p))
<1> DEFINE r == EagerStep(p)
<1>1. Stepped(p, r)
  BY EagerSteps DEF Busy
<1>2. CASE p.stop_status # "NONE"
  <2> HIDE DEF r
  <2>1. ~Going(r)
    BY <1>1, <1>2 DEF Stepped, WentOn, Going
  <2> QED BY <2>1 DEF Told, r
<1>3. CASE p.stop_status = "NONE"
  <2>1. Poised(a, p)
    BY <1>3 DEF Poised, Told, Going, Busy
  <2>2. CASE Top(p).at = "STREAM_DONE"
    BY <2>1, <2>2, PoisedTold DEF EagerStep
  <2>3. CASE Top(p).at # "STREAM_DONE"
    <3> DEFINE x == Checked(p)
    <3>1. EagerStep(p) = HandleIfRunning(PeekIfRunning(x))
      BY <2>3 DEF EagerStep
    <3>2. CASE x = p
      <4>1. Running(p)
        BY DEF Running, Busy
      <4>2. Told(a, HandleIfRunning(EagerPeek(p)))
        BY <2>1, <2>3, PeekTold
      <4> QED BY <3>1, <3>2, <4>1, <4>2 DEF PeekIfRunning
    <3>3. CASE x.status # "OK"
      <4>1. EagerStep(p) = x
        BY <3>1, <3>3 DEF PeekIfRunning, HandleIfRunning, Running
      <4> HIDE DEF x
      <4>2. Told(a, x)
        BY <3>3 DEF Told, Going
      <4> QED BY <4>1, <4>2
    <3> QED BY <3>2, <3>3, CheckedTold
  <2> QED BY <2>2, <2>3
<1> QED BY <1>2, <1>3

-----------------------------------------------------------------------------
(***************************************************************************)
(* What is known of the events delivered, and of those the eager parser    *)
(* has queued or is about to skip.                                         *)
(***************************************************************************)

\* The same events at earlier places.
LEMMA LeadsBack ==
  ASSUME NEW a, NEW b, NEW w, NEW v, NEW i \in Nat, NEW k \in Nat, NEW d \in Nat, i <= k,
         Leads(a, w, i + d, k + d, b), \A j \in (i + 1)..k : v[j] = w[j + d]
  PROVE  Leads(a, v, i, k, b)
<1>1. PICK p \in [i + d..k + d -> Seq(Stream!Level)] :
        p[i + d] = a /\ p[k + d] = b /\ Follows(p, w, i + d, k + d)
  BY DEF Leads
<1> DEFINE s == [j \in i..k |-> p[j + d]]
<1>2. \A j \in i..k : j + d \in i + d..k + d
  OBVIOUS
<1>3. s \in [i..k -> Seq(Stream!Level)]
  BY <1>1, <1>2
<1>4. \A j \in i..k : s[j] = p[j + d]
  OBVIOUS
<1> HIDE DEF s
<1>5. s[i] = a /\ s[k] = b
  <2>1. i \in i..k /\ k \in i..k
    OBVIOUS
  <2> QED BY <1>1, <1>4, <2>1
<1>6. Follows(s, v, i, k)
  <2> SUFFICES ASSUME NEW j \in (i + 1)..k
               PROVE  v[j] \in Stream!Accepts(s[j - 1]) /\ s[j] = Stream!After(s[j - 1], v[j])
    BY DEF Follows
  <2> DEFINE m == j + d
  <2>1. /\ m \in (i + d + 1)..(k + d) /\ j \in i..k /\ j - 1 \in i..k
        /\ m - 1 = j - 1 + d
    OBVIOUS
  <2>2. v[j] = w[m] /\ s[j] = p[m] /\ s[j - 1] = p[m - 1]
    BY <1>4, <2>1
  <2>3. w[m] \in Stream!Accepts(p[m - 1]) /\ p[m] = Stream!After(p[m - 1], w[m])
    <3> HIDE DEF m
    <3> QED BY <1>1, <2>1 DEF Follows
  <2> HIDE DEF m
  <2> QED BY <2>2, <2>3
<1> QED BY <1>3, <1>5, <1>6 DEF Leads

\* Between two documents, nothing of a document is open.
LEMMA OpenBetween ==
  ASSUME StreamInv, Stepping("DOC_DIRECTIVES")
  PROVE  open = <<"STREAM">>
<1>1. /\ Sound(parser) /\ parser.state = "DOC_DIRECTIVES" /\ parser.out_buf = <<>>
  BY DEF Stepping, Sound
<1>2. parser.state \in RootStates /\ parser.state \notin AwayStates
      /\ parser.state \notin {"FLOW_SEQ_LOOP", "FLOW_NODE", "EAGER_DRAIN"}
      /\ parser.state \notin NodeStates /\ parser.state \in BetweenDocuments
  BY <1>1 DEF BetweenDocuments, RootStates, NodeStates, AwayStates
<1>3. parser.frames = <<>>
  BY <1>1, <1>2 DEF StreamInv, OnWay, Placed, StatePlaced
<1>4. Levels(parser.frames) = <<"STREAM">> /\ OpenAt(parser) = <<>>
  BY <1>2, <1>3, LevelsEmpty, RootLevels DEF OpenAt
<1>5. Expected(parser) = <<"STREAM">>
  BY <1>1, <1>4 DEF Expected
<1>6. parser.out_buf \in Seq(Stream!Event) /\ Path(open, parser.out_buf, Expected(parser))
  BY <1>1, <1>2 DEF StreamInv, OnWay, Inv, Kept, ParserRecord
<1>7. parser.out_buf = <<>> => Expected(parser) = open
  BY <1>6, PathEnds
<1> QED BY <1>1, <1>5, <1>7

\* What the incremental parser has delivered since the checkpoint.
Since(q) == IF q.ckpt.set THEN q.ckpt.delivered ELSE 0
Origin(q) == IF q.ckpt.set THEN <<"STREAM">> ELSE <<"BEGIN">>

Delivered == Leads(Origin(parser), delivered, Since(parser), Len(delivered), open)

\* Where the events queued start: where those delivered end, or where those
\* skipped so far do, which are the first of those delivered since.
Joins(q, levels, a) ==
  IF q.skip_n = 0 THEN a = levels
  ELSE \E b : /\ Leads(b, q.skip_got, 0, Len(q.skip_got), a)
              /\ Leads(b, q.skip_sig, 0, Len(q.skip_sig), levels)

\* Those that are left lead to where the eager parser is between its calls.
Heard(a, q) ==
  IF q.calls = <<>> THEN Leads(a, Word(q), q.cursor, Len(q.events), Rest(q)) ELSE Told(a, q)

Known(q, levels) ==
  /\ \E a : Heard(a, q) /\ Joins(q, levels, a)
  /\ q.calls = <<>> /\ q.skip_n > 0 => ~q.stream_ended

HeardInv ==
  /\ parser.incremental => Delivered
  /\ ~parser.incremental /\ errors = 0 => Known(eager, open)

\* A new eager parser has queued nothing.
LEMMA NewKnown ==
  ASSUME NEW q \in EagerRecord, q.calls = <<>>, q.events = <<>>, q.cursor = 0,
         ~q.doc_open, ~q.stream_ended, NEW levels,
         Joins(q, levels, IF q.stream_started THEN <<"STREAM">> ELSE <<"BEGIN">>)
  PROVE  Known(q, levels)
<1> DEFINE a == IF q.stream_started THEN <<"STREAM">> ELSE <<"BEGIN">>
<1>1. Rest(q) = a
  BY DEF Rest, At
<1>2. a \in Seq(Stream!Level)
  <2>1. "STREAM" \in Stream!Level /\ "BEGIN" \in Stream!Level
    BY DEF Stream!Level
  <2> QED BY <2>1
<1> HIDE DEF a
<1>3. Leads(a, Word(q), 0, 0, a)
  BY <1>2, LeadsNowhere
<1>4. Len(q.events) = 0
  OBVIOUS
<1>5. Heard(a, q)
  BY <1>1, <1>3, <1>4 DEF Heard
<1> QED BY <1>5 DEF Known, a

\* At first nothing is delivered, and nothing queued.
LEMMA InitHeard == WholeInit => HeardInv
<1> SUFFICES ASSUME WholeInit PROVE HeardInv
  OBVIOUS
<1>1. open = <<"BEGIN">> /\ delivered = <<>> /\ Len(delivered) = 0 /\ eager = NewEager
  BY DEF WholeInit
<1>2. <<"BEGIN">> \in Seq(Stream!Level)
  <2>1. "BEGIN" \in Stream!Level
    BY DEF Stream!Level
  <2> QED BY <2>1
<1>3. parser.incremental => Delivered
  <2>1. NewParser \in ParserRecord /\ ~NewParser.ckpt.set
    BY NewParserKept DEF Kept, NewParser
  <2>2. ~parser.ckpt.set
    <3> DEFINE q == NewParser
    <3> HIDE DEF q
    <3>1. ~[q EXCEPT !.incremental = FALSE].ckpt.set
      BY <2>1 DEF q, ParserRecord
    <3> QED BY <2>1, <3>1 DEF WholeInit, q
  <2>3. Since(parser) = 0 /\ Origin(parser) = <<"BEGIN">>
    BY <2>2 DEF Since, Origin
  <2>4. Leads(<<"BEGIN">>, delivered, 0, 0, <<"BEGIN">>)
    BY <1>2, LeadsNowhere
  <2> QED BY <1>1, <2>3, <2>4 DEF Delivered
<1>4. Known(eager, open)
  <2>1. /\ NewEager \in EagerRecord /\ NewEager.calls = <<>> /\ NewEager.events = <<>>
        /\ NewEager.cursor = 0 /\ ~NewEager.doc_open /\ ~NewEager.stream_ended
        /\ NewEager.skip_n = 0 /\ ~NewEager.stream_started
    BY NewEagerType DEF NewEager
  <2>2. Joins(NewEager, <<"BEGIN">>, <<"BEGIN">>)
    BY <2>1 DEF Joins
  <2> DEFINE q == NewEager
  <2> HIDE DEF q
  <2>3. Known(q, <<"BEGIN">>)
    BY <2>1, <2>2, NewKnown DEF q
  <2> QED BY <1>1, <2>3 DEF q
<1> QED BY <1>3, <1>4 DEF HeardInv

-----------------------------------------------------------------------------
(***************************************************************************)
(* Until the fallback: what was delivered since the checkpoint leads from  *)
(* between two documents, where the checkpoint is, to what is open now.    *)
(***************************************************************************)

\* An event more is delivered.
LEMMA DeliverHeard ==
  ASSUME SteppedInv, Delivered, IncrementalStep, Deliver
  PROVE  Delivered'
<1> DEFINE e == Head(parser.out_buf)
           d == parser.events_delivered
           n == Len(delivered)
           i == Since(parser)
<1>1. /\ WholeInv /\ StreamInv /\ parser.incremental /\ parser \in ParserRecord /\ Limits(parser)
  BY DEF SteppedInv, Deliver, WholeInv, Inv, Kept
<1>2. d \in Nat /\ delivered \in Seq(Stream!Event) /\ n = d /\ i \in Nat /\ i <= n
  <2>1. d \in Nat /\ delivered \in Seq(Stream!Event) /\ n = d
    BY <1>1 DEF WholeInv, EagerWaits, History, ParserRecord
  <2>2. parser.ckpt \in Checkpoint
    BY <1>1 DEF ParserRecord
  <2> HIDE DEF n, d
  <2>3. parser.ckpt.set => parser.ckpt.delivered \in Nat /\ parser.ckpt.delivered <= d
    BY <1>1, <2>2 DEF Limits, Checkpoint, d
  <2> QED BY <2>1, <2>3 DEF Since
<1>3. e \in Stream!Event /\ e \in Stream!Accepts(open)
  BY <1>1, DeliverOnWay
<1>4. /\ parser'.events_delivered = d + 1 /\ parser'.ckpt = parser.ckpt
      /\ open' = Stream!After(open, e)
  <2> DEFINE rest == Tail(parser.out_buf)
  <2>1. /\ parser' = [parser EXCEPT !.out_buf = rest, !.events_delivered = @ + 1]
        /\ open' = Stream!After(open, e)
    BY DEF Deliver
  <2> HIDE DEF rest, e
  <2> QED BY <1>1, <2>1 DEF ParserRecord
<1>5. delivered' = Append(delivered, e)
  <2>1. delivered' = IF parser'.events_delivered > d THEN Append(delivered, e) ELSE delivered
    BY DEF IncrementalStep, KeepDelivered
  <2> HIDE DEF d, e
  <2> QED BY <1>2, <1>4, <2>1
<1>6. Since(parser)' = i /\ Origin(parser)' = Origin(parser)
  BY <1>4 DEF Since, Origin
<1> HIDE DEF d, e, i
<1> DEFINE w == Append(delivered, e)
<1>7. /\ Len(w) = n + 1 /\ n \in Nat /\ w[n + 1] = e /\ \A j \in 1..n : w[j] = delivered[j]
  BY <1>2, <1>3
<1>8. Stream!After(open, e) \in Seq(Stream!Level)
  BY <1>1, <1>3, AfterType DEF WholeInv, Inv
<1>9. Leads(Origin(parser), delivered, i, n, open)
  BY DEF Delivered, i
<1> HIDE DEF w, n
<1>10. Leads(Origin(parser), w, i, n, open)
  BY <1>2, <1>7, <1>9, LeadsAlike
<1>11. Leads(Origin(parser), w, i, n + 1, Stream!After(open, w[n + 1]))
  BY <1>2, <1>3, <1>7, <1>8, <1>10, LeadsOn
<1>12. Leads(Origin(parser), w, i, Len(w), Stream!After(open, e))
  BY <1>7, <1>11
<1> QED BY <1>4, <1>5, <1>6, <1>12 DEF Delivered, w

\* A step delivers none, and may take a checkpoint.
LEMMA StepHeard ==
  ASSUME SteppedInv, Delivered, IncrementalStep, DocumentStep \/ BlockStep \/ FlowStep
  PROVE  Delivered'
<1> DEFINE d == parser.events_delivered
           n == Len(delivered)
<1>1. WholeInv /\ Inv /\ CacheInv
  BY DEF SteppedInv, WholeInv
<1>2. /\ parser'.events_delivered = d /\ Marked(parser', parser)
  BY <1>1, StepDeliversNothing
<1>3. StepEnds
  BY <1>1, DocumentStepRecalls, BlockStepRecalls, FlowStepRecalls
<1>4. open' = open /\ parser.incremental
  BY <1>3 DEF StepEnds, Finish, MoreText, Stepping
<1>5. d \in Nat /\ delivered \in Seq(Stream!Event) /\ n = d
  BY <1>1, <1>4 DEF WholeInv, EagerWaits, History, Inv, Kept, ParserRecord
<1>6. delivered' = delivered
  <2>1. delivered' = IF parser'.events_delivered > d
                     THEN Append(delivered, Head(parser.out_buf)) ELSE delivered
    BY DEF IncrementalStep, KeepDelivered
  <2> HIDE DEF d
  <2> QED BY <1>2, <1>5, <2>1
<1>7. CASE parser'.ckpt = parser.ckpt
  <2>1. Since(parser)' = Since(parser) /\ Origin(parser)' = Origin(parser)
    BY <1>7 DEF Since, Origin
  <2> QED BY <1>4, <1>6, <2>1 DEF Delivered
<1>8. CASE /\ parser.state = "DOC_DIRECTIVES"
           /\ parser'.ckpt.set /\ parser'.ckpt.delivered = parser'.events_delivered
  <2>1. open = <<"STREAM">>
    <3>1. StreamInv
      BY <1>4 DEF SteppedInv
    <3>2. Stepping("DOC_DIRECTIVES")
      BY <1>3, <1>8 DEF StepEnds
    <3> QED BY <3>1, <3>2, OpenBetween
  <2>2. Since(parser)' = n /\ Origin(parser)' = open
    BY <1>2, <1>5, <1>8, <2>1 DEF Since, Origin
  <2>3. open \in Seq(Stream!Level) /\ n \in Nat
    BY <1>1, <1>5 DEF Inv
  <2>4. Leads(open, delivered, n, n, open)
    BY <2>3, LeadsNowhere
  <2> QED BY <1>4, <1>6, <2>2, <2>4 DEF Delivered
<1> QED BY <1>2, <1>7, <1>8 DEF Marked

\* So does every step of the incremental parser's.
LEMMA IncrementalHeard ==
  ASSUME SteppedInv, HeardInv, IncrementalStep
  PROVE  HeardInv'
<1>1. WholeInv /\ parser.incremental /\ parser'.incremental
  BY IncrementalCounts DEF SteppedInv
<1>2. Delivered
  BY <1>1 DEF HeardInv
<1>3. ASSUME ReturnNone \/ ReturnScanError \/ ReturnStopped PROVE Delivered'
  <2>1. parser' = parser /\ open' = open
    BY <1>3 DEF ReturnNone, ReturnScanError, ReturnStopped, Return
  <2>2. delivered' = delivered
    <3> DEFINE d == parser.events_delivered
    <3>1. d \in Nat
      BY <1>1 DEF WholeInv, Inv, Kept, ParserRecord
    <3>2. delivered' = IF d > d THEN Append(delivered, Head(parser.out_buf)) ELSE delivered
      BY <2>1 DEF IncrementalStep, KeepDelivered
    <3> QED BY <3>1, <3>2
  <2>3. Since(parser)' = Since(parser) /\ Origin(parser)' = Origin(parser)
    BY <2>1 DEF Since, Origin
  <2> QED BY <1>2, <2>1, <2>2, <2>3 DEF Delivered
<1>4. ASSUME DocumentStep \/ BlockStep \/ FlowStep PROVE Delivered'
  BY <1>2, <1>4, StepHeard
<1>5. ASSUME Deliver PROVE Delivered'
  BY <1>2, <1>5, DeliverHeard
<1>6. Delivered'
  BY <1>3, <1>4, <1>5 DEF IncrementalStep
<1> QED BY <1>1, <1>6 DEF HeardInv

\* The eager parser that takes over is new, and has to skip what was
\* delivered since the checkpoint, or the stream's start.
LEMMA FallBackHeard ==
  ASSUME SteppedInv, HeardInv, FallBackToEager
  PROVE  HeardInv'
<1> DEFINE n == parser.events_delivered
           base == Since(parser)
           k == n - base
           sig == SubSeq(delivered, base + 1, Len(delivered))
           b == Origin(parser)
           line == parser.doc_start_line
           fresh == [NewEager EXCEPT !.evt_base = base, !.skip_n = k, !.skip_sig = sig,
                                     !.doc_start_line = line]
<1>1. /\ WholeInv /\ WholeInv' /\ parser \in ParserRecord /\ parser.incremental /\ FallBack
      /\ open' = open /\ open \in Seq(Stream!Level)
  BY WholeNextInv DEF SteppedInv, WholeNext, WholeInv, Inv, Kept, FallBackToEager, FallBack, Stepping
<1>2. ~parser'.incremental
  BY <1>1 DEF FallBack, ParserRecord
<1>3. /\ n \in Nat /\ base \in Nat /\ base <= n /\ delivered \in Seq(Stream!Event)
      /\ Len(delivered) = n /\ Leads(b, delivered, base, n, open) /\ line \in Nat
  <2>1. n \in Nat /\ parser.ckpt \in Checkpoint /\ line \in Nat
    BY <1>1 DEF ParserRecord
  <2>2. delivered \in Seq(Stream!Event) /\ Len(delivered) = n /\ Limits(parser)
    BY <1>1 DEF WholeInv, EagerWaits, History, Inv, Kept
  <2>3. Leads(b, delivered, base, Len(delivered), open)
    BY <1>1 DEF HeardInv, Delivered
  <2> HIDE DEF n, b
  <2>4. base \in Nat /\ base <= n
    BY <2>1, <2>2 DEF Limits, Checkpoint, Since, n
  <2> HIDE DEF base
  <2> QED BY <2>1, <2>2, <2>3, <2>4
<1> HIDE DEF n, b
<1>4. /\ k \in Nat /\ k + base = n /\ sig \in Seq(Stream!Event) /\ Len(sig) = k
      /\ \A j \in 1..k : sig[j] = delivered[j + base]
  <2>1. k \in Nat /\ k + base = n
    BY <1>3
  <2> HIDE DEF base
  <2>2. /\ sig \in Seq(Stream!Event) /\ Len(sig) = k
        /\ \A j \in 1..k : sig[j] = delivered[j + base]
    BY <1>3
  <2> QED BY <2>1, <2>2
<1> HIDE DEF base, k, sig, line
<1>5. k = 0 => b = open
  <2>1. base = n => b = open
    BY <1>3, LeadsEnds
  <2> QED BY <1>3, <1>4, <2>1
<1>6. Leads(b, sig, 0, k, open)
  <2>1. Leads(b, delivered, 0 + base, k + base, open)
    BY <1>3, <1>4
  <2>2. 0 <= k /\ \A j \in (0 + 1)..k : sig[j] = delivered[j + base]
    BY <1>4
  <2> QED BY <1>3, <1>4, <2>1, <2>2, LeadsBack
<1>7. /\ fresh \in EagerRecord /\ fresh.calls = <<>> /\ fresh.events = <<>> /\ fresh.cursor = 0
      /\ ~fresh.doc_open /\ ~fresh.stream_ended /\ ~fresh.stream_started
      /\ fresh.skip_n = k /\ fresh.skip_sig = sig /\ fresh.skip_got = <<>>
  <2> DEFINE q == NewEager
  <2>1. /\ q \in EagerRecord /\ q.calls = <<>> /\ q.events = <<>> /\ q.cursor = 0
        /\ ~q.doc_open /\ ~q.stream_ended /\ ~q.stream_started /\ q.skip_got = <<>>
    BY NewEagerType DEF NewEager
  <2> HIDE DEF q
  <2>2. fresh = [q EXCEPT !.evt_base = base, !.skip_n = k, !.skip_sig = sig,
                          !.doc_start_line = line]
    BY DEF q
  <2> HIDE DEF fresh
  <2> QED BY <1>3, <1>4, <2>1, <2>2 DEF EagerRecord
<1> HIDE DEF fresh
<1>8. eager' \in EagerRecord
  BY <1>1 DEF WholeInv, EagerWaits, AtRest, Steady
<1>9. /\ eager'.calls = <<>> /\ eager'.events = <<>> /\ eager'.cursor = 0
      /\ ~eager'.doc_open /\ ~eager'.stream_ended
      /\ eager'.skip_n = k /\ eager'.skip_sig = sig /\ eager'.skip_got = <<>>
      /\ b = IF eager'.stream_started THEN <<"STREAM">> ELSE <<"BEGIN">>
  <2>1. eager' = Restarted(base)
    BY DEF FallBackToEager, base, Since
  <2>2. fresh = [NewEager EXCEPT !.evt_base = base,
                                 !.skip_n = n - base,
                                 !.skip_sig = SubSeq(delivered, base + 1, Len(delivered)),
                                 !.doc_start_line = parser.doc_start_line]
    BY DEF fresh, k, sig, line, n
  <2>3. CASE parser.ckpt.set
    <3> DEFINE s == Rescan(saved.scanner)
               c == saved.token
    <3>1. eager' = [fresh EXCEPT !.scanner = s, !.current = c, !.have_token = TRUE,
                                 !.stream_started = TRUE]
      BY <2>1, <2>2, <2>3 DEF Restarted, n
    <3> HIDE DEF s, c
    <3>2. b = <<"STREAM">>
      BY <2>3 DEF b, Origin
    <3> QED BY <1>7, <3>1, <3>2 DEF EagerRecord
  <2>4. CASE ~parser.ckpt.set
    <3> DEFINE s == Rescan(NewScanner)
    <3>1. eager' = [fresh EXCEPT !.scanner = s]
      BY <2>1, <2>2, <2>4 DEF Restarted, n
    <3> HIDE DEF s
    <3>2. b = <<"BEGIN">>
      BY <2>4 DEF b, Origin
    <3> QED BY <1>7, <3>1, <3>2 DEF EagerRecord
  <2> QED BY <2>3, <2>4
<1>10. Joins(eager', open, b)
  <2>1. b \in Seq(Stream!Level) /\ Len(<<>>) = 0
    BY <1>3, LeadsEnds
  <2>2. Leads(b, <<>>, 0, 0, b)
    BY <2>1, LeadsNowhere
  <2>3. Leads(b, eager'.skip_got, 0, Len(eager'.skip_got), b)
    BY <1>9, <2>1, <2>2
  <2>4. Leads(b, eager'.skip_sig, 0, Len(eager'.skip_sig), open)
    BY <1>4, <1>6, <1>9
  <2> QED BY <1>5, <1>9, <2>3, <2>4 DEF Joins
<1>11. Known(eager', open)
  <2> DEFINE q == eager'
  <2> HIDE DEF q
  <2>1. Known(q, open)
    BY <1>8, <1>9, <1>10, NewKnown DEF q
  <2> QED BY <2>1 DEF q
<1>12. Known(eager, open)'
  BY <1>1, <1>11
<1> QED BY <1>2, <1>12 DEF HeardInv

-----------------------------------------------------------------------------
(***************************************************************************)
(* After the fallback: between its calls the eager parser hands out what   *)
(* it has queued.                                                          *)
(***************************************************************************)

\* All that what is known of the eager parser depends on.
SameWay(y, p) ==
  /\ y.calls = p.calls /\ y.events = p.events /\ y.doc_open = p.doc_open
  /\ y.stream_started = p.stream_started /\ y.stream_ended = p.stream_ended

\* And what is left to hand out.
SameState(y, p) ==
  /\ y.cursor = p.cursor /\ y.skip_n = p.skip_n /\ y.skip_sig = p.skip_sig
  /\ y.skip_got = p.skip_got
  /\ y.status = p.status /\ y.starved = p.starved /\ y.stop_status = p.stop_status

\* Two records that differ in what the caller has taken are at the same place of the grammar.
LEMMA SameRest ==
  ASSUME NEW y, NEW p, SameWay(y, p)
  PROVE  /\ Word(y) = Word(p) /\ Rest(y) = Rest(p)
         /\ \A a : (Inside(a, p) => Inside(a, y)) /\ (Surrounding(a, p) => Surrounding(a, y))
<1>1. Word(y) = Word(p) /\ Top(y) = Top(p) /\ y.calls = p.calls /\ y.doc_open = p.doc_open
  BY DEF Word, Top, SameWay
<1>2. At(y, {"DOC_CONTENT"}) <=> At(p, {"DOC_CONTENT"})
  BY <1>1 DEF At
<1>3. Rest(y) = Rest(p)
  BY <1>1, <1>2 DEF Rest, SameWay
<1>4. \A m : Begins(y, m) = Begins(p, m)
  BY <1>1 DEF Begins
<1> SUFFICES ASSUME NEW a
             PROVE  (Inside(a, p) => Inside(a, y)) /\ (Surrounding(a, p) => Surrounding(a, y))
  BY <1>1, <1>3
<1>5. InPlace(a, p) => InPlace(a, y)
  BY <1>1, <1>4 DEF InPlace
<1>6. Inside(a, p) => Inside(a, y)
  BY <1>1, <1>5 DEF Inside, SameWay
<1>7. Surrounding(a, p) => Surrounding(a, y)
  BY <1>1, <1>2, <1>3 DEF Surrounding, SameWay
<1> QED BY <1>6, <1>7

\* What is known of one is known of the other.
LEMMA SameKnown ==
  ASSUME NEW y, NEW p, SameWay(y, p), SameState(y, p), NEW levels, Known(p, levels)
  PROVE  Known(y, levels)
<1>1. PICK a : Heard(a, p) /\ Joins(p, levels, a)
  BY DEF Known
<1>2. Joins(y, levels, a)
  BY <1>1 DEF Joins, SameState
<1>3. Told(a, p) => Told(a, y)
  BY SameRest DEF Told, Going, SameState
<1>4. Heard(a, y)
  BY <1>1, <1>3, SameRest DEF Heard, SameWay, SameState
<1> QED BY <1>2, <1>4 DEF Known, SameWay, SameState

\* The event delivered is the next one queued: it is accepted.
LEMMA EagerDeliverHeard ==
  ASSUME SteppedInv, HeardInv, EagerDeliver
  PROVE  /\ HeardInv'
         /\ errors = 0 => Last(delivered') \in Stream!Accepts(open)
<1> DEFINE k == eager.cursor
           n == Len(eager.events)
           e == eager.events[k + 1].type
           r == [eager EXCEPT !.cursor = k + 1]
<1>1. /\ ~parser.incremental /\ parser' = parser /\ eager.calls = <<>> /\ k < n
      /\ open' = Stream!After(open, e) /\ eager' = r /\ errors' = errors
      /\ delivered' = Append(delivered, e)
  BY DEF EagerDeliver, EagerCalled, Between
<1>2. WholeInv
  BY DEF SteppedInv
<1>3. AtRest(eager) /\ eager \in EagerRecord /\ delivered \in Seq(Stream!Event)
  BY <1>2 DEF WholeInv, EagerWaits, AtRest, Steady, History
<1>4. k \in Nat /\ n \in Nat /\ eager.events \in Seq(EagerEvent) /\ Len(Word(eager)) = n
  <2>1. eager.events \in Seq(EagerEvent) /\ eager.cursor \in Nat
    BY <1>3 DEF EagerRecord
  <2>2. Word(eager) = Types(eager.events)
    BY DEF Word
  <2> QED BY <2>1, <2>2, TypesOf
<1>5. Word(eager)[k + 1] = e /\ e \in Stream!Event
  <2>1. k + 1 \in 1..n
    BY <1>1, <1>4
  <2>2. eager.events[k + 1] \in EagerEvent
    BY <1>4, <2>1
  <2>3. Word(eager) = [i \in 1..n |-> eager.events[i].type]
    BY DEF Word, Types
  <2> HIDE DEF k, n
  <2> QED BY <2>1, <2>2, <2>3 DEF EagerEvent
<1>6. Last(delivered') = e
  <2> HIDE DEF e
  <2>1. Last(Append(delivered, e)) = e
    BY <1>3, <1>5 DEF Last
  <2> QED BY <1>1, <2>1
<1>7. ASSUME errors = 0 PROVE e \in Stream!Accepts(open) /\ Known(r, open')
  <2>1. Healthy(eager) /\ Known(eager, open)
    BY <1>1, <1>2, <1>7 DEF HeardInv, WholeInv, EagerWaits
  <2>2. eager.skip_n = 0
    <3>1. eager.skip_n \in Nat
      BY <1>3 DEF EagerRecord
    <3>2. k # n
      BY <1>1, <1>4
    <3> QED BY <1>1, <2>1, <3>1, <3>2 DEF Healthy
  <2>3. Leads(open, Word(eager), k, n, Rest(eager))
    BY <1>1, <2>1, <2>2 DEF Known, Heard, Joins
  <2>4. /\ e \in Stream!Accepts(open)
        /\ Leads(Stream!After(open, e), Word(eager), k + 1, n, Rest(eager))
    <3> HIDE DEF k, n, e
    <3> QED BY <1>1, <1>4, <1>5, <2>3, LeadsFirst
  <2>5. SameWay(r, eager) /\ r.cursor = k + 1 /\ r.skip_n = 0
    BY <1>3, <2>2 DEF SameWay, EagerRecord
  <2> HIDE DEF r, e, k
  <2>6. Heard(open', r)
    BY <1>1, <2>4, <2>5, SameRest DEF Heard, SameWay
  <2>7. Joins(r, open', open')
    BY <2>5 DEF Joins
  <2> QED BY <2>4, <2>5, <2>6, <2>7 DEF Known
<1> HIDE DEF r, e
<1> QED BY <1>1, <1>6, <1>7 DEF HeardInv

\* There is none left, and the stream is over: it is complete.
LEMMA EagerEndHeard ==
  ASSUME SteppedInv, HeardInv, EagerEnd
  PROVE  HeardInv' /\ (errors = 0 => open = <<"END">>)
<1>1. /\ ~parser.incremental /\ parser' = parser /\ eager.calls = <<>>
      /\ eager.cursor = Len(eager.events) /\ eager.stream_ended
      /\ open' = open /\ eager' = eager /\ errors' = errors
  BY DEF EagerEnd, EagerCalled, Between
<1>2. eager \in EagerRecord
  BY DEF SteppedInv, WholeInv, EagerWaits, AtRest, Steady
<1>3. HeardInv'
  BY <1>1 DEF HeardInv
<1>4. ASSUME errors = 0 PROVE open = <<"END">>
  <2>1. Known(eager, open)
    BY <1>1, <1>4 DEF HeardInv
  <2>2. eager.skip_n = 0
    <3>1. eager.skip_n \in Nat
      BY <1>2 DEF EagerRecord
    <3> QED BY <1>1, <2>1, <3>1 DEF Known
  <2>3. Leads(open, Word(eager), eager.cursor, Len(eager.events), Rest(eager))
    BY <1>1, <2>1, <2>2 DEF Known, Heard, Joins
  <2>4. Rest(eager) = <<"END">>
    BY <1>1 DEF Rest, At
  <2>5. eager.cursor \in Nat /\ eager.cursor <= eager.cursor
    BY <1>2 DEF EagerRecord
  <2> QED BY <1>1, <2>3, <2>4, <2>5, LeadsEnds
<1> QED BY <1>3, <1>4

\* More text changes nothing.
LEMMA EagerMoreTextHeard ==
  ASSUME SteppedInv, HeardInv, EagerMoreText, ~parser.incremental
  PROVE  HeardInv'
<1>1. /\ parser' = parser /\ open' = open /\ errors' = errors
  BY DEF EagerMoreText, vars
<1>2. eager \in EagerRecord
  BY DEF SteppedInv, WholeInv, EagerWaits, AtRest, Steady
<1>3. PICK s : eager' = [eager EXCEPT !.scanner = s]
  BY DEF EagerMoreText
<1> DEFINE r == [eager EXCEPT !.scanner = s]
<1>4. SameWay(r, eager) /\ SameState(r, eager)
  BY <1>2 DEF EagerRecord, SameWay, SameState
<1> HIDE DEF r
<1>5. Known(eager, open) => Known(r, open)
  BY <1>4, SameKnown
<1>6. eager' = r
  BY <1>3 DEF r
<1> QED BY <1>1, <1>5, <1>6 DEF HeardInv

-----------------------------------------------------------------------------
(***************************************************************************)
(* The next document, from its first step to the end of the call.          *)
(***************************************************************************)

\* A call begins where the events of the last one end.
LEMMA StartHeard ==
  ASSUME NEW q \in EagerRecord, q.calls = <<>>, q.cursor = Len(q.events), ~q.stream_ended,
         NEW levels, Known(q, levels)
  PROVE  Known(StartChunk(q), levels)
<1> DEFINE r == StartChunk(q)
           n == Len(q.events)
           b == q.evt_base + n
           f == NewFrame("STREAM")
           calls == <<f>>
           none == <<>>
<1>1. n \in Nat /\ b \in Nat
  BY DEF EagerRecord
<1>2. PICK a : Leads(a, Word(q), n, n, Rest(q)) /\ Joins(q, levels, a)
  BY DEF Known, Heard
<1>3. a = Rest(q) /\ a \in Seq(Stream!Level)
  <2> HIDE DEF n
  <2> QED BY <1>1, <1>2, LeadsEnds
<1>4. f.at = "STREAM"
  BY DEF NewFrame
<1> HIDE DEF f
<1>5. calls # <<>> /\ Len(calls) = 1 /\ Last(calls) = f
  BY DEF Last
<1>6. /\ r.calls = calls /\ r.events = none
      /\ r.doc_open = q.doc_open /\ r.stream_started = q.stream_started
      /\ r.stream_ended = q.stream_ended
      /\ r.skip_n = q.skip_n /\ r.skip_sig = q.skip_sig /\ r.skip_got = q.skip_got
  <2> HIDE DEF calls, none
  <2>1. r = [q EXCEPT !.evt_base = b, !.events = none, !.cursor = 0, !.calls = calls]
    BY DEF StartChunk, calls, f, none, b, n
  <2> HIDE DEF r, b
  <2> QED BY <2>1 DEF EagerRecord
<1> HIDE DEF r
<1>7. Len(Word(r)) = 0
  <2>1. none \in Seq(EagerEvent) /\ Len(none) = 0
    OBVIOUS
  <2>2. Word(r) = Types(none)
    BY <1>6 DEF Word
  <2> HIDE DEF none
  <2> QED BY <2>1, <2>2, TypesOf
<1> HIDE DEF calls
<1>8. ~At(r, {"DOC_CONTENT"}) /\ ~At(q, {"DOC_CONTENT"})
  <2>1. Top(r).at = "STREAM"
    BY <1>4, <1>5, <1>6 DEF Top
  <2> QED BY <2>1 DEF At
<1>9. Rest(r) = a
  BY <1>3, <1>6, <1>8 DEF Rest
<1>10. Leads(a, Word(r), 0, Len(Word(r)), Rest(r))
  BY <1>3, <1>7, <1>9, LeadsNowhere
<1>11. Surrounding(a, r)
  <2>1. Len(r.calls) < 3
    <3>1. Len(r.calls) = 1
      BY <1>5, <1>6
    <3> QED BY <3>1
  <2>2. ~r.stream_ended
    BY <1>6
  <2> QED BY <1>8, <1>10, <2>1, <2>2 DEF Surrounding
<1>12. Heard(a, r) /\ r.calls # <<>>
  BY <1>5, <1>6, <1>11 DEF Heard, Told
<1>13. Joins(r, levels, a)
  BY <1>2, <1>6 DEF Joins
<1> QED BY <1>12, <1>13 DEF Known, r

\* The places of what is appended.
LEMMA OneAfterOther ==
  ASSUME NEW S, NEW s \in Seq(S), NEW t \in Seq(S)
  PROVE  /\ s \o t \in Seq(S) /\ Len(s \o t) = Len(s) + Len(t)
         /\ Len(s) + Len(t) = Len(t) + Len(s)
         /\ \A j \in 1..Len(s) : (s \o t)[j] = s[j]
         /\ \A j \in 1..Len(t) : (s \o t)[j + Len(s)] = t[j]
OBVIOUS

\* The events skipped are the first that were queued.
LEMMA SkipHeard ==
  ASSUME NEW r \in EagerRecord, r.calls = <<>>, r.status = "OK",
         NEW a, Leads(a, Word(r), 0, Len(r.events), Rest(r)),
         NEW levels, Joins(r, levels, a), r.skip_n > 0,
         NEW n \in Nat, n <= Len(r.events), n <= r.skip_n,
         Matches(Skip(r, n))
  PROVE  Known(Skip(r, n), levels)
<1> DEFINE t == SubSeq(Word(r), 1, n)
           old == r.skip_got
           got == old \o t
           k == r.skip_n - n
           s == Skip(r, n)
           d == Len(old)
<1>1. /\ r.events \in Seq(EagerEvent) /\ old \in Seq(Stream!Event) /\ k \in Nat
      /\ Word(r) \in Seq(Stream!Event) /\ Len(Word(r)) = Len(r.events) /\ d \in Nat
  <2>1. r.events \in Seq(EagerEvent) /\ old \in Seq(Stream!Event) /\ k \in Nat
    BY DEF EagerRecord
  <2>2. Word(r) \in Seq(Stream!Event) /\ Len(Word(r)) = Len(r.events)
    BY <2>1, TypesOf DEF Word
  <2> QED BY <2>1, <2>2
<1>2. /\ Len(t) = n /\ \A j \in 1..n : t[j] = Word(r)[j]
  <2> DEFINE w == Word(r)
  <2> HIDE DEF w
  <2>1. Len(SubSeq(w, 1, n)) = n /\ \A j \in 1..n : SubSeq(w, 1, n)[j] = w[j]
    BY <1>1 DEF w
  <2> QED BY <2>1 DEF w
<1>3. t \in Seq(Stream!Event)
  <2> DEFINE w == Word(r)
  <2> HIDE DEF w
  <2>1. SubSeq(w, 1, n) \in Seq(Stream!Event)
    BY <1>1 DEF w
  <2> QED BY <2>1 DEF w
<1>4. s = [r EXCEPT !.cursor = n, !.skip_n = k, !.skip_got = got]
  BY DEF Skip, Word
<1> HIDE DEF t, k
<1>5. /\ got \in Seq(Stream!Event) /\ Len(got) = d + n /\ d + n = n + d
      /\ \A j \in 1..d : got[j] = old[j]
      /\ \A j \in 1..n : got[j + d] = t[j]
  <2> DEFINE S == Stream!Event
  <2> HIDE DEF S
  <2>1. /\ old \o t \in Seq(S) /\ Len(old \o t) = Len(old) + Len(t)
        /\ Len(old) + Len(t) = Len(t) + Len(old)
        /\ \A j \in 1..Len(old) : (old \o t)[j] = old[j]
        /\ \A j \in 1..Len(t) : (old \o t)[j + Len(old)] = t[j]
    BY <1>1, <1>3, OneAfterOther DEF S
  <2> QED BY <1>2, <2>1 DEF S
<1> HIDE DEF got, d
<1>6. /\ SameWay(s, r) /\ s.cursor = n /\ s.skip_n = k /\ s.skip_got = got
      /\ s.skip_sig = r.skip_sig /\ s.calls = <<>> /\ s.status = "OK"
      /\ s.stream_ended = r.stream_ended
  <2> HIDE DEF s
  <2> QED BY <1>1, <1>4 DEF EagerRecord, SameWay
<1> HIDE DEF s
<1>7. PICK c : Leads(a, Word(r), 0, n, c) /\ Leads(c, Word(r), n, Len(r.events), Rest(r))
  <2>1. 0 <= n /\ Len(r.events) \in Nat
    BY <1>1
  <2> QED BY <2>1, LeadsParts
<1>8. PICK b : /\ Leads(b, old, 0, d, a)
               /\ Leads(b, r.skip_sig, 0, Len(r.skip_sig), levels)
  BY DEF Joins, d
<1>9. Leads(b, got, 0, d + n, c)
  <2>1. Leads(b, got, 0, d, a)
    BY <1>1, <1>5, <1>8, LeadsAlike
  <2>2. Leads(a, got, 0 + d, n + d, c)
    <3>1. 0 <= n /\ \A j \in (0 + 1)..n : got[j + d] = Word(r)[j]
      BY <1>2, <1>5
    <3> QED BY <1>1, <1>7, <3>1, LeadsMoved
  <2>3. 0 <= d /\ d <= d + n /\ 0 + d = d /\ n + d = d + n /\ d + n \in Nat
    BY <1>1
  <2>4. Leads(a, got, d, d + n, c)
    BY <2>2, <2>3
  <2> QED BY <1>1, <2>1, <2>3, <2>4, LeadsThrough
<1>10. Heard(c, s)
  BY <1>6, <1>7, SameRest DEF Heard, SameWay
<1>11. CASE k = 0
  <2>1. got = r.skip_sig
    BY <1>6, <1>11 DEF Matches, s
  <2>2. Leads(b, got, 0, d + n, levels)
    BY <1>5, <1>8, <2>1
  <2>3. c = levels
    <3>1. d + n \in Nat /\ 0 <= d + n
      BY <1>1
    <3> QED BY <1>9, <2>2, <3>1, LeadsOnce
  <2>4. Joins(s, levels, c)
    BY <1>6, <1>11, <2>3 DEF Joins
  <2> QED BY <1>6, <1>10, <1>11, <2>4 DEF Known, s
<1>12. CASE k # 0
  <2>1. ~s.stream_ended
    BY <1>6, <1>12 DEF Matches, s
  <2>2. Joins(s, levels, c)
    BY <1>5, <1>6, <1>8, <1>9, <1>12 DEF Joins
  <2> QED BY <1>10, <2>1, <2>2 DEF Known, s
<1> QED BY <1>11, <1>12

\* Unless those skipped are other ones than expected, the record is as after
\* skipping them.
LEMMA SkipChecked ==
  ASSUME NEW r \in EagerRecord, NEW n \in Nat, n <= Len(r.events), n <= r.skip_n,
         CheckSkipped(Skip(r, n)).status = "OK"
  PROVE  /\ CheckSkipped(Skip(r, n)) = Skip(r, n) /\ Matches(Skip(r, n))
         /\ SameWay(Skip(r, n), r) /\ Skip(r, n).cursor = n
         /\ Skip(r, n).skip_n = r.skip_n - n
<1> DEFINE t == SubSeq(Types(r.events), 1, n)
           got == r.skip_got \o t
           k == r.skip_n - n
           s == Skip(r, n)
           m == [s EXCEPT !.stream_ended = TRUE, !.error_msg = "mismatch"]
           f == Fail(m, "ERR_PARSE")
<1>1. /\ r.events \in Seq(EagerEvent) /\ r.skip_got \in Seq(Stream!Event) /\ k \in Nat
  BY DEF EagerRecord
<1>2. t \in Seq(Stream!Event)
  <2> DEFINE w == Types(r.events)
  <2>1. w \in Seq(Stream!Event) /\ Len(w) = Len(r.events)
    BY <1>1, TypesOf
  <2> HIDE DEF w
  <2>2. SubSeq(w, 1, n) \in Seq(Stream!Event)
    BY <2>1
  <2> QED BY <2>2 DEF w
<1>3. s = [r EXCEPT !.cursor = n, !.skip_n = k, !.skip_got = got]
  BY DEF Skip
<1> HIDE DEF t
<1>4. got \in Seq(Stream!Event)
  BY <1>1, <1>2
<1> HIDE DEF k, got, s
<1>5. /\ s \in EagerRecord /\ SameWay(s, r) /\ s.cursor = n /\ s.skip_n = k
  BY <1>1, <1>3, <1>4 DEF EagerRecord, SameWay
<1>6. f.status = "ERR_PARSE"
  BY <1>5 DEF Fail, EagerRecord
<1> HIDE DEF f, m
<1>7. CheckSkipped(s) = IF Matches(s) THEN s ELSE f
  BY DEF CheckSkipped, f, m
<1>8. CheckSkipped(s).status = "OK"
  BY DEF s
<1>9. Matches(s) /\ CheckSkipped(s) = s
  BY <1>6, <1>7, <1>8
<1> QED BY <1>5, <1>9 DEF s, k

\* A call that ends knows where it is as well as the document parsed in it.
LEMMA ChunkEndHeard ==
  ASSUME NEW r \in EagerRecord, r.calls = <<>>, ~r.starved, r.cursor = 0,
         r.status = "OK" => r.stop_status = "NONE",
         NEW a, Told(a, r), NEW levels, Joins(r, levels, a),
         EndChunk(r).status = "OK"
  PROVE  Known(EndChunk(r), levels)
<1> DEFINE e == EndChunk(r)
           c == CheckEagerDepth(r)
<1>1. r.status = "OK" /\ r.stop_status = "NONE"
  BY ChunkEnds
<1>2. /\ r.events \in Seq(EagerEvent) /\ Len(Word(r)) = Len(r.events)
      /\ Len(r.events) \in Nat /\ r.skip_n \in Nat
  <2>1. r.events \in Seq(EagerEvent) /\ r.skip_n \in Nat
    BY DEF EagerRecord
  <2> QED BY <2>1, TypesOf DEF Word
<1>3. Leads(a, Word(r), 0, Len(r.events), Rest(r))
  <2>1. ~Inside(a, r)
    <3>1. ~(Len(<<>>) >= 3)
      OBVIOUS
    <3> QED BY <3>1 DEF Inside
  <2>2. Surrounding(a, r)
    BY <1>1, <2>1 DEF Told, Going
  <2> QED BY <1>2, <2>2 DEF Surrounding
<1>4. e = SkipDelivered(r)
  <2>1. c = r \/ c.status # "OK"
    BY <1>1, DepthChecked
  <2>2. e = SkipIfOk(c)
    BY <1>1 DEF EndChunk
  <2>3. e.status = "OK"
    OBVIOUS
  <2> HIDE DEF c, e
  <2>4. c = r
    BY <2>1, <2>2, <2>3 DEF SkipIfOk
  <2> QED BY <1>1, <2>2, <2>4 DEF SkipIfOk
<1> HIDE DEF c
<1>5. Heard(a, r)
  BY <1>3 DEF Heard
<1>6. CASE r.skip_n = 0
  <2> DEFINE n == r.skip_n
             s == Skip(r, n)
  <2>1. e = r \/ e = CheckSkipped(s)
    BY <1>4, <1>6 DEF SkipDelivered
  <2>2. CASE e = r
    <3>1. Known(r, levels)
      BY <1>5, <1>6 DEF Known
    <3> QED BY <2>2, <3>1
  <2>3. CASE e = CheckSkipped(s)
    <3>1. CheckSkipped(s).status = "OK"
      BY <2>3
    <3>2. n \in Nat /\ n <= Len(r.events) /\ n <= r.skip_n /\ r.skip_n - n = 0
      BY <1>2, <1>6
    <3>3. e = s /\ SameWay(s, r) /\ s.cursor = 0 /\ s.skip_n = 0
      <4> HIDE DEF e
      <4> QED BY <1>6, <2>3, <3>1, <3>2, SkipChecked
    <3> HIDE DEF s, n
    <3>4. Heard(a, s)
      BY <1>3, <3>3, SameRest DEF Heard, SameWay
    <3>5. Joins(s, levels, a)
      BY <1>6, <3>3 DEF Joins
    <3>6. Known(s, levels)
      BY <3>3, <3>4, <3>5 DEF Known
    <3> QED BY <3>3, <3>6
  <2> QED BY <2>1, <2>2, <2>3
<1>7. CASE r.skip_n # 0
  <2> DEFINE n == IF r.skip_n <= Len(r.events) THEN r.skip_n ELSE Len(r.events)
  <2>1. e = CheckSkipped(Skip(r, n))
    <3>1. CASE r.skip_n <= Len(r.events)
      BY <1>4, <1>7, <3>1 DEF SkipDelivered
    <3>2. CASE ~(r.skip_n <= Len(r.events))
      BY <1>4, <1>7, <3>2 DEF SkipDelivered
    <3> QED BY <3>1, <3>2
  <2>2. n \in Nat /\ n <= r.skip_n /\ n <= Len(r.events) /\ r.skip_n > 0
    BY <1>2, <1>7
  <2> HIDE DEF n
  <2>3. CheckSkipped(Skip(r, n)).status = "OK"
    BY <2>1
  <2>4. CheckSkipped(Skip(r, n)) = Skip(r, n) /\ Matches(Skip(r, n))
    BY <2>2, <2>3, SkipChecked
  <2>5. Known(Skip(r, n), levels)
    BY <1>1, <1>3, <2>2, <2>4, SkipHeard
  <2> QED BY <2>1, <2>4, <2>5
<1> QED BY <1>6, <1>7

\* A step of a document keeps what is known, unless the call fails.
LEMMA DocumentStepHeard ==
  ASSUME NEW p, AtRest(p), p.calls # <<>>, Healthy(p), NEW levels, Known(p, levels),
         ~EagerStep(p).starved, ChunkEnded(EagerStep(p)).status = "OK"
  PROVE  Known(ChunkEnded(EagerStep(p)), levels)
<1> DEFINE r == EagerStep(p)
           e == ChunkEnded(r)
<1>1. PICK a : Told(a, p) /\ Joins(p, levels, a)
  BY DEF Known, Heard
<1>2. Busy(p) /\ (p.stop_status = "NONE" => Matched(p) /\ DocLaw(p))
  BY DEF Busy, AtRest, Healthy
<1>3. Told(a, r)
  BY <1>1, <1>2, EagerStepTold
<1>4. Parsed(p, r) /\ Stepped(p, r)
  BY ParsedStep, EagerSteps DEF AtRest
<1>5. e.status = "OK" /\ ~r.starved
  OBVIOUS
<1> HIDE DEF r
<1>6. SameCounts(p, r)
  BY <1>4, <1>5 DEF Stepped
<1>7. Joins(r, levels, a)
  BY <1>1, <1>6 DEF Joins, SameCounts
<1>8. CASE r.calls = <<>>
  <2>1. e = EndChunk(r)
    BY <1>8 DEF ChunkEnded, Between
  <2>2. r \in EagerRecord /\ r.cursor = 0 /\ (r.status = "OK" => r.stop_status = "NONE")
    BY <1>4, <1>8 DEF Parsed, Steady
  <2>3. EndChunk(r).status = "OK"
    BY <1>5, <2>1
  <2>4. Known(EndChunk(r), levels)
    BY <1>3, <1>5, <1>7, <1>8, <2>2, <2>3, ChunkEndHeard
  <2> QED BY <2>1, <2>4 DEF r
<1>9. CASE r.calls # <<>>
  <2>1. e = r
    BY <1>9 DEF ChunkEnded, Between
  <2>2. Known(r, levels)
    BY <1>3, <1>7, <1>9 DEF Known, Heard
  <2> QED BY <2>1, <2>2 DEF r
<1> QED BY <1>8, <1>9

\* A step of a document: where it begins, what it reaches, and what is left
\* of that when the call returns.
DocBegin == ChunkBegun(eager)
DocReach == EagerStep(DocBegin)
DocLeave == ChunkEnded(DocReach)

\* Unless it fails or has to wait for more text, it starts and ends well.
LEMMA DocumentGoesOn ==
  ASSUME SteppedInv, HeardInv, EagerDocument, ~DocLeave.starved, errors' = 0
  PROVE  /\ AtRest(DocBegin) /\ DocBegin.calls # <<>> /\ Healthy(DocBegin)
         /\ Known(DocBegin, open)
         /\ ~DocReach.starved /\ Parsed(DocBegin, DocReach)
         /\ DocLeave \in EagerRecord /\ DocLeave.status = "OK"
         /\ eager' = Returned(DocLeave) /\ open' = open /\ parser' = parser
         /\ errors = 0 /\ Known(eager, open) /\ Healthy(eager)
<1> DEFINE p == DocBegin
           r == DocReach
           e == DocLeave
           q == Returned(e)
<1>1. /\ ~parser.incremental /\ EagerFinish(e)
      /\ eager.calls = <<>> => eager.cursor = Len(eager.events) /\ ~eager.stream_ended
  BY DEF EagerDocument, EagerCalled, Between, DocBegin, DocReach, DocLeave
<1>2. AtRest(eager) /\ eager \in EagerRecord /\ (errors = 0 => Healthy(eager)) /\ History
  BY <1>1 DEF SteppedInv, WholeInv, EagerWaits, AtRest, Steady
<1>3. /\ eager' = q /\ result' = (IF e.status = "OK" THEN "BUSY" ELSE e.status) /\ CountError
      /\ parser' = parser /\ open' = open
  BY <1>1 DEF EagerFinish, Returned
<1>4. errors = 0 /\ Healthy(eager) /\ Known(eager, open) /\ result' \notin Errors
  <2>1. errors = 0 /\ result' \notin Errors
    BY <1>2, <1>3, ErrorsCounted DEF History
  <2> QED BY <1>1, <1>2, <2>1 DEF HeardInv
<1>5. AtRest(p) /\ p.calls # <<>> /\ Healthy(p) /\ Known(p, open)
  <2>1. CASE eager.calls = <<>>
    <3> DEFINE c == StartChunk(eager)
    <3>1. AtRest(c) /\ c.calls # <<>> /\ Healthy(c)
      BY <1>1, <1>2, <1>4, <2>1, StartWaiting
    <3>2. Known(c, open)
      BY <1>1, <1>2, <1>4, <2>1, StartHeard
    <3>3. p = c
      BY <2>1 DEF DocBegin, ChunkBegun, Between
    <3> HIDE DEF p, c
    <3> QED BY <3>1, <3>2, <3>3
  <2>2. CASE eager.calls # <<>>
    <3>1. p = eager
      BY <2>2 DEF DocBegin, ChunkBegun, Between
    <3> HIDE DEF p
    <3> QED BY <1>2, <1>4, <2>2, <3>1
  <2> QED BY <2>1, <2>2
<1>6. ~r.starved
  <2>1. ASSUME r.starved PROVE FALSE
    <3>1. e = r \/ e = EndChunk(r)
      BY DEF DocLeave, ChunkEnded
    <3>2. EndChunk(r) = r
      BY <2>1 DEF EndChunk
    <3> QED BY <2>1, <3>1, <3>2
  <2> QED BY <2>1
<1>7. Parsed(p, r)
  <2>1. Parsed(p, EagerStep(p))
    BY <1>5, <1>6, ParsedStep DEF DocReach
  <2> QED BY <2>1 DEF DocReach
<1>8. e \in EagerRecord
  <2> HIDE DEF r
  <2>1. r \in EagerRecord /\ ~r.starved /\ r.cursor = 0
    BY <1>6, <1>7 DEF Parsed, Steady
  <2>2. CASE r.calls = <<>>
    <3>1. EndChunk(r) \in EagerRecord
      BY <2>1, <2>2, ChunkEnds DEF ChunkKept
    <3> QED BY <2>2, <3>1 DEF DocLeave, ChunkEnded, Between, r
  <2>3. CASE r.calls # <<>>
    BY <2>1, <2>3 DEF DocLeave, ChunkEnded, Between, r
  <2> QED BY <2>2, <2>3
<1>9. e.status = "OK"
  <2>1. e.status \in {"OK", "ERR_PARSE", "ERR_SCAN", "ERR_LIMIT"}
    BY <1>8 DEF EagerRecord
  <2> QED BY <1>3, <1>4, <2>1 DEF Errors
<1> QED BY <1>3, <1>4, <1>5, <1>6, <1>7, <1>8, <1>9

\* So does the step of the whole parser.
LEMMA EagerDocumentHeard ==
  ASSUME SteppedInv, HeardInv, EagerDocument
  PROVE  HeardInv'
<1> DEFINE e == DocLeave
           q == Returned(e)
<1>1. ~parser.incremental /\ EagerFinish(e)
  BY DEF EagerDocument, EagerCalled, DocBegin, DocReach, DocLeave
<1>2. CASE e.starved
  <2>1. EagerMoreText
    BY <1>1, <1>2 DEF EagerFinish
  <2> QED BY <1>1, <2>1, EagerMoreTextHeard
<1>3. CASE ~e.starved
  <2>1. parser' = parser
    BY <1>1, <1>3 DEF EagerFinish
  <2>2. ASSUME errors' = 0 PROVE Known(eager, open)'
    <3>1. /\ AtRest(DocBegin) /\ DocBegin.calls # <<>> /\ Healthy(DocBegin)
          /\ Known(DocBegin, open) /\ ~DocReach.starved
          /\ e \in EagerRecord /\ e.status = "OK" /\ eager' = q /\ open' = open
      BY <1>3, <2>2, DocumentGoesOn
    <3>2. ~EagerStep(DocBegin).starved /\ ChunkEnded(EagerStep(DocBegin)).status = "OK"
      BY <3>1 DEF DocLeave, DocReach
    <3>3. Known(ChunkEnded(EagerStep(DocBegin)), open)
      BY <3>1, <3>2, DocumentStepHeard
    <3>4. Known(e, open)
      BY <3>3 DEF DocLeave, DocReach
    <3> HIDE DEF e
    <3>5. SameWay(q, e) /\ SameState(q, e)
      BY <3>1 DEF Returned, EagerRecord, SameWay, SameState
    <3>6. Known(q, open)
      BY <3>4, <3>5, SameKnown
    <3> QED BY <3>1, <3>6
  <2> QED BY <1>1, <2>1, <2>2 DEF HeardInv
<1> QED BY <1>2, <1>3

-----------------------------------------------------------------------------
(***************************************************************************)
(* The theorems.                                                           *)
(***************************************************************************)

\* Every step keeps what is known, and delivers only an event that goes on
\* with the stream.
LEMMA HeardNext ==
  ASSUME SteppedInv, HeardInv, [WholeNext]_wholeVars
  PROVE  /\ SteppedInv' /\ HeardInv'
         /\ errors = 0 /\ delivered' # delivered => Last(delivered') \in Stream!Accepts(open)
<1>1. /\ SteppedInv'
      /\ parser.incremental /\ delivered' # delivered
           => Last(delivered') \in Stream!Accepts(open)
  BY SteppedNext
<1>2. CASE IncrementalStep
  <2>1. parser.incremental
    BY <1>2, IncrementalCounts DEF SteppedInv
  <2> QED BY <1>1, <1>2, <2>1, IncrementalHeard
<1>3. CASE FallBackToEager
  <2>1. delivered' = delivered
    BY <1>3 DEF FallBackToEager
  <2> QED BY <1>1, <1>3, <2>1, FallBackHeard
<1>4. CASE EagerDeliver
  BY <1>1, <1>4, EagerDeliverHeard
<1>5. CASE EagerEnd
  <2>1. delivered' = delivered
    BY <1>5 DEF EagerEnd
  <2> QED BY <1>1, <1>5, <2>1, EagerEndHeard
<1>6. CASE EagerDocument
  <2>1. delivered' = delivered
    BY <1>6 DEF EagerDocument, EagerFinish, EagerMoreText
  <2> QED BY <1>1, <1>6, <2>1, EagerDocumentHeard
<1>7. CASE WholeCall \/ Abandon \/ UNCHANGED wholeVars
  <2>1. /\ parser' = parser /\ open' = open /\ delivered' = delivered /\ eager' = eager
        /\ errors' = errors
    BY <1>7 DEF WholeCall, Call, Abandon, wholeVars, vars
  <2>2. HeardInv'
    BY <2>1 DEF HeardInv, Delivered, Since, Origin
  <2> QED BY <1>1, <2>1, <2>2
<1> QED BY <1>2, <1>3, <1>4, <1>5, <1>6, <1>7 DEF WholeNext

\* Between any two steps of the two parsers and their caller, what was
\* delivered and what is still queued is laid out along the eager parser's
\* stack of calls (parse_stream), and what a replay has still to skip is what
\* was delivered since the checkpoint (skip_delivered).
THEOREM HeardInvariance == WholeSpec => [](SteppedInv /\ HeardInv)
<1>1. WholeInit => SteppedInv /\ HeardInv
  BY SteppedInitInv, InitHeard
<1>2. SteppedInv /\ HeardInv /\ [WholeNext]_wholeVars => SteppedInv' /\ HeardInv'
  BY HeardNext
<1> QED BY <1>1, <1>2, PTL DEF WholeSpec

\* oyl.h's well-formed stream (WholeWellFormed), of the whole parser: up to the
\* first error every event delivered continues the ones before it, whichever
\* parser it is from, wherever the eager one took over, and however many
\* documents it had to parse again and to skip for that.
THEOREM WellFormedThroughout == WholeSpec => WholeWellFormed
<1>1. SteppedInv /\ HeardInv /\ [WholeNext]_wholeVars
        => [ errors = 0 /\ delivered' # delivered
               => Last(delivered') \in Stream!Accepts(open) ]_wholeVars
  BY HeardNext
<1> QED BY <1>1, HeardInvariance, PTL DEF WholeSpec, WholeWellFormed

-----------------------------------------------------------------------------
(***************************************************************************)
(* The depth of what is delivered, for a caller who asked for the eager    *)
(* parser: what is open is what check_eager_depth counted in the list, up  *)
(* to the event delivered last.                                            *)
(***************************************************************************)

\* By how much an event changes how deep the collections nest.
Rise(e) ==
  IF e \in CollectionStarts THEN 1
  ELSE IF e \in {"MAPPING_END", "SEQUENCE_END"} THEN -1 ELSE 0

\* The stream is the first level, and no other is.
Rooted(levels) ==
  /\ Len(levels) > 0
  /\ \A i \in 1..Len(levels) : levels[i] \in {"BEGIN", "STREAM", "END"} <=> i = 1

\* The levels of a collection.
Collecting == {"SEQ", "KEY", "VALUE"}

\* Where they are.
Collections(levels) == {i \in 1..Len(levels) : levels[i] \in Collecting}

\* Their number, which is finite.
LEMMA NestingIs ==
  ASSUME NEW levels, Len(levels) \in Nat
  PROVE  /\ Stream!Nesting(levels) = Cardinality(Collections(levels))
         /\ IsFiniteSet(Collections(levels)) /\ Stream!Nesting(levels) \in Nat
<1> DEFINE n == Len(levels)
           T == Collections(levels)
<1>1. IsFiniteSet(1..n)
  BY FS_Interval
<1>2. T \in SUBSET (1..n)
  BY DEF Collections
<1> HIDE DEF n, T
<1>3. IsFiniteSet(T) /\ Cardinality(T) \in Nat
  BY <1>1, <1>2, FS_Subset, FS_CardinalityType
<1>4. Stream!Cardinality(T) = Cardinality(T)
  BY DEF Stream!Cardinality, Cardinality
<1>5. Stream!Nesting(levels) = Stream!Cardinality(T)
  BY DEF Stream!Nesting, T, Collections, Collecting
<1> QED BY <1>3, <1>4, <1>5 DEF T

\* Levels with the same collections nest alike.
LEMMA NestingAlike ==
  ASSUME NEW levels, NEW other, Len(levels) \in Nat, Len(other) = Len(levels),
         \A i \in 1..Len(levels) : levels[i] \in Collecting <=> other[i] \in Collecting
  PROVE  Stream!Nesting(other) = Stream!Nesting(levels)
<1>1. Collections(other) = Collections(levels)
  BY DEF Collections
<1> QED BY <1>1, NestingIs

\* One more level, or one less.
LEMMA NestingMore ==
  ASSUME NEW levels, NEW other, NEW n \in Nat, Len(levels) = n, Len(other) = n + 1,
         \A i \in 1..n : levels[i] \in Collecting <=> other[i] \in Collecting
  PROVE  Stream!Nesting(other)
           = Stream!Nesting(levels) + IF other[n + 1] \in Collecting THEN 1 ELSE 0
<1> DEFINE S == Collections(levels)
           T == Collections(other)
<1>1. /\ Stream!Nesting(levels) = Cardinality(S) /\ IsFiniteSet(S) /\ Cardinality(S) \in Nat
      /\ Stream!Nesting(other) = Cardinality(T)
  <2>1. Len(levels) \in Nat /\ Len(other) \in Nat
    OBVIOUS
  <2> QED BY <2>1, NestingIs
<1>2. 1..(n + 1) = (1..n) \cup {n + 1} /\ n + 1 \notin 1..n
  OBVIOUS
<1>3. n + 1 \notin S /\ T = IF other[n + 1] \in Collecting THEN S \cup {n + 1} ELSE S
  BY <1>2 DEF Collections
<1> HIDE DEF S, T
<1>4. Cardinality(S \cup {n + 1}) = Cardinality(S) + 1
  BY <1>1, <1>3, FS_AddElement
<1>5. CASE other[n + 1] \in Collecting
  BY <1>1, <1>3, <1>4, <1>5
<1>6. CASE other[n + 1] \notin Collecting
  BY <1>1, <1>3, <1>6
<1> QED BY <1>5, <1>6

\* Only the stream is open.
LEMMA NestingFlat ==
  ASSUME NEW levels, Len(levels) \in Nat, \A i \in 1..Len(levels) : levels[i] \notin Collecting
  PROVE  Stream!Nesting(levels) = 0
<1>1. Collections(levels) = {}
  BY DEF Collections
<1> QED BY <1>1, NestingIs, FS_EmptySet

\* The levels at the next point of the last one.
LEMMA ParentRooted ==
  ASSUME NEW levels \in Seq(Stream!Level), Rooted(levels),
         Stream!Top(levels) \notin {"BEGIN", "STREAM", "END"},
         NEW parent, parent = [levels EXCEPT ![Len(levels)] = Stream!AfterNode(@)]
  PROVE  /\ parent \in Seq(Stream!Level) /\ Len(parent) = Len(levels) /\ Rooted(parent)
         /\ Stream!Nesting(parent) = Stream!Nesting(levels)
<1> DEFINE n == Len(levels)
           x == levels[n]
           y == Stream!AfterNode(x)
<1>1. n \in Nat /\ n >= 1 /\ n \in 1..n
  BY DEF Rooted
<1>2. /\ x \in Stream!Level \ {"BEGIN", "STREAM", "END"} /\ x = Stream!Top(levels)
  BY <1>1 DEF Stream!Top
<1>3. /\ y \in Stream!Level \ {"BEGIN", "STREAM", "END"} /\ (x \in Collecting <=> y \in Collecting)
  <2> HIDE DEF x
  <2> QED BY <1>2 DEF Stream!AfterNode, Stream!Level, Collecting
<1>4. parent = [levels EXCEPT ![n] = y]
  BY DEF x, y, n
<1> HIDE DEF y
<1>5. /\ parent \in Seq(Stream!Level) /\ Len(parent) = n
      /\ \A i \in 1..n : parent[i] = IF i = n THEN y ELSE levels[i]
  BY <1>1, <1>3, <1>4
<1>6. Rooted(parent)
  <2>1. Len(parent) > 0
    <3> HIDE DEF n
    <3> QED BY <1>1, <1>5
  <2>2. ASSUME NEW i \in 1..n PROVE parent[i] \in {"BEGIN", "STREAM", "END"} <=> i = 1
    BY <1>1, <1>2, <1>3, <1>5 DEF Rooted
  <2> QED BY <1>5, <2>1, <2>2 DEF Rooted
<1>7. \A i \in 1..n : levels[i] \in Collecting <=> parent[i] \in Collecting
  BY <1>3, <1>5
<1>8. Stream!Nesting(parent) = Stream!Nesting(levels)
  BY <1>1, <1>5, <1>7, NestingAlike
<1> QED BY <1>5, <1>6, <1>8

\* A level on top.
LEMMA PushRooted ==
  ASSUME NEW levels \in Seq(Stream!Level), Rooted(levels),
         NEW x \in Stream!Level \ {"BEGIN", "STREAM", "END"}
  PROVE  /\ Rooted(Append(levels, x))
         /\ Stream!Nesting(Append(levels, x))
              = Stream!Nesting(levels) + IF x \in Collecting THEN 1 ELSE 0
<1> DEFINE n == Len(levels)
           t == Append(levels, x)
<1>1. /\ n \in Nat /\ n >= 1 /\ t \in Seq(Stream!Level) /\ Len(t) = n + 1 /\ t[n + 1] = x
      /\ \A i \in 1..n : t[i] = levels[i]
  BY DEF Rooted
<1> HIDE DEF t
<1>2. Rooted(t)
  <2>1. Len(t) > 0
    BY <1>1
  <2>2. ASSUME NEW i \in 1..(n + 1) PROVE t[i] \in {"BEGIN", "STREAM", "END"} <=> i = 1
    BY <1>1 DEF Rooted
  <2> QED BY <1>1, <2>1, <2>2 DEF Rooted
<1>3. \A i \in 1..n : levels[i] \in Collecting <=> t[i] \in Collecting
  BY <1>1
<1>4. Stream!Nesting(t) = Stream!Nesting(levels) + IF t[n + 1] \in Collecting THEN 1 ELSE 0
  BY <1>1, <1>3, NestingMore
<1> QED BY <1>1, <1>2, <1>4 DEF t

\* The top level gone.
LEMMA PopRooted ==
  ASSUME NEW levels \in Seq(Stream!Level), Rooted(levels),
         Stream!Top(levels) \notin {"BEGIN", "STREAM", "END"}
  PROVE  /\ Rooted(Stream!Below(levels))
         /\ Stream!Nesting(levels)
              = Stream!Nesting(Stream!Below(levels))
                  + IF Stream!Top(levels) \in Collecting THEN 1 ELSE 0
<1> DEFINE m == Len(levels) - 1
           t == Stream!Below(levels)
<1>1. m \in Nat /\ m >= 1 /\ Len(levels) = m + 1
  <2>1. Len(levels) \in Nat /\ Len(levels) >= 1
    BY DEF Rooted
  <2>2. ASSUME Len(levels) = 1 PROVE FALSE
    <3>1. levels[1] \in {"BEGIN", "STREAM", "END"}
      BY <2>1 DEF Rooted
    <3>2. Stream!Top(levels) = levels[1]
      BY <2>2 DEF Stream!Top
    <3> QED BY <3>1, <3>2
  <2> DEFINE n == Len(levels)
  <2>3. n \in Nat /\ n >= 1 /\ n # 1
    BY <2>1, <2>2
  <2> HIDE DEF n
  <2>4. n - 1 \in Nat /\ n - 1 >= 1 /\ n = n - 1 + 1
    BY <2>3
  <2> QED BY <2>4 DEF n
<1>2. Len(t) = m /\ \A i \in 1..m : t[i] = levels[i]
  BY <1>1 DEF Stream!Below
<1> HIDE DEF m, t
<1>3. Rooted(t)
  <2>1. Len(t) > 0
    BY <1>1, <1>2
  <2>2. ASSUME NEW i \in 1..m PROVE t[i] \in {"BEGIN", "STREAM", "END"} <=> i = 1
    BY <1>1, <1>2 DEF Rooted
  <2> QED BY <1>2, <2>1, <2>2 DEF Rooted
<1>4. \A i \in 1..m : t[i] \in Collecting <=> levels[i] \in Collecting
  BY <1>2
<1>5. Stream!Nesting(levels) = Stream!Nesting(t) + IF levels[m + 1] \in Collecting THEN 1 ELSE 0
  BY <1>1, <1>2, <1>4, NestingMore
<1> QED BY <1>1, <1>3, <1>5 DEF t, Stream!Top

\* An accepted event changes the depth by what it is.
LEMMA RisesBy ==
  ASSUME NEW levels \in Seq(Stream!Level), Rooted(levels),
         NEW e \in Stream!Event, e \in Stream!Accepts(levels)
  PROVE  /\ Rooted(Stream!After(levels, e))
         /\ Stream!Nesting(Stream!After(levels, e)) = Stream!Nesting(levels) + Rise(e)
         /\ Stream!Nesting(levels) \in Nat
<1> DEFINE n == Len(levels)
           x == Stream!Top(levels)
           parent == [levels EXCEPT ![n] = Stream!AfterNode(@)]
           t == Stream!After(levels, e)
<1>1. n \in Nat /\ n >= 1 /\ n \in 1..n /\ x = levels[n] /\ x \in Stream!Level
  BY DEF Rooted, Stream!Top
<1>2. Stream!Nesting(levels) \in Nat
  BY <1>1, NestingIs
<1> HIDE DEF x, n
<1>3. CASE e \in {"STREAM_START", "STREAM_END"}
  <2>1. x \in {"BEGIN", "STREAM"}
    BY <1>3 DEF Stream!Accepts, Stream!NodeStart, Stream!Leaf, x
  <2>2. n = 1
    BY <1>1, <2>1 DEF Rooted, n
  <2>3. Stream!Nesting(levels) = 0
    <3>1. \A i \in 1..n : levels[i] \notin Collecting
      BY <1>1, <2>1, <2>2 DEF Collecting
    <3> QED BY <1>1, <3>1, NestingFlat DEF n
  <2>4. t \in {<<"STREAM">>, <<"END">>}
    BY <1>3 DEF Stream!After, Stream!Leaf
  <2> HIDE DEF t
  <2>5. Len(t) = 1 /\ t[1] \in {"STREAM", "END"}
    BY <2>4
  <2>6. Rooted(t)
    BY <2>5 DEF Rooted
  <2>7. Stream!Nesting(t) = 0
    <3>1. \A i \in 1..Len(t) : t[i] \notin Collecting
      BY <2>5 DEF Collecting
    <3> QED BY <2>5, <3>1, NestingFlat
  <2>8. Rise(e) = 0
    BY <1>3 DEF Rise, CollectionStarts
  <2> QED BY <1>2, <2>3, <2>6, <2>7, <2>8 DEF t
<1>4. CASE e = "DOC_START"
  <2>1. t = Append(levels, "DOC")
    BY <1>4 DEF Stream!After, Stream!Leaf
  <2>2. /\ "DOC" \in Stream!Level \ {"BEGIN", "STREAM", "END"} /\ "DOC" \notin Collecting
        /\ Rise(e) = 0
    BY <1>4 DEF Stream!Level, Collecting, Rise, CollectionStarts
  <2>3. Rooted(Append(levels, "DOC"))
        /\ Stream!Nesting(Append(levels, "DOC")) = Stream!Nesting(levels) + 0
    BY <2>2, PushRooted
  <2> QED BY <1>2, <2>1, <2>2, <2>3
<1>5. CASE e \in Stream!NodeStart
  <2>1. x \notin {"BEGIN", "STREAM", "END"}
    BY <1>5 DEF Stream!Accepts, Stream!NodeStart, Stream!Leaf, x
  <2>2. /\ parent \in Seq(Stream!Level) /\ Rooted(parent)
        /\ Stream!Nesting(parent) = Stream!Nesting(levels)
    BY <2>1, ParentRooted DEF x, n
  <2>3. t = CASE e = "SEQUENCE_START" -> Append(parent, "SEQ")
              [] e = "MAPPING_START" -> Append(parent, "KEY")
              [] OTHER -> parent
    BY <1>5 DEF Stream!After, Stream!NodeStart, Stream!Leaf, n
  <2> HIDE DEF parent, t
  <2>4. /\ {"SEQ", "KEY"} \subseteq Stream!Level \ {"BEGIN", "STREAM", "END"}
        /\ {"SEQ", "KEY"} \subseteq Collecting
    BY DEF Stream!Level, Collecting
  <2>5. CASE e = "SEQUENCE_START"
    <3>1. t = Append(parent, "SEQ") /\ Rise(e) = 1
      BY <2>3, <2>5 DEF Rise, CollectionStarts
    <3> QED BY <1>2, <2>2, <2>4, <3>1, PushRooted DEF t
  <2>6. CASE e = "MAPPING_START"
    <3>1. t = Append(parent, "KEY") /\ Rise(e) = 1
      BY <2>3, <2>6 DEF Rise, CollectionStarts
    <3> QED BY <1>2, <2>2, <2>4, <3>1, PushRooted DEF t
  <2>7. CASE e \in Stream!Leaf
    <3>1. t = parent /\ Rise(e) = 0
      BY <2>3, <2>7 DEF Rise, CollectionStarts, Stream!Leaf
    <3> QED BY <1>2, <2>2, <3>1 DEF t
  <2> QED BY <1>5, <2>5, <2>6, <2>7 DEF Stream!NodeStart
<1>6. CASE e \in {"DOC_END", "SEQUENCE_END", "MAPPING_END"}
  <2>1. /\ x \in {"DOC_DONE", "SEQ", "KEY"}
        /\ x \in Collecting <=> e # "DOC_END"
    BY <1>6 DEF Stream!Accepts, Stream!NodeStart, Stream!Leaf, Collecting, x
  <2>2. t = Stream!Below(levels)
    BY <1>6 DEF Stream!After, Stream!Leaf
  <2>3. Rise(e) = IF x \in Collecting THEN -1 ELSE 0
    BY <1>6, <2>1 DEF Rise, CollectionStarts
  <2> HIDE DEF t
  <2>4. /\ Rooted(t)
        /\ Stream!Nesting(levels) = Stream!Nesting(t) + IF x \in Collecting THEN 1 ELSE 0
    BY <2>1, <2>2, PopRooted DEF x
  <2>5. Stream!Nesting(t) \in Nat
    <3>1. Len(t) \in Nat
      <4>1. Len(levels) - 1 \in Nat
        BY <1>1 DEF n
      <4> QED BY <2>2, <4>1 DEF Stream!Below
    <3> QED BY <3>1, NestingIs
  <2> QED BY <1>2, <2>3, <2>4, <2>5 DEF t
<1> QED BY <1>3, <1>4, <1>5, <1>6 DEF Stream!Event, Stream!NodeStart, Stream!Leaf

\* An event more changes what was counted by the same.
LEMMA CountedDepth ==
  ASSUME NEW events \in Seq(EagerEvent)
  PROVE  /\ DepthAfter(events, 0) = 0
         /\ \A i \in Nat : /\ DepthAfter(events, i) \in Int
                           /\ DepthAfter(events, i + 1)
                                = DepthAfter(events, i) + Rise(events[i + 1].type)
<1> DEFINE Ends == {"MAPPING_END", "SEQUENCE_END"}
           Among(S, i) == {j \in 1..i : events[j].type \in S}
<1>1. \A i \in Nat : DepthAfter(events, i) = Cardinality(Among(CollectionStarts, i)) - Cardinality(Among(Ends, i))
  BY DEF DepthAfter
<1>2. ASSUME NEW S, NEW i \in Nat
      PROVE  /\ IsFiniteSet(Among(S, i)) /\ Cardinality(Among(S, i)) \in Nat
             /\ i = 0 => Cardinality(Among(S, i)) = 0
             /\ Cardinality(Among(S, i + 1))
                  = Cardinality(Among(S, i)) + IF events[i + 1].type \in S THEN 1 ELSE 0
  <2> DEFINE T == Among(S, i)
             U == Among(S, i + 1)
             x == i + 1
  <2>1. 1..(i + 1) = (1..i) \cup {i + 1} /\ i + 1 \notin 1..i /\ (i = 0 => 1..i = {})
    OBVIOUS
  <2>2. /\ T \in SUBSET (1..i) /\ x \notin T /\ (i = 0 => T = {})
        /\ U = IF events[i + 1].type \in S THEN T \cup {x} ELSE T
    BY <2>1
  <2>3. IsFiniteSet(1..i)
    BY FS_Interval
  <2> HIDE DEF T, U, x
  <2>4. IsFiniteSet(T) /\ Cardinality(T) \in Nat
    BY <2>2, <2>3, FS_Subset, FS_CardinalityType
  <2>5. Cardinality(T \cup {x}) = Cardinality(T) + 1
    BY <2>2, <2>4, FS_AddElement
  <2>6. i = 0 => Cardinality(T) = 0
    BY <2>2, FS_EmptySet
  <2>7. Cardinality(U) = Cardinality(T) + IF events[i + 1].type \in S THEN 1 ELSE 0
    <3>1. CASE events[i + 1].type \in S
      BY <2>2, <2>5, <3>1
    <3>2. CASE events[i + 1].type \notin S
      BY <2>2, <2>4, <3>2
    <3> QED BY <3>1, <3>2
  <2> QED BY <2>4, <2>6, <2>7 DEF T, U
<1> HIDE DEF Among
<1>3. DepthAfter(events, 0) = 0
  <2>1. Cardinality(Among(CollectionStarts, 0)) = 0 /\ Cardinality(Among(Ends, 0)) = 0
    BY <1>2
  <2> QED BY <1>1, <2>1
<1>4. ASSUME NEW i \in Nat
      PROVE  /\ DepthAfter(events, i) \in Int
             /\ DepthAfter(events, i + 1) = DepthAfter(events, i) + Rise(events[i + 1].type)
  <2> DEFINE e == events[i + 1].type
             s == Cardinality(Among(CollectionStarts, i))
             t == Cardinality(Among(Ends, i))
             u == Cardinality(Among(CollectionStarts, i + 1))
             v == Cardinality(Among(Ends, i + 1))
  <2>1. s \in Nat /\ u = s + IF e \in CollectionStarts THEN 1 ELSE 0
    BY <1>2
  <2>2. t \in Nat /\ v = t + IF e \in Ends THEN 1 ELSE 0
    BY <1>2
  <2>3. i + 1 \in Nat /\ DepthAfter(events, i) = s - t /\ DepthAfter(events, i + 1) = u - v
    BY <1>1
  <2>4. Rise(e) = (IF e \in CollectionStarts THEN 1 ELSE 0) - (IF e \in Ends THEN 1 ELSE 0)
    <3> HIDE DEF e
    <3> QED BY DEF Rise, CollectionStarts
  <2> HIDE DEF e, s, t, u, v, Ends
  <2>5. s - t \in Int /\ (u - v) = (s - t) + Rise(e)
    BY <2>1, <2>2, <2>4
  <2> QED BY <2>3, <2>5 DEF e
<1> QED BY <1>3, <1>4

\* check_eager_depth: how deep any part of the list nests.
WithinDepth(events) ==
  MaxDepth > 0 => \A i \in 1..Len(events) : DepthAfter(events, i) <= MaxDepth

\* While a document is parsed no collection is open; when it is delivered,
\* those of the events delivered are.
Deepens(q, levels) ==
  IF q.calls # <<>> THEN Stream!Nesting(levels) = 0
  ELSE /\ Stream!Nesting(levels) = DepthAfter(q.events, q.cursor)
       /\ WithinDepth(q.events)

DepthInv ==
  /\ ~parser.incremental
  /\ errors = 0 => eager.skip_n = 0 /\ Rooted(open) /\ Deepens(eager, open)

\* All that the depth depends on.
LEMMA SameDepth ==
  ASSUME NEW q, NEW r, NEW levels, r.calls = q.calls, r.events = q.events, r.cursor = q.cursor,
         Deepens(q, levels)
  PROVE  Deepens(r, levels)
BY DEF Deepens

\* Nothing was delivered, and nothing is queued.
LEMMA InitDepth ==
  ASSUME EagerInit
  PROVE  DepthInv
<1> DEFINE none == <<>>
           q == NewEager
<1>1. ~parser.incremental /\ eager = q /\ open = <<"BEGIN">>
  BY DEF EagerInit, WholeInit
<1>2. q.calls = <<>> /\ q.events = none /\ q.cursor = 0 /\ q.skip_n = 0
  BY DEF NewEager
<1> HIDE DEF q
<1>3. none \in Seq(EagerEvent) /\ 1..Len(none) = {}
  OBVIOUS
<1> HIDE DEF none
<1>4. DepthAfter(none, 0) = 0
  BY <1>3, CountedDepth
<1>5. Rooted(<<"BEGIN">>) /\ Stream!Nesting(<<"BEGIN">>) = 0
  <2> DEFINE b == <<"BEGIN">>
  <2>1. Len(b) = 1 /\ b[1] = "BEGIN"
    OBVIOUS
  <2> HIDE DEF b
  <2>2. Rooted(b)
    BY <2>1 DEF Rooted
  <2>3. \A i \in 1..Len(b) : b[i] \notin Collecting
    BY <2>1 DEF Collecting
  <2>4. Len(b) \in Nat
    BY <2>1
  <2> QED BY <2>2, <2>3, <2>4, NestingFlat DEF b
<1>6. WithinDepth(none)
  BY <1>3 DEF WithinDepth
<1> QED BY <1>1, <1>2, <1>4, <1>5, <1>6 DEF DepthInv, Deepens

\* The levels where a document's events begin.
LEMMA RestFlat ==
  ASSUME NEW q
  PROVE  Stream!Nesting(Rest(q)) = 0
<1>1. Rest(q) \in {<<"STREAM", "DOC">>, <<"END">>, <<"STREAM", "DOC_DONE">>, <<"STREAM">>, <<"BEGIN">>}
  BY DEF Rest
<1> DEFINE levels == Rest(q)
<1> HIDE DEF levels
<1>2. /\ Len(levels) \in {1, 2}
      /\ \A i \in 1..Len(levels) : levels[i] \notin Collecting
  <2>1. CASE levels = <<"STREAM", "DOC">>
    BY <2>1 DEF Collecting
  <2>2. CASE levels = <<"STREAM", "DOC_DONE">>
    BY <2>2 DEF Collecting
  <2>3. CASE levels \in {<<"END">>, <<"STREAM">>, <<"BEGIN">>}
    BY <2>3 DEF Collecting
  <2> QED BY <1>1, <2>1, <2>2, <2>3 DEF levels
<1>3. Stream!Nesting(levels) = 0
  BY <1>2, NestingFlat
<1> QED BY <1>3 DEF levels

\* The next event of the list.
LEMMA EagerDeliverDepth ==
  ASSUME SteppedInv, HeardInv, DepthInv, EagerDeliver
  PROVE  DepthInv'
<1> DEFINE k == eager.cursor
           n == Len(eager.events)
           e == eager.events[k + 1].type
           r == [eager EXCEPT !.cursor = k + 1]
<1>1. /\ ~parser.incremental /\ parser' = parser /\ eager.calls = <<>> /\ k < n
      /\ open' = Stream!After(open, e) /\ eager' = r /\ errors' = errors
      /\ delivered' = Append(delivered, e)
  BY DEF EagerDeliver, EagerCalled, Between
<1>2. eager \in EagerRecord /\ delivered \in Seq(Stream!Event) /\ open \in Seq(Stream!Level)
  BY DEF SteppedInv, WholeInv, Inv, EagerWaits, AtRest, Steady, History
<1>3. k \in Nat /\ n \in Nat /\ eager.events \in Seq(EagerEvent)
  BY <1>2 DEF EagerRecord
<1>4. e \in Stream!Event
  <2>1. k + 1 \in 1..n
    BY <1>1, <1>3
  <2>2. eager.events[k + 1] \in EagerEvent
    BY <1>3, <2>1
  <2> QED BY <2>2 DEF EagerEvent
<1>5. /\ r.calls = <<>> /\ r.events = eager.events /\ r.cursor = k + 1
      /\ r.skip_n = eager.skip_n
  BY <1>1, <1>2 DEF EagerRecord
<1> HIDE DEF r, e
<1>6. Last(delivered') = e
  <2>1. Last(Append(delivered, e)) = e
    BY <1>2, <1>4 DEF Last
  <2> QED BY <1>1, <2>1
<1>7. ASSUME errors = 0 PROVE r.skip_n = 0 /\ Rooted(open') /\ Deepens(r, open')
  <2>1. e \in Stream!Accepts(open)
    BY <1>6, <1>7, EagerDeliverHeard
  <2>2. /\ eager.skip_n = 0 /\ Rooted(open)
        /\ Stream!Nesting(open) = DepthAfter(eager.events, k) /\ WithinDepth(eager.events)
    BY <1>1, <1>7 DEF DepthInv, Deepens
  <2>3. /\ Rooted(open') /\ Stream!Nesting(open') = Stream!Nesting(open) + Rise(e)
    BY <1>1, <1>2, <1>4, <2>1, <2>2, RisesBy
  <2>4. DepthAfter(eager.events, k + 1) = DepthAfter(eager.events, k) + Rise(e)
    BY <1>1, <1>3, CountedDepth DEF e
  <2> QED BY <1>5, <2>2, <2>3, <2>4 DEF Deepens
<1> QED BY <1>1, <1>7 DEF DepthInv

\* At a document's first event no collection is open.
LEMMA StartFlat ==
  ASSUME NEW q \in EagerRecord, q.calls = <<>>, q.cursor = Len(q.events), q.skip_n = 0,
         NEW levels, Known(q, levels)
  PROVE  Stream!Nesting(levels) = 0
<1> DEFINE n == Len(q.events)
<1>1. n \in Nat
  BY DEF EagerRecord
<1>2. Leads(levels, Word(q), n, n, Rest(q))
  BY DEF Known, Heard, Joins
<1> HIDE DEF n
<1>3. levels = Rest(q)
  BY <1>1, <1>2, LeadsEnds
<1> QED BY <1>3, RestFlat

\* A document that was parsed is not deeper than allowed.
LEMMA ChunkEndDepth ==
  ASSUME NEW r \in EagerRecord, r.calls = <<>>, ~r.starved, r.cursor = 0,
         r.skip_n = 0, NEW e, e = EndChunk(r), e.status = "OK"
  PROVE  /\ WithinDepth(e.events) /\ e.events = r.events /\ e.calls = <<>>
         /\ e.cursor = 0 /\ e.skip_n = 0
<1> DEFINE c == CheckEagerDepth(r)
           n == r.skip_n
           s == Skip(r, n)
<1>1. r.status = "OK"
  BY ChunkEnds
<1>2. r.events \in Seq(EagerEvent) /\ Len(r.events) \in Nat
  BY DEF EagerRecord
<1>3. c = r \/ c.status # "OK"
  BY <1>1, DepthChecked
<1>4. c = r
  <2>1. e = SkipIfOk(c) /\ e.status = "OK"
    BY <1>1 DEF EndChunk
  <2> HIDE DEF c
  <2> QED BY <1>3, <2>1 DEF SkipIfOk
<1>5. e = SkipDelivered(r)
  <2> HIDE DEF c
  <2>1. e = SkipIfOk(c)
    BY <1>1 DEF EndChunk, c
  <2> QED BY <1>1, <1>4, <2>1 DEF SkipIfOk
<1>6. WithinDepth(r.events)
  <2> DEFINE f == Fail(StopWith(r, "ERR_LIMIT"), "ERR_LIMIT")
             deep == MaxDepth > 0 /\ \E i \in 1..Len(r.events) : DepthAfter(r.events, i) > MaxDepth
  <2>1. c = IF deep THEN f ELSE r
    BY DEF CheckEagerDepth
  <2>2. StopWith(r, "ERR_LIMIT") \in EagerRecord
    <3>1. "limit" \in EagerMessage
      BY DEF EagerMessage, Message
    <3> QED BY <3>1 DEF StopWith, EagerRecord
  <2>3. f.status # "OK"
    BY <2>2 DEF Fail, EagerRecord
  <2> HIDE DEF c, f
  <2>4. ~deep
    BY <1>1, <1>4, <2>1, <2>3
  <2>5. \A i \in 1..Len(r.events) : DepthAfter(r.events, i) \in Int
    <3> SUFFICES ASSUME NEW i \in 1..Len(r.events) PROVE DepthAfter(r.events, i) \in Int
      OBVIOUS
    <3>1. i \in Nat
      BY <1>2
    <3> QED BY <1>2, <3>1, CountedDepth
  <2> QED BY <2>4, <2>5, LimitsAssumption DEF WithinDepth
<1> HIDE DEF c
<1>7. e = r \/ e = CheckSkipped(s)
  BY <1>5 DEF SkipDelivered
<1>8. CASE e = r
  BY <1>6, <1>8
<1>9. CASE e = CheckSkipped(s)
  <2>1. CheckSkipped(s).status = "OK"
    BY <1>9
  <2>2. n \in Nat /\ n <= Len(r.events) /\ n <= r.skip_n /\ r.skip_n - n = 0
    BY <1>2
  <2>3. e = s /\ SameWay(s, r) /\ s.cursor = 0 /\ s.skip_n = 0
    BY <1>9, <2>1, <2>2, SkipChecked
  <2> HIDE DEF s
  <2> QED BY <1>6, <2>3 DEF SameWay
<1> QED BY <1>7, <1>8, <1>9

\* A step of a document's.
LEMMA EagerDocumentDepth ==
  ASSUME SteppedInv, HeardInv, DepthInv, EagerDocument
  PROVE  DepthInv'
<1> DEFINE p == DocBegin
           r == DocReach
           e == DocLeave
           q == Returned(e)
<1>1. /\ ~parser.incremental /\ EagerFinish(e)
      /\ eager.calls = <<>> => eager.cursor = Len(eager.events)
  BY DEF EagerDocument, EagerCalled, Between, DocBegin, DocReach, DocLeave
<1>2. eager \in EagerRecord
  BY <1>1 DEF SteppedInv, WholeInv, EagerWaits, AtRest, Steady
<1>3. CASE e.starved
  <2>1. EagerMoreText
    BY <1>1, <1>3 DEF EagerFinish
  <2>2. parser' = parser /\ open' = open /\ errors' = errors
    BY <2>1 DEF EagerMoreText, vars
  <2>3. PICK s : eager' = [eager EXCEPT !.scanner = s]
    BY <2>1 DEF EagerMoreText
  <2>4. /\ eager'.calls = eager.calls /\ eager'.events = eager.events
        /\ eager'.cursor = eager.cursor /\ eager'.skip_n = eager.skip_n
    BY <1>2, <2>3 DEF EagerRecord
  <2> QED BY <2>2, <2>4 DEF DepthInv, Deepens
<1>4. CASE ~e.starved
  <2>1. parser' = parser
    BY <1>1, <1>4 DEF EagerFinish
  <2>2. ASSUME errors' = 0 PROVE eager'.skip_n = 0 /\ Rooted(open') /\ Deepens(eager', open')
    <3>1. /\ AtRest(p) /\ p.calls # <<>> /\ Known(p, open) /\ ~r.starved /\ Parsed(p, r)
          /\ e \in EagerRecord /\ e.status = "OK" /\ eager' = q /\ open' = open
          /\ errors = 0 /\ Known(eager, open) /\ Healthy(eager)
      BY <1>4, <2>2, DocumentGoesOn
    <3>2. eager.skip_n = 0 /\ Rooted(open) /\ Deepens(eager, open)
      BY <3>1 DEF DepthInv
    <3>3. p.skip_n = 0
      BY <1>2, <3>2 DEF DocBegin, ChunkBegun, StartChunk, EagerRecord
    <3>4. Stream!Nesting(open) = 0
      <4>1. CASE eager.calls = <<>>
        BY <1>1, <1>2, <3>1, <3>2, <4>1, StartFlat
      <4>2. CASE eager.calls # <<>>
        BY <3>2, <4>2 DEF Deepens
      <4> QED BY <4>1, <4>2
    <3>5. Stepped(p, r)
      <4>1. Busy(p) /\ Stepped(p, EagerStep(p))
        BY <3>1, EagerSteps DEF AtRest, Busy
      <4> QED BY <4>1 DEF DocReach
    <3>6. r \in EagerRecord /\ r.cursor = 0
      BY <3>1 DEF Parsed, Steady
    <3>7. r.skip_n = 0
      BY <3>1, <3>3, <3>5 DEF Stepped, SameCounts
    <3>8. /\ q.calls = e.calls /\ q.events = e.events /\ q.cursor = e.cursor
          /\ q.skip_n = e.skip_n
      <4> HIDE DEF e
      <4> QED BY <3>1 DEF Returned, EagerRecord
    <3>9. CASE r.calls = <<>>
      <4>1. e = EndChunk(r)
        BY <3>9 DEF DocLeave, ChunkEnded, Between
      <4> HIDE DEF e, r, q
      <4>2. /\ WithinDepth(e.events) /\ e.events = r.events /\ e.calls = <<>>
            /\ e.cursor = 0 /\ e.skip_n = 0
        BY <3>1, <3>6, <3>7, <3>9, <4>1, ChunkEndDepth
      <4>3. DepthAfter(e.events, 0) = 0
        <5>1. e.events \in Seq(EagerEvent)
          BY <3>1 DEF EagerRecord
        <5> QED BY <5>1, CountedDepth
      <4> QED BY <3>1, <3>2, <3>4, <3>8, <4>2, <4>3 DEF Deepens
    <3>10. CASE r.calls # <<>>
      <4>1. e = r
        BY <3>10 DEF DocLeave, ChunkEnded, Between
      <4> HIDE DEF e, r, q
      <4> QED BY <3>1, <3>2, <3>4, <3>7, <3>8, <3>10, <4>1 DEF Deepens
    <3> QED BY <3>9, <3>10
  <2> QED BY <1>1, <2>1, <2>2 DEF DepthInv
<1> QED BY <1>3, <1>4

\* Every step.
LEMMA DepthNext ==
  ASSUME SteppedInv, HeardInv, DepthInv, [WholeNext]_wholeVars
  PROVE  DepthInv'
<1>1. ~parser.incremental
  BY DEF DepthInv
<1>2. ~IncrementalStep
  BY <1>1, IncrementalCounts DEF SteppedInv
<1>3. ~FallBackToEager
  BY <1>1 DEF FallBackToEager, FallBack, Stepping
<1>4. CASE EagerDeliver
  BY <1>4, EagerDeliverDepth
<1>5. CASE EagerDocument
  BY <1>5, EagerDocumentDepth
<1>6. CASE WholeCall \/ Abandon \/ EagerEnd \/ UNCHANGED wholeVars
  <2>1. parser' = parser /\ open' = open /\ eager' = eager /\ errors' = errors
    BY <1>6 DEF WholeCall, Call, Abandon, EagerEnd, wholeVars, vars
  <2> QED BY <2>1 DEF DepthInv, Deepens
<1> QED BY <1>2, <1>3, <1>4, <1>5, <1>6 DEF WholeNext

\* "It applies to the events delivered" (oyl.h, of the depth limit), for a caller
\* who asked for the eager parser (EagerDepthLimit): until the first error the
\* events delivered never nest deeper, pairs in flow sequences and collections
\* that turned out to be keys included.
THEOREM DepthAsAsked == EagerSpec => []EagerDepthLimit
<1>1. EagerInit => WholeInit
  BY DEF EagerInit
<1>2. EagerInit => DepthInv
  BY InitDepth
<1>3. SteppedInv /\ HeardInv /\ DepthInv /\ [WholeNext]_wholeVars => DepthInv'
  BY DepthNext
<1>4. SteppedInv /\ DepthInv => EagerDepthLimit
  <2> SUFFICES ASSUME SteppedInv, DepthInv, MaxDepth > 0, errors = 0
               PROVE  Stream!Nesting(open) <= MaxDepth
    BY DEF EagerDepthLimit
  <2> DEFINE k == eager.cursor
  <2>1. Deepens(eager, open) /\ ~parser.incremental
    BY DEF DepthInv
  <2>2. AtRest(eager) /\ eager \in EagerRecord
    BY <2>1 DEF SteppedInv, WholeInv, EagerWaits, AtRest, Steady
  <2>3. /\ eager.events \in Seq(EagerEvent) /\ k \in Nat /\ k <= Len(eager.events)
        /\ Len(eager.events) \in Nat
    BY <2>2 DEF AtRest, EagerRecord
  <2>4. CASE eager.calls # <<>> \/ k = 0
    <3>1. DepthAfter(eager.events, 0) = 0
      BY <2>3, CountedDepth
    <3> QED BY <2>1, <2>4, <3>1, LimitsAssumption DEF Deepens
  <2>5. CASE eager.calls = <<>> /\ k # 0
    <3>1. k \in 1..Len(eager.events)
      BY <2>3, <2>5
    <3> QED BY <2>1, <2>5, <3>1 DEF Deepens, WithinDepth
  <2> QED BY <2>4, <2>5
<1> QED BY <1>1, <1>2, <1>3, <1>4, HeardInvariance, PTL DEF EagerSpec, WholeSpec

-----------------------------------------------------------------------------
(***************************************************************************)
(* The end of the stream: once the state DONE is reached without an error, *)
(* only what completes the stream is left to deliver.                      *)
(***************************************************************************)

\* The state of the stream's end, entered as it expects, queues its event
\* unless the limit is reached or the scanner fails.
LEMMA StreamEndPath ==
  ASSUME NEW a, NEW q, AtStart(a, q), q.state = "STREAM_END"
  PROVE  LET r == StreamEnd(q)
         IN  /\ Good(r)
             /\ r.scan_error => r.scan_error_out = 0
             /\ \/ Path(a, r.out_buf, <<"END">>)
                \/ r.stop_status = "ERR_LIMIT" /\ r.out_buf = <<>>
<1> DEFINE p == Peek(q)
           c == Consume(p)
           e == Emit(c, "STREAM_END")
           r == Goto(e, "DONE")
<1>1. q.state \in BetweenDocuments /\ q.state \in RootStates /\ q.state # "STREAM_START"
  BY RootLevels DEF BetweenDocuments
<1>2. /\ Way(a, q, q, <<>>, 0) /\ Clear(q) /\ q.frames = <<>> /\ q.out_buf = <<>>
      /\ Good(q) /\ ~q.scan_error
  BY <1>1, RootStart, RootLevels DEF AtStart
<1>3. Way(a, q, p, <<>>, 0) /\ Clear(p) /\ Good(p) /\ p.stop_status = "NONE" /\ p.out_buf = <<>>
  BY <1>2, PeekWay, PeekQuiet DEF Way, Quiet, AtStart
<1>4. p.scan_error => p.scan_error_out = 0
  <2> DEFINE s == Scan(q.scanner)
  <2>1. s.res \in {"OK", "ERROR", "STARVED"}
    <3>1. s \in ScanResult
      BY <1>2, FieldTypes, ScanType
    <3> QED BY <3>1 DEF ScanResult
  <2>2. Len(q.out_buf) = 0
    BY <1>2
  <2>3. p = q \/ p = Peeked(q, s)
    BY DEF Peek
  <2> HIDE DEF s, p
  <2>4. Peeked(q, s).scan_error => Peeked(q, s).scan_error_out = 0
    BY <1>2, <2>1, <2>2 DEF Peeked, Good, ParserRecord
  <2> QED BY <1>2, <2>3, <2>4
<1> HIDE DEF p
<1>5. /\ Way(a, q, c, <<>>, 0) /\ c.stop_status = "NONE" /\ c.out_buf = <<>> /\ Good(c)
      /\ c.scan_error => c.scan_error_out = 0
  <2>1. Way(a, q, c, <<>>, 0) /\ Good(c)
    BY <1>3, ConsumeWay, ConsumeGood
  <2>2. /\ c.stop_status = p.stop_status /\ c.out_buf = p.out_buf
        /\ c.scan_error = p.scan_error /\ c.scan_error_out = p.scan_error_out
    BY <1>3 DEF Consume, Good, ParserRecord
  <2> QED BY <1>3, <1>4, <2>1, <2>2
<1> HIDE DEF c
<1>6. c.frames = <<>> /\ Path(a, c.out_buf, <<"STREAM">>) /\ Len(c.out_buf) < OutSize
  <2>1. c.frames = <<>> /\ Path(a, c.out_buf, <<"STREAM">>)
    BY <1>2, <1>5, StreamLevels DEF Way
  <2>2. Len(c.out_buf) = 0
    BY <1>5
  <2> QED BY <2>1, <2>2 DEF OutSize
<1>7. "STREAM_END" \in Stream!Event
  BY DEF Stream!Event
<1>8. \/ e.stop_status = "NONE" /\ Path(a, e.out_buf, <<"END">>)
      \/ /\ e.stop_status = "ERR_LIMIT" /\ AtEventLimit(e) /\ e.out_buf = c.out_buf
  BY <1>5, <1>6, <1>7, StreamLevels, StreamSteps, EmitPath
<1>9. Good(e) /\ (e.scan_error => e.scan_error_out = 0)
  <2>1. e.scan_error = c.scan_error /\ e.scan_error_out = c.scan_error_out
    BY <1>5 DEF Emit, StopWith, Good, ParserRecord
  <2> QED BY <1>5, <1>7, <2>1, EmitGood
<1> HIDE DEF e
<1>10. "DONE" \in State
  BY DEF State
<1>11. Good(r) /\ r.out_buf = e.out_buf /\ r.stop_status = e.stop_status
  BY <1>9, <1>10, GotoFields
<1>12. r.scan_error => r.scan_error_out = 0
  BY <1>9 DEF Goto, Good, ParserRecord
<1>13. StreamEnd(q) = r
  BY DEF StreamEnd, r, e, c, p
<1> HIDE DEF r
<1> QED BY <1>5, <1>8, <1>11, <1>12, <1>13

\* Its step leaves only the stream's end to deliver, unless it returns an error.
LEMMA StreamEndEnds ==
  ASSUME StreamInv, DoStreamEnd
  PROVE  /\ result' # "NONE"
         /\ \/ parser'.state # "DONE" \/ result' \in Errors
            \/ Path(open', parser'.out_buf, <<"END">>)
<1> DEFINE q == StreamEnd(parser)
           kept == KeepEvents(q)
<1>1. Finish(q) /\ Stepping("STREAM_END")
  BY DEF DoStreamEnd
<1>2. /\ Good(q) /\ (q.scan_error => q.scan_error_out = 0)
      /\ \/ Path(open, q.out_buf, <<"END">>)
         \/ q.stop_status = "ERR_LIMIT" /\ q.out_buf = <<>>
  <2>1. "STREAM_END" \notin AwayStates
    BY DEF AwayStates
  <2>2. AtStart(open, parser) /\ parser.state = "STREAM_END"
    BY <1>1, <2>1, StartStep
  <2> HIDE DEF q
  <2>3. q = StreamEnd(parser)
    BY DEF q
  <2> QED BY <2>2, <2>3, StreamEndPath
<1> HIDE DEF q
<1>3. CASE q.starved
  <2>1. PICK t : parser' = [parser EXCEPT !.scanner = t]
    BY <1>1, <1>3 DEF Finish, MoreText
  <2>2. parser \in ParserRecord /\ parser.state = "STREAM_END"
    BY <1>1 DEF StreamInv, Inv, Kept, Stepping
  <2>3. result' = "BUSY"
    BY <1>1, <1>3 DEF Finish, MoreText, Stepping
  <2> QED BY <2>1, <2>2, <2>3 DEF ParserRecord
<1>4. CASE ~q.starved
  <2>1. parser' = [kept EXCEPT !.status = "OK"] /\ result' = Outcome(kept) /\ open' = open
    BY <1>1, <1>4 DEF Finish
  <2>2. Good(kept) /\ kept.scan_error = q.scan_error
    BY <1>2, KeepEventsGood, KeepEventsFields
  <2>3. result' # "NONE"
    <3> HIDE DEF kept
    <3> QED BY <2>1, <2>2 DEF Outcome, Good, ParserRecord
  <2>4. CASE q.scan_error
    <3>1. kept.out_buf = SubSeq(q.out_buf, 1, 0)
      BY <1>2, <2>4 DEF KeepEvents, Good, ParserRecord
    <3>2. kept.out_buf = <<>>
      BY <1>2, <3>1 DEF Good, ParserRecord
    <3> HIDE DEF kept
    <3> QED BY <2>1, <2>2, <2>4, <2>3, <3>2 DEF Outcome, Errors
  <2>5. CASE ~q.scan_error
    <3>1. kept = q
      BY <2>5 DEF KeepEvents
    <3>2. parser'.out_buf = q.out_buf /\ q.status \in {"OK", "ERR_PARSE"}
      BY <1>2, <2>1, <3>1 DEF Good, ParserRecord
    <3>3. CASE Path(open, q.out_buf, <<"END">>)
      BY <2>1, <2>3, <3>2, <3>3
    <3>4. CASE q.stop_status = "ERR_LIMIT" /\ q.out_buf = <<>>
      BY <2>1, <2>5, <2>3, <3>1, <3>2, <3>4 DEF Outcome, Errors
    <3> QED BY <1>2, <3>3, <3>4
  <2> QED BY <2>4, <2>5
<1> QED BY <1>3, <1>4

\* What a caller without an error has still to get of the stream's end.
EndInv ==
  /\ parser.incremental /\ errors = 0 /\ parser.state = "DONE"
       => Path(open, parser.out_buf, <<"END">>)
  /\ WholeStream

\* A new parser has not begun.
LEMMA InitEnd == WholeInit => EndInv
<1> SUFFICES ASSUME WholeInit PROVE EndInv
  OBVIOUS
<1>1. parser.incremental => parser.state = "STREAM_START"
  BY DEF WholeInit, NewParser
<1> QED BY <1>1 DEF EndInv, WholeStream, WholeInit

\* The incremental parser's step.
LEMMA IncrementalEnd ==
  ASSUME SteppedInv, EndInv, IncrementalStep
  PROVE  EndInv'
<1>1. parser.incremental /\ StreamInv /\ Inv'
  BY IncrementalCounts DEF SteppedInv
<1>2. errors \in Nat /\ errors' = (IF result' \in Errors THEN errors + 1 ELSE errors)
  BY DEF SteppedInv, WholeInv, History, IncrementalStep, CountError
<1>3. errors' = 0 => errors = 0 /\ result' \notin Errors
  BY <1>2
<1>4. CASE Deliver
  <2>1. /\ parser.out_buf \in Seq(Stream!Event) /\ parser.out_buf # <<>>
        /\ parser'.out_buf = Tail(parser.out_buf) /\ parser'.state = parser.state
        /\ open' = Stream!After(open, Head(parser.out_buf)) /\ result' = "OK"
    BY <1>1, <1>4 DEF Deliver, StreamInv, Inv, Kept, ParserRecord
  <2>2. ASSUME errors' = 0, parser'.state = "DONE"
        PROVE  Path(open', parser'.out_buf, <<"END">>)
    <3>1. Path(open, parser.out_buf, <<"END">>)
      BY <1>1, <1>3, <2>1, <2>2 DEF EndInv
    <3> QED BY <2>1, <3>1, PathTail
  <2> QED BY <2>1, <2>2 DEF EndInv, WholeStream
<1>5. CASE ReturnNone \/ ReturnScanError \/ ReturnStopped
  <2>1. /\ parser' = parser /\ open' = open /\ parser.out_buf = <<>>
        /\ result' = "NONE" => parser.state = "DONE"
    BY <1>5 DEF ReturnNone, ReturnScanError, ReturnStopped, Return
  <2>2. ASSUME errors' = 0, parser.state = "DONE"
        PROVE  Path(open, parser.out_buf, <<"END">>) /\ open = <<"END">>
    <3> DEFINE out == parser.out_buf
               end == <<"END">>
    <3>1. Path(open, out, end)
      BY <1>1, <1>3, <2>2 DEF EndInv
    <3>2. out \in Seq(Stream!Event)
      BY <1>1 DEF StreamInv, Inv, Kept, ParserRecord
    <3>3. out = <<>>
      BY <2>1
    <3> HIDE DEF out, end
    <3>4. end = open
      BY <3>1, <3>2, <3>3, PathEnds
    <3> QED BY <3>1, <3>4 DEF out, end
  <2> QED BY <2>1, <2>2 DEF EndInv, WholeStream
<1>6. CASE DocumentStep \/ BlockStep \/ FlowStep
  <2>1. result' # "NONE"
    BY <1>1, <1>6, StepGoes, StreamEndEnds DEF NotDone
  <2>2. ASSUME errors' = 0, parser'.state = "DONE"
        PROVE  Path(open', parser'.out_buf, <<"END">>)
    <3>1. DoStreamEnd
      BY <1>1, <1>6, <2>2, StepGoes DEF NotDone
    <3> QED BY <1>1, <1>3, <2>2, <3>1, StreamEndEnds
  <2> QED BY <2>1, <2>2 DEF EndInv, WholeStream
<1> QED BY <1>4, <1>5, <1>6 DEF IncrementalStep

\* Every step keeps it.
LEMMA EndNext ==
  ASSUME SteppedInv, HeardInv, EndInv, [WholeNext]_wholeVars
  PROVE  EndInv'
<1>1. CASE IncrementalStep
  BY <1>1, IncrementalEnd
<1>2. CASE FallBackToEager
  <2>1. result' = "BUSY"
    BY <1>2 DEF FallBackToEager, FallBack, Stepping
  <2>2. ~parser'.incremental
    <3>1. parser \in ParserRecord
      BY DEF SteppedInv, WholeInv, Inv, Kept
    <3> QED BY <1>2, <3>1 DEF FallBackToEager, FallBack, ParserRecord
  <2> QED BY <2>1, <2>2 DEF EndInv, WholeStream
<1>3. CASE EagerDeliver
  BY <1>3 DEF EagerDeliver, EagerCalled, EndInv, WholeStream
<1>4. CASE EagerEnd
  <2>1. errors' = errors /\ open' = open /\ parser' = parser /\ ~parser.incremental
    BY <1>4 DEF EagerEnd, EagerCalled
  <2> QED BY <1>4, <2>1, EagerEndHeard DEF EndInv, WholeStream
<1>5. CASE EagerDocument
  <2>1. ~parser.incremental /\ result = "BUSY" /\ EagerFinish(DocLeave)
    BY <1>5 DEF EagerDocument, EagerCalled, DocLeave, DocReach, DocBegin
  <2>2. parser' = parser
    BY <2>1 DEF EagerFinish, EagerMoreText, vars
  <2>3. CASE DocLeave.starved
    BY <2>1, <2>2, <2>3 DEF EagerFinish, EagerMoreText, vars, EndInv, WholeStream
  <2>4. CASE ~DocLeave.starved
    <3>1. result' = (IF DocLeave.status = "OK" THEN "BUSY" ELSE DocLeave.status)
      BY <2>1, <2>4 DEF EagerFinish
    <3>2. errors' = 0 => result' = "BUSY"
      BY <1>5, <2>4, <3>1, DocumentGoesOn
    <3> QED BY <2>1, <2>2, <3>2 DEF EndInv, WholeStream
  <2> QED BY <2>3, <2>4
<1>6. CASE WholeCall
  <2>1. /\ parser' = parser /\ open' = open /\ errors' = errors /\ result' = "BUSY"
    BY <1>6 DEF WholeCall, Call
  <2> QED BY <2>1 DEF EndInv, WholeStream
<1>7. CASE Abandon \/ UNCHANGED wholeVars
  <2>1. /\ parser' = parser /\ open' = open /\ errors' = errors /\ result' = result
    BY <1>7 DEF Abandon, wholeVars, vars
  <2> QED BY <2>1 DEF EndInv, WholeStream
<1> QED BY <1>1, <1>2, <1>3, <1>4, <1>5, <1>6, <1>7 DEF WholeNext

\* next_event's end of the stream (WholeStream): a caller who has seen no error
\* and is told that there are no more events has had the stream's end, from
\* whichever parser it was, and nothing is left open.
THEOREM StreamComplete == WholeSpec => []WholeStream
<1>1. WholeInit => EndInv
  BY InitEnd
<1>2. SteppedInv /\ HeardInv /\ EndInv /\ [WholeNext]_wholeVars => EndInv'
  BY EndNext
<1>3. EndInv => WholeStream
  BY DEF EndInv
<1> QED BY <1>1, <1>2, <1>3, HeardInvariance, PTL DEF WholeSpec

=============================================================================
