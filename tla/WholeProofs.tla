---------------------------- MODULE WholeProofs ----------------------------
(***************************************************************************)
(* The parser with its fallback, for every vocabulary, text length, limit  *)
(* and spacing of checkpoints.  First the eager parser: what its stack of  *)
(* calls, its events and its contexts are between two tokens, one lemma    *)
(* for each of its functions.  Then the whole: the calls of the caller,    *)
(* the restart on the eager parser and the events it hands out.            *)
(***************************************************************************)
EXTENDS WholeParser, StreamProofs

-----------------------------------------------------------------------------
(***************************************************************************)
(* The eager parser's calls.                                               *)
(***************************************************************************)

\* A function that may insert an event before its node knows where the node
\* starts; a function that waits for one it called goes on at another place
\* than one that runs.
Inserts == {"FLOW_SEQ_NODE", "INNER_FLOW", "FLOW_OR_KEY"}

FrameFits(f, n) == f.at \in Inserts => f.index \in 1..(n + 1)

StreamLabels == {"STREAM", "STREAM_DONE"}
DocLabels == {"DOCUMENT", "DIRECTIVES", "DOC_CONTENT", "DOC_DONE"}
Inner == Label \ (StreamLabels \cup DocLabels)

Runs(i) == IF i = 1 THEN StreamLabels ELSE IF i = 2 THEN DocLabels ELSE Inner
Waits(i) == IF i = 1 THEN {"STREAM_DONE"} ELSE IF i = 2 THEN {"DOC_DONE"} ELSE Inner

\* The calls, when n events are queued: the stream's, the document's, and
\* those of nodes and collections.
Stack(calls, n) ==
  /\ calls \in Seq(CallFrame)
  /\ \A i \in 1..Len(calls) : FrameFits(calls[i], n) /\ calls[i].at \in Runs(i)
  /\ \A i \in 1..Len(calls) : i < Len(calls) => calls[i].at \in Waits(i)

\* The calls that wait.
Behind(calls, n) ==
  /\ calls \in Seq(CallFrame)
  /\ \A i \in 1..Len(calls) : FrameFits(calls[i], n) /\ calls[i].at \in Waits(i)

\* The functions that are inside a collection they have a context for.
WithContext ==
  {"FLOW_SEQ", "FLOW_PAIR_KEY", "FLOW_PAIR_VALUE", "FLOW_PAIR_NODE", "FLOW_PAIR_END",
   "FLOW_SEQ_NODE", "FLOW_SEQ_NEXT", "FLOW_MAP", "FLOW_KEY", "FLOW_VALUE",
   "FLOW_VALUE_NODE", "FLOW_MAP_NEXT", "BLOCK_MAP", "MAP_KEY", "MAP_KEY_PROPS",
   "MAP_KEY_DONE", "IMPLICIT_KEY", "SCALAR_KEY", "ALIAS_KEY", "FLOW_KEY_DONE",
   "BLOCK_SEQ", "SEQ_ENTRY"}

Own(at) == IF at \in WithContext THEN 1 ELSE 0

ContextFrames(calls) == Cardinality({i \in 1..Len(calls) : calls[i].at \in WithContext})

\* What Front, Last and Append do to the calls.
LEMMA FrontLast ==
  ASSUME NEW S, NEW c \in Seq(S), c # <<>>
  PROVE  /\ Front(c) \in Seq(S) /\ Len(Front(c)) = Len(c) - 1
         /\ \A i \in 1..(Len(c) - 1) : Front(c)[i] = c[i]
         /\ Last(c) = c[Len(c)] /\ Last(c) \in S
         /\ Len(c) \in Nat /\ Len(c) >= 1
<1> DEFINE n == Len(c)
<1>1. n \in Nat /\ n >= 1 /\ c[n] \in S
  <2>1. n \in Nat /\ n # 0
    BY EmptySeq
  <2> QED BY <2>1
<1>2. SubSeq(c, 1, n - 1) \in Seq(S)
  BY <1>1
<1>3. Len(SubSeq(c, 1, n - 1)) = n - 1
  <2> DEFINE k == n - 1
  <2>1. k \in Nat /\ \A i \in 1..k : c[i] \in S
    BY <1>1
  <2> HIDE DEF k, n
  <2>2. Len(SubSeq(c, 1, k)) = IF 1 <= k THEN k - 1 + 1 ELSE 0
    BY <2>1, SubSeqProperties
  <2>3. Len(SubSeq(c, 1, k)) = k
    BY <2>1, <2>2
  <2> QED BY <2>3 DEF k
<1>4. ASSUME NEW i \in 1..(n - 1) PROVE SubSeq(c, 1, n - 1)[i] = c[i]
  <2>1. SubSeq(c, 1, n - 1)[i] = c[1 + i - 1] /\ 1 + i - 1 = i
    BY <1>1
  <2> QED BY <2>1
<1> QED BY <1>1, <1>2, <1>3, <1>4 DEF Front, Last

\* The stack of calls without its top.
LEMMA FrontCalls ==
  ASSUME NEW calls \in Seq(CallFrame), calls # <<>>
  PROVE  /\ Front(calls) \in Seq(CallFrame) /\ Len(Front(calls)) = Len(calls) - 1
         /\ \A i \in 1..(Len(calls) - 1) : Front(calls)[i] = calls[i]
         /\ Last(calls) = calls[Len(calls)] /\ Last(calls) \in CallFrame
         /\ Len(calls) \in Nat /\ Len(calls) >= 1
BY FrontLast

\* The contexts without the innermost.
LEMMA FrontContexts ==
  ASSUME NEW c \in Seq(Context), c # <<>>
  PROVE  /\ Front(c) \in Seq(Context) /\ Len(Front(c)) = Len(c) - 1
         /\ Len(c) \in Nat /\ Len(c) >= 1
BY FrontLast

\* The stack of calls with one more.
LEMMA AppendCalls ==
  ASSUME NEW calls \in Seq(CallFrame), NEW f \in CallFrame
  PROVE  /\ Append(calls, f) \in Seq(CallFrame) /\ Len(Append(calls, f)) = Len(calls) + 1
         /\ \A i \in 1..Len(calls) : Append(calls, f)[i] = calls[i]
         /\ Append(calls, f)[Len(calls) + 1] = f
         /\ Append(calls, f) # <<>> /\ Last(Append(calls, f)) = f
         /\ Len(calls) \in Nat
BY DEF Last

\* The calls below the running function wait.
LEMMA StackBehind ==
  ASSUME NEW calls, NEW n \in Nat, Stack(calls, n), calls # <<>>
  PROVE  Behind(Front(calls), n)
<1>1. calls \in Seq(CallFrame)
  BY DEF Stack
<1> DEFINE rest == Front(calls)
<1>2. /\ rest \in Seq(CallFrame) /\ Len(rest) = Len(calls) - 1 /\ Len(calls) \in Nat
      /\ \A i \in 1..(Len(calls) - 1) : rest[i] = calls[i]
  BY <1>1, FrontCalls
<1> HIDE DEF rest
<1>3. ASSUME NEW i \in 1..Len(rest)
      PROVE  FrameFits(rest[i], n) /\ rest[i].at \in Waits(i)
  <2>1. i \in 1..Len(calls) /\ i < Len(calls) /\ rest[i] = calls[i]
    BY <1>2
  <2> QED BY <2>1 DEF Stack
<1> QED BY <1>2, <1>3 DEF Behind, rest

\* More events do not disturb those that wait.
LEMMA BehindGrows ==
  ASSUME NEW calls, NEW n \in Nat, NEW m \in Nat, n <= m, Behind(calls, n)
  PROVE  Behind(calls, m)
<1>1. ASSUME NEW f, FrameFits(f, n) PROVE FrameFits(f, m)
  BY <1>1 DEF FrameFits
<1> QED BY <1>1 DEF Behind

\* A call that waits may be run on, at any time.
LEMMA BehindStack ==
  ASSUME NEW calls, NEW n \in Nat, Behind(calls, n)
  PROVE  Stack(calls, n)
<1>1. \A i : Waits(i) \subseteq Runs(i)
  BY DEF Waits, Runs, StreamLabels, DocLabels
<1> QED BY <1>1 DEF Behind, Stack

\* A function that runs above those that wait.
LEMMA RunAbove ==
  ASSUME NEW calls, NEW n \in Nat, Behind(calls, n),
         NEW f \in CallFrame, FrameFits(f, n), f.at \in Runs(Len(calls) + 1)
  PROVE  Stack(Append(calls, f), n)
<1> DEFINE c == Append(calls, f)
           k == Len(calls)
<1>1. calls \in Seq(CallFrame)
  BY DEF Behind
<1>2. /\ c \in Seq(CallFrame) /\ Len(c) = k + 1 /\ c[k + 1] = f /\ k \in Nat
      /\ \A i \in 1..k : c[i] = calls[i]
  BY <1>1, AppendCalls
<1>3. \A i : Waits(i) \subseteq Runs(i)
  BY DEF Waits, Runs, StreamLabels, DocLabels
<1>4. \A i \in 1..k : FrameFits(calls[i], n) /\ calls[i].at \in Waits(i)
  BY DEF Behind
<1>5. f.at \in Runs(k + 1)
  OBVIOUS
<1> HIDE DEF c, k
<1>6. ASSUME NEW i \in 1..Len(c)
      PROVE  /\ FrameFits(c[i], n) /\ c[i].at \in Runs(i)
             /\ i < Len(c) => c[i].at \in Waits(i)
  <2>1. CASE i = k + 1
    BY <1>2, <1>5, <2>1
  <2>2. CASE i \in 1..k
    BY <1>2, <1>3, <1>4, <2>2
  <2> QED BY <1>2, <2>1, <2>2
<1>7. Stack(c, n)
  BY <1>2, <1>6 DEF Stack
<1> QED BY <1>7 DEF c

\* A function that waits above those that wait.
LEMMA WaitAbove ==
  ASSUME NEW calls, NEW n \in Nat, Behind(calls, n),
         NEW f \in CallFrame, FrameFits(f, n), f.at \in Waits(Len(calls) + 1)
  PROVE  Behind(Append(calls, f), n)
<1> DEFINE c == Append(calls, f)
           k == Len(calls)
<1>1. calls \in Seq(CallFrame)
  BY DEF Behind
<1>2. /\ c \in Seq(CallFrame) /\ Len(c) = k + 1 /\ c[k + 1] = f /\ k \in Nat
      /\ \A i \in 1..k : c[i] = calls[i]
  BY <1>1, AppendCalls
<1>3. \A i \in 1..k : FrameFits(calls[i], n) /\ calls[i].at \in Waits(i)
  BY DEF Behind
<1>4. f.at \in Waits(k + 1)
  OBVIOUS
<1> HIDE DEF c, k
<1>5. ASSUME NEW i \in 1..Len(c)
      PROVE  FrameFits(c[i], n) /\ c[i].at \in Waits(i)
  <2>1. CASE i = k + 1
    BY <1>2, <1>4, <2>1
  <2>2. CASE i \in 1..k
    BY <1>2, <1>3, <2>2
  <2> QED BY <1>2, <2>1, <2>2
<1>6. Behind(c, n)
  BY <1>2, <1>5 DEF Behind
<1> QED BY <1>6 DEF c

\* One more call, one more context if it is inside a collection.
LEMMA AppendContexts ==
  ASSUME NEW calls \in Seq(CallFrame), NEW f \in CallFrame
  PROVE  /\ ContextFrames(calls) \in Nat
         /\ ContextFrames(Append(calls, f)) = ContextFrames(calls) + Own(f.at)
<1> DEFINE c == Append(calls, f)
           k == Len(calls)
           A == {i \in 1..k : calls[i].at \in WithContext}
           B == {i \in 1..Len(c) : c[i].at \in WithContext}
<1>1. /\ c \in Seq(CallFrame) /\ Len(c) = k + 1 /\ c[k + 1] = f /\ k \in Nat
      /\ \A i \in 1..k : c[i] = calls[i]
  BY AppendCalls
<1>2. IsFiniteSet(A) /\ Cardinality(A) \in Nat
  <2>1. IsFiniteSet(1..k)
    BY <1>1, FS_Interval
  <2>2. IsFiniteSet(A)
    BY <2>1, FS_Subset
  <2> QED BY <2>2, FS_CardinalityType
<1>5. ContextFrames(calls) = Cardinality(A) /\ ContextFrames(c) = Cardinality(B)
  BY DEF ContextFrames
<1>3. CASE f.at \in WithContext
  <2>1. B = A \cup {k + 1} /\ k + 1 \notin A
    <3> HIDE DEF c, k
    <3> QED BY <1>1, <1>3
  <2>2. Cardinality(A \cup {k + 1}) = Cardinality(A) + 1
    <3> HIDE DEF A, k
    <3>1. k + 1 \notin A
      BY <2>1 DEF A
    <3> QED BY <1>2, <3>1, FS_AddElement
  <2>3. Cardinality(B) = Cardinality(A) + 1
    BY <2>1, <2>2
  <2>4. Own(f.at) = 1
    BY <1>3 DEF Own
  <2> HIDE DEF A, B
  <2> QED BY <1>2, <1>5, <2>3, <2>4
<1>4. CASE f.at \notin WithContext
  <2>1. B = A
    <3> HIDE DEF c, k
    <3> QED BY <1>1, <1>4
  <2>2. Own(f.at) = 0
    BY <1>4 DEF Own
  <2>3. Cardinality(B) = Cardinality(A)
    BY <2>1
  <2> HIDE DEF A, B
  <2> QED BY <1>2, <1>5, <2>2, <2>3
<1> QED BY <1>3, <1>4

\* The calls are those below the running function, and it.
LEMMA StackContexts ==
  ASSUME NEW calls \in Seq(CallFrame), calls # <<>>
  PROVE  /\ ContextFrames(Front(calls)) \in Nat
         /\ ContextFrames(calls) = ContextFrames(Front(calls)) + Own(Last(calls).at)
<1> DEFINE rest == Front(calls)
           f == Last(calls)
<1>1. rest \in Seq(CallFrame) /\ f \in CallFrame
  BY FrontCalls
<1>2. calls = Append(rest, f)
  <2>1. /\ Len(rest) = Len(calls) - 1 /\ Len(calls) \in Nat /\ Len(calls) >= 1
        /\ \A i \in 1..(Len(calls) - 1) : rest[i] = calls[i]
        /\ f = calls[Len(calls)]
    BY FrontCalls
  <2> HIDE DEF rest, f
  <2>2. /\ Append(rest, f) \in Seq(CallFrame) /\ Len(Append(rest, f)) = Len(calls)
        /\ \A i \in 1..Len(rest) : Append(rest, f)[i] = rest[i]
        /\ Append(rest, f)[Len(rest) + 1] = f
    BY <1>1, <2>1, AppendCalls
  <2>3. ASSUME NEW i \in 1..Len(calls) PROVE Append(rest, f)[i] = calls[i]
    <3>1. CASE i = Len(calls)
      BY <2>1, <2>2, <3>1
    <3>2. CASE i \in 1..Len(rest)
      BY <2>1, <2>2, <3>2
    <3> QED BY <2>1, <3>1, <3>2
  <2> QED BY <2>2, <2>3, SeqEqual
<1> HIDE DEF rest, f
<1>3. /\ ContextFrames(rest) \in Nat
      /\ ContextFrames(Append(rest, f)) = ContextFrames(rest) + Own(f.at)
  BY <1>1, AppendContexts
<1> QED BY <1>2, <1>3 DEF rest, f

\* No calls, no contexts.
LEMMA NoContexts == ContextFrames(<<>>) = 0
BY FS_EmptySet DEF ContextFrames

-----------------------------------------------------------------------------
(***************************************************************************)
(* The events queued.                                                      *)
(***************************************************************************)

\* A document starts in the events and does not end.
DocIn(events) ==
  \E i \in 1..Len(events) : /\ events[i].type = "DOC_START"
                            /\ \A j \in i..Len(events) : events[j].type # "DOC_END"

DocTypes == {"DOC_START", "DOC_END"}

\* An event with its properties is one the list can hold.
LEMMA EventType ==
  ASSUME NEW type \in Stream!Event, NEW props \in Props
  PROVE  EventWith(type, props) \in EagerEvent /\ EventWith(type, props).type = type
BY DEF EventWith, EagerEvent, Props

\* An event appended leaves the earlier ones where they are.
LEMMA AppendEvents ==
  ASSUME NEW s \in Seq(EagerEvent), NEW e \in EagerEvent
  PROVE  /\ Append(s, e) \in Seq(EagerEvent) /\ Len(Append(s, e)) = Len(s) + 1
         /\ \A i \in 1..Len(s) : Append(s, e)[i] = s[i]
         /\ Append(s, e)[Len(s) + 1] = e
         /\ Len(s) \in Nat
OBVIOUS

\* An event added to the queue.
LEMMA AppendDoc ==
  ASSUME NEW s \in Seq(EagerEvent), NEW e \in EagerEvent
  PROVE  /\ e.type = "DOC_START" => DocIn(Append(s, e))
         /\ e.type = "DOC_END" => ~DocIn(Append(s, e))
         /\ e.type \notin DocTypes => (DocIn(Append(s, e)) <=> DocIn(s))
<1> DEFINE t == Append(s, e)
           n == Len(s)
<1>1. /\ n \in Nat /\ Len(t) = n + 1 /\ t[n + 1] = e
      /\ \A i \in 1..n : t[i] = s[i]
  BY AppendEvents
<1> HIDE DEF t, n
<1>2. e.type = "DOC_START" => DocIn(t)
  <2> SUFFICES ASSUME e.type = "DOC_START" PROVE DocIn(t)
    OBVIOUS
  <2>1. n + 1 \in 1..Len(t) /\ \A j \in (n + 1)..Len(t) : j = n + 1
    BY <1>1
  <2> QED BY <1>1, <2>1 DEF DocIn
<1>3. e.type = "DOC_END" => ~DocIn(t)
  <2> SUFFICES ASSUME e.type = "DOC_END", NEW i \in 1..Len(t)
               PROVE  ~ \A j \in i..Len(t) : t[j].type # "DOC_END"
    BY DEF DocIn
  <2>1. n + 1 \in i..Len(t)
    BY <1>1
  <2> QED BY <1>1, <2>1
<1>4. e.type \notin DocTypes => (DocIn(t) <=> DocIn(s))
  <2> SUFFICES ASSUME e.type \notin DocTypes PROVE DocIn(t) <=> DocIn(s)
    OBVIOUS
  <2>1. e.type # "DOC_START" /\ e.type # "DOC_END"
    BY DEF DocTypes
  <2>2. ASSUME DocIn(t) PROVE DocIn(s)
    <3>1. PICK i \in 1..Len(t) : /\ t[i].type = "DOC_START"
                                 /\ \A j \in i..Len(t) : t[j].type # "DOC_END"
      BY <2>2 DEF DocIn
    <3>2. i \in 1..n
      BY <1>1, <2>1, <3>1
    <3>3. s[i].type = "DOC_START"
      BY <1>1, <3>1, <3>2
    <3>4. ASSUME NEW j \in i..n PROVE s[j].type # "DOC_END"
      <4>1. j \in 1..n /\ j \in i..Len(t)
        BY <1>1, <3>2
      <4> QED BY <1>1, <3>1, <4>1
    <3> QED BY <3>2, <3>3, <3>4 DEF DocIn, n
  <2>3. ASSUME DocIn(s) PROVE DocIn(t)
    <3>1. PICK i \in 1..n : /\ s[i].type = "DOC_START"
                            /\ \A j \in i..n : s[j].type # "DOC_END"
      BY <2>3 DEF DocIn, n
    <3>2. i \in 1..Len(t) /\ t[i].type = "DOC_START"
      BY <1>1, <3>1
    <3>3. ASSUME NEW j \in i..Len(t) PROVE t[j].type # "DOC_END"
      <4>1. CASE j = n + 1
        BY <1>1, <2>1, <4>1
      <4>2. CASE j \in i..n
        BY <1>1, <3>1, <4>2
      <4> QED BY <1>1, <3>1, <4>1, <4>2
    <3> QED BY <3>2, <3>3 DEF DocIn
  <2> QED BY <2>2, <2>3
<1> QED BY <1>2, <1>3, <1>4 DEF t

\* An event put in its place.
LEMMA InsertEvents ==
  ASSUME NEW s \in Seq(EagerEvent), NEW e \in EagerEvent, NEW k \in 1..(Len(s) + 1)
  PROVE  /\ InsertAt(s, k, e) \in Seq(EagerEvent)
         /\ Len(InsertAt(s, k, e)) = Len(s) + 1
         /\ \A i \in 1..(k - 1) : InsertAt(s, k, e)[i] = s[i]
         /\ InsertAt(s, k, e)[k] = e
         /\ \A i \in (k + 1)..(Len(s) + 1) : InsertAt(s, k, e)[i] = s[i - 1]
<1> DEFINE n == Len(s)
           j == k - 1
           a == SubSeq(s, 1, j)
           b == SubSeq(s, k, n)
           t == (a \o <<e>>) \o b
<1>1. /\ n \in Nat /\ k \in Nat /\ j \in Nat /\ k = j + 1 /\ k <= n + 1
      /\ \A i \in 1..n : s[i] \in EagerEvent
  OBVIOUS
<1> HIDE DEF n, j
<1>2. /\ a \in Seq(EagerEvent) /\ Len(a) = j /\ \A i \in 1..j : a[i] = s[i]
  <2>1. /\ \A i \in 1..j : s[i] \in EagerEvent
    BY <1>1
  <2>2. /\ SubSeq(s, 1, j) \in Seq(EagerEvent)
        /\ Len(SubSeq(s, 1, j)) = IF 1 <= j THEN j - 1 + 1 ELSE 0
        /\ \A i \in 1..(j - 1 + 1) : SubSeq(s, 1, j)[i] = s[1 + i - 1]
    BY <1>1, <2>1, SubSeqProperties
  <2> HIDE DEF a
  <2>3. Len(a) = j /\ \A i \in 1..j : a[i] = s[1 + i - 1]
    BY <1>1, <2>2 DEF a
  <2>4. ASSUME NEW i \in 1..j PROVE a[i] = s[i]
    <3>1. 1 + i - 1 = i
      BY <1>1
    <3> QED BY <2>3, <3>1
  <2> QED BY <2>2, <2>3, <2>4 DEF a
<1>3. /\ b \in Seq(EagerEvent) /\ Len(b) = n - j
      /\ \A i \in 1..(n - j) : b[i] = s[j + i]
  <2>1. /\ \A i \in k..n : s[i] \in EagerEvent
    BY <1>1
  <2>2. /\ SubSeq(s, k, n) \in Seq(EagerEvent)
        /\ Len(SubSeq(s, k, n)) = IF k <= n THEN n - k + 1 ELSE 0
        /\ \A i \in 1..(n - k + 1) : SubSeq(s, k, n)[i] = s[k + i - 1]
    BY <1>1, <2>1, SubSeqProperties
  <2> HIDE DEF b
  <2>3. Len(b) = n - j /\ \A i \in 1..(n - j) : b[i] = s[k + i - 1]
    <3>1. n - k + 1 = n - j /\ (IF k <= n THEN n - k + 1 ELSE 0) = n - j
      BY <1>1
    <3> QED BY <2>2, <3>1 DEF b
  <2>4. ASSUME NEW i \in 1..(n - j) PROVE b[i] = s[j + i]
    <3>1. k + i - 1 = j + i
      BY <1>1
    <3> QED BY <2>3, <3>1
  <2> QED BY <2>2, <2>3, <2>4 DEF b
<1> HIDE DEF a, b
<1>4. /\ a \o <<e>> \in Seq(EagerEvent) /\ Len(a \o <<e>>) = j + 1
      /\ \A i \in 1..j : (a \o <<e>>)[i] = a[i]
      /\ (a \o <<e>>)[j + 1] = e
  BY <1>1, <1>2
<1> DEFINE c == a \o <<e>>
<1> HIDE DEF c
<1>5. /\ t = c \o b
      /\ c \in Seq(EagerEvent) /\ Len(c) = k
      /\ \A i \in 1..j : c[i] = s[i]
      /\ c[k] = e
  BY <1>1, <1>2, <1>4 DEF c
<1> HIDE DEF t
<1>6. /\ t \in Seq(EagerEvent) /\ Len(t) = k + (n - j)
      /\ \A i \in 1..k : t[i] = c[i]
      /\ \A i \in (k + 1)..(k + (n - j)) : t[i] = b[i - k]
  <2>1. t \in Seq(EagerEvent) /\ Len(t) = Len(c) + Len(b)
    <3>1. c \o b \in Seq(EagerEvent) /\ Len(c \o b) = Len(c) + Len(b)
      BY <1>3, <1>5, ConcatProperties
    <3> QED BY <1>5, <3>1
  <2>2. ASSUME NEW i \in 1..k PROVE t[i] = c[i]
    BY <1>1, <1>3, <1>5
  <2>3. ASSUME NEW i \in (k + 1)..(k + (n - j)) PROVE t[i] = b[i - k]
    <3>1. i \in (Len(c) + 1)..(Len(c) + Len(b)) /\ i - Len(c) = i - k
      <4>1. Len(c) = k /\ Len(b) = n - j
        BY <1>3, <1>5
      <4> QED BY <1>1, <4>1
    <3>2. (c \o b)[i] = b[i - Len(c)]
      <4>1. /\ c \in Seq(EagerEvent) /\ b \in Seq(EagerEvent) /\ i \in 1..(Len(c) + Len(b))
            /\ ~(i <= Len(c)) /\ Len(c) \in Nat
        BY <1>3, <1>5, <3>1
      <4> QED BY <4>1, ConcatProperties
    <3> QED BY <1>5, <3>1, <3>2
  <2> QED BY <1>3, <1>5, <2>1, <2>2, <2>3
<1>7. k + (n - j) = n + 1
  BY <1>1
<1>8. ASSUME NEW i \in (k + 1)..(n + 1) PROVE t[i] = s[i - 1]
  <2>1. i \in (k + 1)..(k + (n - j)) /\ i - k \in 1..(n - j) /\ j + (i - k) = i - 1
    BY <1>1
  <2>2. t[i] = b[i - k] /\ b[i - k] = s[j + (i - k)]
    BY <1>3, <1>6, <2>1
  <2> QED BY <2>1, <2>2
<1>9. t[k] = e /\ \A i \in 1..j : t[i] = s[i]
  BY <1>1, <1>5, <1>6
<1>10. InsertAt(s, k, e) = t
  BY DEF InsertAt, t, c, a, b, j, n
<1> QED BY <1>6, <1>7, <1>8, <1>9, <1>10 DEF j, n

\* An event inserted that is no document's start or end leaves open what is open.
LEMMA InsertDoc ==
  ASSUME NEW s \in Seq(EagerEvent), NEW e \in EagerEvent, NEW k \in 1..(Len(s) + 1),
         e.type \notin DocTypes
  PROVE  DocIn(InsertAt(s, k, e)) <=> DocIn(s)
<1> DEFINE t == InsertAt(s, k, e)
           n == Len(s)
<1>1. /\ n \in Nat /\ k \in 1..(n + 1) /\ Len(t) = n + 1 /\ t[k] = e
      /\ \A i \in 1..(k - 1) : t[i] = s[i]
      /\ \A i \in (k + 1)..(n + 1) : t[i] = s[i - 1]
  BY InsertEvents
<1> HIDE DEF t, n
<1>2. e.type # "DOC_START" /\ e.type # "DOC_END"
  BY DEF DocTypes
<1> DEFINE to(i) == IF i < k THEN i ELSE i + 1
<1>3. \A i \in 1..n : to(i) \in 1..(n + 1) /\ to(i) # k /\ t[to(i)] = s[i]
  <2> SUFFICES ASSUME NEW i \in 1..n PROVE to(i) \in 1..(n + 1) /\ to(i) # k /\ t[to(i)] = s[i]
    OBVIOUS
  <2>1. CASE i < k
    BY <1>1, <2>1
  <2>2. CASE ~(i < k)
    <3>1. i + 1 \in (k + 1)..(n + 1) /\ (i + 1) - 1 = i
      BY <1>1, <2>2
    <3>2. t[i + 1] = s[(i + 1) - 1]
      BY <1>1, <3>1
    <3> QED BY <1>1, <2>2, <3>1, <3>2
  <2> QED BY <2>1, <2>2
<1>4. \A m \in 1..(n + 1) : m # k => \E i \in 1..n : to(i) = m
  <2> SUFFICES ASSUME NEW m \in 1..(n + 1), m # k PROVE \E i \in 1..n : to(i) = m
    OBVIOUS
  <2>1. CASE m < k
    <3>1. m \in 1..n /\ to(m) = m
      BY <1>1, <2>1
    <3> QED BY <3>1
  <2>2. CASE m > k
    <3>1. m - 1 \in 1..n /\ to(m - 1) = m
      BY <1>1, <2>2
    <3> QED BY <3>1
  <2> QED BY <1>1, <2>1, <2>2
<1>5. \A i, j \in 1..n : i <= j <=> to(i) <= to(j)
  BY <1>1
<1> HIDE DEF to
<1>6. ASSUME DocIn(t) PROVE DocIn(s)
  <2>1. PICK m \in 1..(n + 1) : /\ t[m].type = "DOC_START"
                                /\ \A j \in m..(n + 1) : t[j].type # "DOC_END"
    BY <1>1, <1>6 DEF DocIn
  <2>2. PICK i \in 1..n : to(i) = m
    BY <1>1, <1>2, <1>4, <2>1
  <2>3. ASSUME NEW j \in i..n PROVE s[j].type # "DOC_END"
    <3>1. j \in 1..n /\ to(i) <= to(j)
      BY <1>1, <1>5, <2>2
    <3>2. to(j) \in m..(n + 1)
      BY <1>1, <1>3, <2>2, <3>1
    <3> QED BY <1>3, <2>1, <3>1, <3>2
  <2>4. s[i].type = "DOC_START"
    BY <1>3, <2>1, <2>2
  <2> QED BY <2>3, <2>4 DEF DocIn, n
<1>7. ASSUME DocIn(s) PROVE DocIn(t)
  <2>1. PICK i \in 1..n : /\ s[i].type = "DOC_START"
                          /\ \A j \in i..n : s[j].type # "DOC_END"
    BY <1>7 DEF DocIn, n
  <2>2. to(i) \in 1..Len(t) /\ t[to(i)].type = "DOC_START"
    BY <1>1, <1>3, <2>1
  <2>3. ASSUME NEW m \in to(i)..Len(t) PROVE t[m].type # "DOC_END"
    <3>1. m \in 1..(n + 1)
      BY <1>1, <2>2
    <3>2. CASE m = k
      BY <1>1, <1>2, <3>2
    <3>3. CASE m # k
      <4>1. PICK j \in 1..n : to(j) = m
        BY <1>4, <3>1, <3>3
      <4>2. i <= j
        BY <1>1, <1>5, <2>1, <2>2, <4>1
      <4>3. j \in i..n
        BY <1>1, <4>2
      <4> QED BY <1>3, <2>1, <4>1, <4>3
    <3> QED BY <3>2, <3>3
  <2> QED BY <2>2, <2>3 DEF DocIn
<1> QED BY <1>6, <1>7 DEF t

\* An event whose properties are changed.
LEMMA ReplaceEvents ==
  ASSUME NEW s \in Seq(EagerEvent), NEW k, NEW props \in Props
  PROVE  LET t == [s EXCEPT ![k] = EventWith(@.type, props)]
         IN  t \in Seq(EagerEvent) /\ Len(t) = Len(s) /\ (DocIn(t) <=> DocIn(s))
<1> DEFINE t == [s EXCEPT ![k] = EventWith(@.type, props)]
           n == Len(s)
<1>1. n \in Nat /\ DOMAIN s = 1..n /\ \A i \in 1..n : s[i] \in EagerEvent
  OBVIOUS
<1>2. t = [i \in 1..n |-> IF i = k THEN EventWith(s[k].type, props) ELSE s[i]]
  BY <1>1
<1> HIDE DEF t, n
<1>3. ASSUME NEW i \in 1..n PROVE t[i] \in EagerEvent /\ t[i].type = s[i].type
  <2>1. CASE i = k
    <3>1. s[i].type \in Stream!Event
      BY <1>1 DEF EagerEvent
    <3>2. t[i] = EventWith(s[i].type, props)
      BY <1>2, <2>1
    <3> QED BY <3>1, <3>2, EventType
  <2>2. CASE i # k
    BY <1>1, <1>2, <2>2
  <2> QED BY <2>1, <2>2
<1>4. t \in Seq(EagerEvent) /\ Len(t) = n
  BY <1>1, <1>2, <1>3, IsASeq
<1>5. DocIn(t) <=> DocIn(s)
  BY <1>3, <1>4 DEF DocIn, n
<1> QED BY <1>4, <1>5 DEF t, n

-----------------------------------------------------------------------------
(***************************************************************************)
(* The record in the middle of a step.                                     *)
(***************************************************************************)

\* Typed, within the event limit, and only stopped for a limit if it is
\* reached (or the depth is limited too).
Steady(q) ==
  /\ q \in EagerRecord
  /\ Stack(q.calls, Len(q.events))
  /\ MaxEvents > 0 => q.evt_base + Len(q.events) <= MaxEvents
  /\ MaxDepth = 0 /\ "ERR_LIMIT" \in {q.stop_status, q.status} => OverLimit(q)

\* There is a context for every collection a function is inside of.
Matched(q) == Len(q.contexts) = ContextFrames(q.calls)

\* The numbers of events counted elsewhere.
SameCounts(p, q) ==
  /\ q.evt_base = p.evt_base /\ q.cursor = p.cursor /\ q.skip_n = p.skip_n
  /\ q.skip_sig = p.skip_sig /\ q.skip_got = p.skip_got
  /\ Len(p.events) <= Len(q.events)

SameDoc(p, q) ==
  /\ q.doc_open = p.doc_open /\ q.stream_started = p.stream_started
  /\ DocIn(q.events) <=> DocIn(p.events)

\* A function that began its step with the record p has made q of it so far:
\* it still runs, and there are d contexts besides those of its callers.
AtWork(p, q, d) ==
  /\ Steady(p) /\ Steady(q)
  /\ p.calls # <<>> /\ q.calls = p.calls
  /\ SameCounts(p, q) /\ SameDoc(p, q)
  /\ q.status = "OK" /\ ~q.starved
  /\ q.stop_status = "NONE" => p.stop_status = "NONE"
  /\ q.stop_status = "NONE" /\ Matched(p)
       => Len(q.contexts) = ContextFrames(Front(p.calls)) + d

\* The types of the fields the functions read.
LEMMA EagerTypes ==
  ASSUME NEW q, Steady(q)
  PROVE  /\ q \in EagerRecord
         /\ q.scanner \in ScannerState /\ q.current \in Token
         /\ Tok(q) \in TokenType /\ Col(q) \in Nat
         /\ q.current.line \in Nat /\ q.current.pos \in Nat
         /\ q.calls \in Seq(CallFrame) /\ q.events \in Seq(EagerEvent)
         /\ Len(q.events) \in Nat /\ q.contexts \in Seq(Context)
         /\ q.anchor \in Property /\ q.tag \in Property
         /\ q.props_line \in Nat /\ q.props_col \in Nat
         /\ q.evt_base \in Nat /\ q.cursor \in Nat /\ q.skip_n \in Nat
         /\ Pending(q) \in Props /\ NoProps \in Props
BY DEF Steady, EagerRecord, Token, Tok, Col, Pending, Props, NoProps, Property

\* A function begins.
LEMMA WorkBegins ==
  ASSUME NEW p, Steady(p), p.calls # <<>>, p.status = "OK", ~p.starved
  PROVE  AtWork(p, p, Own(Top(p).at))
<1>1. /\ ContextFrames(Front(p.calls)) \in Nat
      /\ ContextFrames(p.calls) = ContextFrames(Front(p.calls)) + Own(Top(p).at)
  <2>1. p.calls \in Seq(CallFrame)
    BY EagerTypes
  <2> QED BY <2>1, StackContexts DEF Top
<1>2. SameCounts(p, p) /\ SameDoc(p, p)
  BY EagerTypes DEF SameCounts, SameDoc
<1> QED BY <1>1, <1>2 DEF AtWork, Matched

\* What concerns neither the calls, the events nor the contexts.
Alike(r, q) ==
  /\ r.calls = q.calls /\ r.events = q.events /\ r.contexts = q.contexts
  /\ r.evt_base = q.evt_base /\ r.cursor = q.cursor /\ r.skip_n = q.skip_n
  /\ r.skip_sig = q.skip_sig /\ r.skip_got = q.skip_got
  /\ r.status = q.status /\ r.starved = q.starved /\ r.stop_status = q.stop_status
  /\ r.doc_open = q.doc_open /\ r.stream_started = q.stream_started

\* A record that differs only in other fields is as steady,
LEMMA AlikeSteady ==
  ASSUME NEW q, Steady(q), NEW r \in EagerRecord, Alike(r, q)
  PROVE  Steady(r)
BY DEF Steady, Alike, OverLimit

\* and its function as far.
LEMMA AlikeWork ==
  ASSUME NEW p, NEW q, NEW d, AtWork(p, q, d), NEW r \in EagerRecord, Alike(r, q)
  PROVE  AtWork(p, r, d)
<1>1. Steady(r)
  BY AlikeSteady DEF AtWork
<1> QED BY <1>1 DEF AtWork, Alike, SameCounts, SameDoc

\* consume: the token is gone, nothing else.
LEMMA ConsumeWork ==
  ASSUME NEW p, NEW q, NEW d, AtWork(p, q, d)
  PROVE  AtWork(p, Consume(q), d)
<1>1. q \in EagerRecord
  BY DEF AtWork, Steady
<1>2. Consume(q) \in EagerRecord /\ Alike(Consume(q), q)
  BY <1>1 DEF Consume, EagerRecord, Alike
<1> QED BY <1>2, AlikeWork

\* The properties that wait for their node are set or dropped.
LEMMA PendingWork ==
  ASSUME NEW p, NEW q, NEW d, AtWork(p, q, d), NEW props \in Props
  PROVE  AtWork(p, WithPending(q, props), d) /\ AtWork(p, DropProps(q), d)
<1>1. q \in EagerRecord
  BY DEF AtWork, Steady
<1>2. ASSUME NEW f \in Props PROVE AtWork(p, WithPending(q, f), d)
  <2>1. f.anchor \in Property /\ f.tag \in Property
    BY DEF Props
  <2>2. WithPending(q, f) \in EagerRecord /\ Alike(WithPending(q, f), q)
    BY <1>1, <2>1 DEF WithPending, EagerRecord, Alike
  <2> QED BY <2>2, AlikeWork
<1>3. NoProps \in Props
  BY DEF NoProps, Props, Property
<1> QED BY <1>2, <1>3 DEF DropProps

\* A reason to stop, if it is true.
LEMMA StopWork ==
  ASSUME NEW p, NEW q, NEW d, AtWork(p, q, d), NEW why \in {"ERR_LIMIT", "ERR_PARSE"},
         why = "ERR_LIMIT" /\ MaxDepth = 0 => OverLimit(q), NEW e
  PROVE  AtWork(p, StopWith(q, why), e) \/ (q.stop_status # "NONE" /\ StopWith(q, why) = q)
<1>1. q \in EagerRecord
  BY DEF AtWork, Steady
<1>2. CASE q.stop_status = "NONE"
  <2> DEFINE msg == IF why = "ERR_LIMIT" THEN "limit" ELSE "parse"
             r == [q EXCEPT !.stop_status = why, !.error_msg = msg]
  <2>1. msg \in EagerMessage
    BY DEF EagerMessage, Message
  <2> HIDE DEF msg
  <2>2. r \in EagerRecord
    BY <1>1, <2>1 DEF EagerRecord
  <2>3. /\ r.calls = q.calls /\ r.events = q.events /\ r.evt_base = q.evt_base
        /\ r.cursor = q.cursor /\ r.skip_n = q.skip_n /\ r.status = q.status
        /\ r.skip_sig = q.skip_sig /\ r.skip_got = q.skip_got
        /\ r.starved = q.starved /\ r.stop_status = why
        /\ r.doc_open = q.doc_open /\ r.stream_started = q.stream_started
    BY <1>1 DEF EagerRecord
  <2>4. StopWith(q, why) = r
    BY <1>2 DEF StopWith, msg
  <2> HIDE DEF r
  <2>5. Steady(r)
    BY <2>2, <2>3 DEF AtWork, Steady, OverLimit
  <2>6. why # "NONE"
    OBVIOUS
  <2> QED BY <2>3, <2>4, <2>5, <2>6 DEF AtWork, SameCounts, SameDoc
<1>3. CASE q.stop_status # "NONE"
  BY <1>3 DEF StopWith
<1> QED BY <1>2, <1>3

\* Then it stays stopped, however many contexts there are.
LEMMA StoppedWork ==
  ASSUME NEW p, NEW q, NEW d, AtWork(p, q, d), q.stop_status # "NONE", NEW e
  PROVE  AtWork(p, q, e)
BY DEF AtWork

\* A function that stops the parser: only the stop status is set, once.
LEMMA StopsWork ==
  ASSUME NEW p, NEW q, NEW d, AtWork(p, q, d), NEW why \in {"ERR_LIMIT", "ERR_PARSE"},
         why = "ERR_LIMIT" /\ MaxDepth = 0 => OverLimit(q), NEW e
  PROVE  AtWork(p, StopWith(q, why), e)
<1>1. AtWork(p, StopWith(q, why), e) \/ (q.stop_status # "NONE" /\ StopWith(q, why) = q)
  BY StopWork
<1> QED BY <1>1, StoppedWork

\* More events, below the limit.
LEMMA EventsWork ==
  ASSUME NEW p, NEW q, NEW d, AtWork(p, q, d), ~OverLimit(q),
         NEW s \in Seq(EagerEvent), Len(s) = Len(q.events) + 1,
         DocIn(s) <=> DocIn(q.events)
  PROVE  AtWork(p, [q EXCEPT !.events = s], d)
<1> DEFINE r == [q EXCEPT !.events = s]
           n == Len(q.events)
<1>1. q \in EagerRecord /\ n \in Nat /\ q.evt_base \in Nat
  BY EagerTypes DEF AtWork
<1>2. r \in EagerRecord
  BY <1>1 DEF EagerRecord
<1>3. /\ r.calls = q.calls /\ r.events = s /\ r.evt_base = q.evt_base
      /\ r.contexts = q.contexts
      /\ r.cursor = q.cursor /\ r.skip_n = q.skip_n /\ r.status = q.status
      /\ r.skip_sig = q.skip_sig /\ r.skip_got = q.skip_got
      /\ r.starved = q.starved /\ r.stop_status = q.stop_status
      /\ r.doc_open = q.doc_open /\ r.stream_started = q.stream_started
  BY <1>1 DEF EagerRecord
<1> HIDE DEF r
<1>4. Stack(r.calls, Len(r.events))
  <2>1. Stack(q.calls, n) /\ q.calls # <<>>
    BY DEF AtWork, Steady
  <2>2. \A f : FrameFits(f, n) => FrameFits(f, n + 1)
    BY <1>1 DEF FrameFits
  <2>3. Stack(q.calls, n + 1)
    BY <2>1, <2>2 DEF Stack
  <2> QED BY <1>3, <2>3
<1>5. MaxEvents > 0 => r.evt_base + Len(r.events) <= MaxEvents
  <2>1. MaxEvents > 0 => ~(q.evt_base + n >= MaxEvents)
    BY DEF OverLimit
  <2> HIDE DEF n
  <2>2. MaxEvents > 0 => q.evt_base + (n + 1) <= MaxEvents
    BY <1>1, <2>1, LimitsAssumption
  <2> QED BY <1>3, <2>2 DEF n
<1>6. ~(MaxDepth = 0 /\ "ERR_LIMIT" \in {r.stop_status, r.status})
  BY <1>3 DEF AtWork, Steady
<1>7. Steady(r)
  BY <1>2, <1>4, <1>5, <1>6 DEF Steady
<1>8. SameCounts(p, r)
  <2>1. Len(p.events) <= n /\ Len(p.events) \in Nat
    BY EagerTypes DEF AtWork, SameCounts
  <2> HIDE DEF n
  <2>2. Len(p.events) <= n + 1
    BY <1>1, <2>1
  <2> QED BY <1>3, <2>2 DEF AtWork, SameCounts, n
<1>9. AtWork(p, r, d)
  BY <1>3, <1>7, <1>8 DEF AtWork, SameDoc
<1> QED BY <1>9 DEF r

\* Queueing an event of a node or a collection (enqueue).
LEMMA EnqueueWork ==
  ASSUME NEW p, NEW q, NEW d, AtWork(p, q, d), NEW type \in Stream!Event \ DocTypes,
         NEW props \in Props
  PROVE  AtWork(p, Enqueue(q, EventWith(type, props)), d)
<1> DEFINE e == EventWith(type, props)
           s == Append(q.events, e)
<1>1. e \in EagerEvent /\ e.type = type /\ q.events \in Seq(EagerEvent)
  BY EventType, EagerTypes DEF AtWork
<1>2. CASE OverLimit(q)
  BY <1>2, StopsWork DEF Enqueue
<1>3. CASE ~OverLimit(q)
  <2> HIDE DEF e
  <2>1. s \in Seq(EagerEvent) /\ Len(s) = Len(q.events) + 1
    BY <1>1, AppendEvents
  <2>2. DocIn(s) <=> DocIn(q.events)
    BY <1>1, AppendDoc
  <2>3. Enqueue(q, e) = [q EXCEPT !.events = s]
    BY <1>3 DEF Enqueue
  <2> HIDE DEF s
  <2>4. AtWork(p, [q EXCEPT !.events = s], d)
    BY <1>3, <2>1, <2>2, EventsWork
  <2> QED BY <2>3, <2>4 DEF e
<1> QED BY <1>2, <1>3

\* The types of nodes' and collections' events.
LEMMA EagerNames ==
  /\ {"SCALAR", "ALIAS", "MAPPING_START", "MAPPING_END", "SEQUENCE_START", "SEQUENCE_END"}
       \subseteq Stream!Event \ DocTypes
  /\ \A type : Start(type) \in {"SEQUENCE_START", "MAPPING_START"}
BY DEF Stream!Event, DocTypes, Start

\* enqueue_event and queue_with_props, of anything but a document's start or end.
LEMMA EnqueuesWork ==
  ASSUME NEW p, NEW q, NEW d, AtWork(p, q, d), NEW type \in Stream!Event \ DocTypes
  PROVE  /\ AtWork(p, EnqueuePlain(q, type), d)
         /\ AtWork(p, EnqueueWithProps(q, type), d)
<1>1. NoProps \in Props /\ Pending(q) \in Props
  BY EagerTypes DEF AtWork
<1>2. AtWork(p, DropProps(q), d)
  BY <1>1, PendingWork
<1> QED BY <1>1, <1>2, EnqueueWork DEF EnqueuePlain, EnqueueWithProps

\* emit_empty.
LEMMA EmptyWork ==
  ASSUME NEW p, NEW q, NEW d, AtWork(p, q, d)
  PROVE  AtWork(p, EmitEmpty(q), d)
BY EnqueuesWork, EagerNames DEF EmitEmpty

\* Inserting one, below the limit.
LEMMA InsertWork ==
  ASSUME NEW p, NEW q, NEW d, AtWork(p, q, d), ~OverLimit(q),
         NEW k \in 1..(Len(q.events) + 1), NEW props \in Props
  PROVE  AtWork(p, InsertEvent(q, k, EventWith("MAPPING_START", props)), d)
<1> DEFINE e == EventWith("MAPPING_START", props)
           s == InsertAt(q.events, k, e)
<1>1. /\ e \in EagerEvent /\ e.type \notin DocTypes /\ q.events \in Seq(EagerEvent)
  BY EventType, EagerTypes, EagerNames DEF AtWork
<1> HIDE DEF e
<1>2. s \in Seq(EagerEvent) /\ Len(s) = Len(q.events) + 1 /\ (DocIn(s) <=> DocIn(q.events))
  BY <1>1, InsertEvents, InsertDoc
<1> HIDE DEF s
<1>3. AtWork(p, [q EXCEPT !.events = s], d)
  BY <1>2, EventsWork
<1> QED BY <1>3 DEF InsertEvent, s, e

\* Changing the properties of one.
LEMMA ReplaceWork ==
  ASSUME NEW p, NEW q, NEW d, AtWork(p, q, d), NEW k, NEW props \in Props
  PROVE  AtWork(p, [q EXCEPT !.events[k] = EventWith(@.type, props)], d)
<1> DEFINE s == [q.events EXCEPT ![k] = EventWith(@.type, props)]
           r == [q EXCEPT !.events = s]
<1>1. q \in EagerRecord /\ q.events \in Seq(EagerEvent)
  BY EagerTypes DEF AtWork
<1>2. s \in Seq(EagerEvent) /\ Len(s) = Len(q.events) /\ (DocIn(s) <=> DocIn(q.events))
  BY <1>1, ReplaceEvents
<1> HIDE DEF s
<1>3. r \in EagerRecord
  BY <1>1, <1>2 DEF EagerRecord
<1>4. /\ r.calls = q.calls /\ r.events = s /\ r.evt_base = q.evt_base
      /\ r.contexts = q.contexts
      /\ r.cursor = q.cursor /\ r.skip_n = q.skip_n /\ r.status = q.status
      /\ r.skip_sig = q.skip_sig /\ r.skip_got = q.skip_got
      /\ r.starved = q.starved /\ r.stop_status = q.stop_status
      /\ r.doc_open = q.doc_open /\ r.stream_started = q.stream_started
  BY <1>1 DEF EagerRecord
<1> HIDE DEF r
<1>5. Steady(r)
  BY <1>2, <1>3, <1>4 DEF AtWork, Steady, OverLimit
<1>6. AtWork(p, r, d)
  BY <1>2, <1>4, <1>5 DEF AtWork, SameCounts, SameDoc
<1>7. [q EXCEPT !.events[k] = EventWith(@.type, props)] = r
  BY <1>1 DEF r, s
<1> QED BY <1>6, <1>7

\* Opening a context (push_ctx): one more, or the parser stops.
LEMMA PushWork ==
  ASSUME NEW p, NEW q, NEW d \in Nat, AtWork(p, q, d),
         NEW type \in BlockContext \cup FlowContext, NEW indent \in Nat
  PROVE  AtWork(p, PushContext(q, type, indent), d + 1)
<1> DEFINE r == PushContext(q, type, indent)
           c == [type |-> type, indent |-> indent]
           s == Append(q.contexts, c)
           t == [q EXCEPT !.contexts = s]
<1>1. q \in EagerRecord /\ q.contexts \in Seq(Context)
  BY EagerTypes DEF AtWork
<1>2. AtWork(p, StopWith(q, "ERR_PARSE"), d + 1)
  BY StopsWork
<1>3. MaxDepth > 0 => AtWork(p, StopWith(q, "ERR_LIMIT"), d + 1)
  BY StopsWork
<1>4. AtWork(p, t, d + 1)
  <2>1. c \in Context
    BY DEF Context
  <2> HIDE DEF c
  <2>2. s \in Seq(Context) /\ Len(s) = Len(q.contexts) + 1
    BY <1>1, <2>1
  <2> HIDE DEF s
  <2>3. t \in EagerRecord
    BY <1>1, <2>2 DEF EagerRecord
  <2>4. /\ t.calls = q.calls /\ t.events = q.events /\ t.evt_base = q.evt_base
        /\ t.contexts = s
        /\ t.cursor = q.cursor /\ t.skip_n = q.skip_n /\ t.status = q.status
        /\ t.skip_sig = q.skip_sig /\ t.skip_got = q.skip_got
        /\ t.starved = q.starved /\ t.stop_status = q.stop_status
        /\ t.doc_open = q.doc_open /\ t.stream_started = q.stream_started
    BY <1>1 DEF EagerRecord
  <2> HIDE DEF t
  <2>5. Steady(t)
    BY <2>3, <2>4 DEF AtWork, Steady, OverLimit
  <2>6. t.stop_status = "NONE" /\ Matched(p)
          => Len(t.contexts) = ContextFrames(Front(p.calls)) + (d + 1)
    <3> SUFFICES ASSUME t.stop_status = "NONE", Matched(p)
                 PROVE  Len(t.contexts) = ContextFrames(Front(p.calls)) + (d + 1)
      OBVIOUS
    <3>1. Len(q.contexts) = ContextFrames(Front(p.calls)) + d
      BY <2>4 DEF AtWork
    <3>2. ContextFrames(Front(p.calls)) \in Nat
      <4>1. p.calls \in Seq(CallFrame) /\ p.calls # <<>>
        BY EagerTypes DEF AtWork
      <4> QED BY <4>1, StackContexts
    <3> QED BY <2>2, <2>4, <3>1, <3>2
  <2> QED BY <2>4, <2>5, <2>6 DEF AtWork, SameCounts, SameDoc
<1>5. \/ r = StopWith(q, "ERR_PARSE") \/ r = t
      \/ MaxDepth > 0 /\ r = StopWith(q, "ERR_LIMIT")
  BY DEF PushContext
<1> QED BY <1>2, <1>3, <1>4, <1>5

\* Leaving the context (pop_ctx).
LEMMA PopWork ==
  ASSUME NEW p, NEW q, AtWork(p, q, 1)
  PROVE  AtWork(p, PopContext(q), 0)
<1> DEFINE s == Front(q.contexts)
           t == [q EXCEPT !.contexts = s]
<1>1. q \in EagerRecord /\ q.contexts \in Seq(Context)
  BY EagerTypes DEF AtWork
<1>2. ContextFrames(Front(p.calls)) \in Nat
  <2>1. p.calls \in Seq(CallFrame) /\ p.calls # <<>>
    BY EagerTypes DEF AtWork
  <2> QED BY <2>1, StackContexts
<1>3. CASE q.contexts = <<>>
  <2>1. ~(q.stop_status = "NONE" /\ Matched(p))
    <3>1. Len(q.contexts) = 0
      BY <1>3
    <3> QED BY <1>2, <3>1 DEF AtWork
  <2>2. PopContext(q) = q
    BY <1>3 DEF PopContext
  <2> QED BY <2>1, <2>2 DEF AtWork
<1>4. CASE q.contexts # <<>>
  <2>1. s \in Seq(Context) /\ Len(s) = Len(q.contexts) - 1 /\ Len(q.contexts) \in Nat
    BY <1>1, <1>4, FrontContexts
  <2> HIDE DEF s
  <2>2. t \in EagerRecord
    BY <1>1, <2>1 DEF EagerRecord
  <2>3. /\ t.calls = q.calls /\ t.events = q.events /\ t.evt_base = q.evt_base
        /\ t.contexts = s
        /\ t.cursor = q.cursor /\ t.skip_n = q.skip_n /\ t.status = q.status
        /\ t.skip_sig = q.skip_sig /\ t.skip_got = q.skip_got
        /\ t.starved = q.starved /\ t.stop_status = q.stop_status
        /\ t.doc_open = q.doc_open /\ t.stream_started = q.stream_started
    BY <1>1 DEF EagerRecord
  <2> HIDE DEF t
  <2>4. Steady(t)
    BY <2>2, <2>3 DEF AtWork, Steady, OverLimit
  <2>5. t.stop_status = "NONE" /\ Matched(p)
          => Len(t.contexts) = ContextFrames(Front(p.calls)) + 0
    <3> SUFFICES ASSUME t.stop_status = "NONE", Matched(p)
                 PROVE  Len(t.contexts) = ContextFrames(Front(p.calls)) + 0
      OBVIOUS
    <3>1. Len(q.contexts) = ContextFrames(Front(p.calls)) + 1
      BY <2>3 DEF AtWork
    <3> QED BY <1>2, <2>1, <2>3, <3>1
  <2>6. AtWork(p, t, 0)
    BY <2>3, <2>4, <2>5 DEF AtWork, SameCounts, SameDoc
  <2> QED BY <1>4, <2>6 DEF PopContext, t, s
<1> QED BY <1>3, <1>4


-----------------------------------------------------------------------------
(***************************************************************************)
(* What a step leaves.                                                     *)
(***************************************************************************)

\* The next token is one at which a document is over.
DocToken(q) == q.have_token /\ Tok(q) \in DocumentEnds \cup {"NONE"}

At(q, labels) == q.calls # <<>> /\ Top(q).at \in labels

\* A document is open exactly if its start is queued, and its end is not:
\* but one that is open when parse_stream goes on is over, and the next
\* event to be queued is its end.
DocLaw(q) ==
  /\ q.doc_open => q.stream_started
  /\ At(q, {"DOCUMENT", "DIRECTIVES"}) => q.stream_started
  /\ ~At(q, {"STREAM", "DOCUMENT", "DIRECTIVES"}) => (q.doc_open <=> DocIn(q.events))
  /\ At(q, {"STREAM", "DOCUMENT", "DIRECTIVES"}) => ~DocIn(q.events)
  /\ q.doc_open /\ (Len(q.calls) <= 1 \/ At(q, {"DOCUMENT"})) => DocToken(q)
  /\ At(q, {"DOCUMENT"}) => q.have_token /\ Tok(q) \notin {"STREAM_END", "NONE"}
  /\ At(q, {"DIRECTIVES"}) => ~q.doc_open

\* A step from p made r of it: it needs more text, it failed, or it went on.
WentOn(p, r) ==
  /\ r.stop_status = "NONE" => p.stop_status = "NONE"
  /\ r.stop_status = "NONE" /\ Matched(p) => Matched(r)
  /\ r.calls = <<>> => r.stop_status = "NONE"
  /\ r.stop_status = "NONE" /\ Matched(p) /\ DocLaw(p) => DocLaw(r)

Stepped(p, r) ==
  \/ r.starved
  \/ Steady(r) /\ SameCounts(p, r) /\ (r.status = "OK" => WentOn(p, r))

\* The function that runs is one of a node or a collection, of a document,
\* or of the stream.
LEMMA Depths ==
  ASSUME NEW p, Steady(p), p.calls # <<>>
  PROVE  /\ Len(p.calls) \in Nat /\ Len(p.calls) >= 1
         /\ Len(Front(p.calls)) = Len(p.calls) - 1
         /\ Top(p) \in CallFrame /\ FrameFits(Top(p), Len(p.events))
         /\ Behind(Front(p.calls), Len(p.events))
         /\ Front(p.calls) \in Seq(CallFrame)
         /\ ContextFrames(Front(p.calls)) \in Nat
         /\ Top(p).at \in Inner => Len(p.calls) >= 3
         /\ Top(p).at \in DocLabels => Len(p.calls) = 2
         /\ Top(p).at \in StreamLabels => Len(p.calls) = 1
<1> DEFINE n == Len(p.calls)
           m == Len(p.events)
<1>1. p.calls \in Seq(CallFrame) /\ Stack(p.calls, m) /\ m \in Nat
  BY EagerTypes DEF Steady
<1>2. /\ n \in Nat /\ n >= 1 /\ Top(p) \in CallFrame /\ Top(p) = p.calls[n]
      /\ Len(Front(p.calls)) = n - 1
      /\ Front(p.calls) \in Seq(CallFrame)
  BY <1>1, FrontCalls DEF Top
<1>3. Behind(Front(p.calls), m)
  BY <1>1, StackBehind
<1>4. ContextFrames(Front(p.calls)) \in Nat
  BY <1>1, StackContexts
<1>5. n \in 1..n
  BY <1>2
<1>6. FrameFits(Top(p), m) /\ Top(p).at \in Runs(n)
  BY <1>1, <1>2, <1>5 DEF Stack
<1> HIDE DEF n, m
<1>7. /\ n = 1 => Top(p).at \in StreamLabels
      /\ n = 2 => Top(p).at \in DocLabels
      /\ n # 1 /\ n # 2 => Top(p).at \in Inner
  BY <1>6 DEF Runs
<1>8. /\ Inner \cap StreamLabels = {} /\ Inner \cap DocLabels = {}
      /\ DocLabels \cap StreamLabels = {}
  BY DEF Inner, StreamLabels, DocLabels
<1>9. /\ Top(p).at \in Inner => n # 1 /\ n # 2
      /\ Top(p).at \in DocLabels => n = 2
      /\ Top(p).at \in StreamLabels => n = 1
  BY <1>7, <1>8
<1>10. Top(p).at \in Inner => n >= 3
  BY <1>2, <1>9
<1> QED BY <1>2, <1>3, <1>4, <1>6, <1>9, <1>10 DEF n, m

\* A record r that differs from q only in its calls, when q is what a function
\* that began with p has made of it.
OnlyCalls(p, q, calls, r) ==
  /\ Steady(r) /\ SameCounts(p, r) /\ r.calls = calls
  /\ r.stop_status = q.stop_status /\ r.status = "OK"
  /\ r.doc_open = q.doc_open /\ r.stream_started = q.stream_started
  /\ r.events = q.events /\ r.contexts = q.contexts
  /\ r.have_token = q.have_token /\ r.current = q.current

\* Only its calls have changed, and to a stack that is one.
LEMMA NewCalls ==
  ASSUME NEW p, NEW q, NEW d \in Nat, AtWork(p, q, d), NEW calls,
         Stack(calls, Len(q.events))
  PROVE  OnlyCalls(p, q, calls, [q EXCEPT !.calls = calls])
<1> DEFINE r == [q EXCEPT !.calls = calls]
<1>1. q \in EagerRecord
  BY EagerTypes DEF AtWork
<1>2. calls \in Seq(CallFrame)
  BY DEF Stack
<1>3. r \in EagerRecord
  BY <1>1, <1>2 DEF EagerRecord
<1>4. /\ r.calls = calls /\ r.events = q.events /\ r.evt_base = q.evt_base
      /\ r.contexts = q.contexts
      /\ r.cursor = q.cursor /\ r.skip_n = q.skip_n /\ r.status = q.status
      /\ r.skip_sig = q.skip_sig /\ r.skip_got = q.skip_got
      /\ r.starved = q.starved /\ r.stop_status = q.stop_status
      /\ r.doc_open = q.doc_open /\ r.stream_started = q.stream_started
      /\ r.have_token = q.have_token /\ r.current = q.current
  BY <1>1 DEF EagerRecord
<1> HIDE DEF r
<1>5. Steady(r)
  BY <1>3, <1>4 DEF AtWork, Steady, OverLimit
<1>6. SameCounts(p, r)
  BY <1>4 DEF AtWork, SameCounts
<1>7. r.status = "OK"
  BY <1>4 DEF AtWork
<1>8. OnlyCalls(p, q, calls, r)
  BY <1>4, <1>5, <1>6, <1>7 DEF OnlyCalls
<1> QED BY <1>8 DEF r

\* Within a node, or back from the document's.
LEMMA StepsInside ==
  ASSUME NEW p, NEW q, NEW d \in Nat, AtWork(p, q, d), Top(p).at \in Inner,
         NEW calls, Stack(calls, Len(q.events)), Len(calls) >= 2,
         Last(calls).at \in Inner \cup {"DOC_DONE"},
         ContextFrames(calls) = ContextFrames(Front(p.calls)) + d
  PROVE  Stepped(p, [q EXCEPT !.calls = calls])
<1> DEFINE r == [q EXCEPT !.calls = calls]
<1>1. /\ Steady(r) /\ SameCounts(p, r) /\ r.calls = calls
      /\ r.stop_status = q.stop_status /\ r.status = "OK"
      /\ r.doc_open = q.doc_open /\ r.stream_started = q.stream_started
      /\ r.events = q.events /\ r.contexts = q.contexts
  <2>1. OnlyCalls(p, q, calls, r)
    BY NewCalls
  <2> HIDE DEF r
  <2> QED BY <2>1 DEF OnlyCalls
<1> HIDE DEF r
<1>2. calls # <<>>
  OBVIOUS
<1>3. r.stop_status = "NONE" => p.stop_status = "NONE"
  BY <1>1 DEF AtWork
<1>4. r.stop_status = "NONE" /\ Matched(p) => Matched(r)
  BY <1>1 DEF AtWork, Matched
<1>5. DocLaw(p) => DocLaw(r)
  <2>1. ~At(r, {"STREAM", "DOCUMENT", "DIRECTIVES"})
    BY <1>1 DEF At, Top, Inner, StreamLabels, DocLabels
  <2>2. ~At(r, {"DOCUMENT"}) /\ ~At(r, {"DIRECTIVES"}) /\ ~At(r, {"DOCUMENT", "DIRECTIVES"})
    BY <1>1 DEF At, Top, Inner, StreamLabels, DocLabels
  <2>3. ~At(p, {"STREAM", "DOCUMENT", "DIRECTIVES"})
    BY DEF At, Inner, StreamLabels, DocLabels
  <2>4. ~(Len(r.calls) <= 1)
    BY <1>1
  <2>5. /\ r.doc_open = p.doc_open /\ r.stream_started = p.stream_started
        /\ DocIn(r.events) <=> DocIn(p.events)
    BY <1>1 DEF AtWork, SameDoc
  <2> QED BY <2>1, <2>2, <2>3, <2>4, <2>5 DEF DocLaw
<1>6. Stepped(p, r)
  BY <1>1, <1>2, <1>3, <1>4, <1>5 DEF Stepped, WentOn
<1> QED BY <1>6 DEF r

\* A frame in place of the running function's.
LEMMA BecomesSteps ==
  ASSUME NEW p, NEW q, NEW d \in Nat, AtWork(p, q, d), Top(p).at \in Inner,
         NEW f \in CallFrame, FrameFits(f, Len(q.events)), f.at \in Inner, d = Own(f.at)
  PROVE  Stepped(p, Become(q, f))
<1> DEFINE rest == Front(p.calls)
           calls == Append(rest, f)
           n == Len(q.events)
<1>1. /\ n \in Nat /\ Len(p.events) \in Nat /\ Len(p.events) <= n
      /\ q.calls = p.calls /\ p.calls # <<>> /\ q \in EagerRecord
  BY EagerTypes DEF AtWork, SameCounts
<1>2. /\ rest \in Seq(CallFrame) /\ Len(rest) = Len(p.calls) - 1 /\ Len(p.calls) \in Nat
      /\ Len(p.calls) >= 3 /\ Behind(rest, Len(p.events))
  BY Depths DEF AtWork
<1>3. Behind(rest, n)
  BY <1>1, <1>2, BehindGrows
<1>4. f.at \in Runs(Len(rest) + 1)
  <2> DEFINE k == Len(p.calls)
             j == Len(rest) + 1
  <2>1. k \in Nat /\ k >= 3 /\ j = k - 1 + 1
    BY <1>2
  <2> HIDE DEF k, j
  <2>2. j # 1 /\ j # 2
    BY <2>1
  <2>3. f.at \in Runs(j)
    BY <2>2 DEF Runs
  <2> QED BY <2>3 DEF j
<1> HIDE DEF n
<1>5. Stack(calls, n)
  <2> HIDE DEF rest
  <2> QED BY <1>1, <1>3, <1>4, RunAbove DEF n
<1>6. Len(calls) = Len(rest) + 1 /\ Last(calls) = f
  <2> HIDE DEF rest
  <2> QED BY <1>2, AppendCalls
<1>7. ContextFrames(calls) = ContextFrames(rest) + d
  <2> HIDE DEF rest
  <2> QED BY <1>2, AppendContexts
<1>8. Len(calls) >= 2
  BY <1>2, <1>6
<1>9. Stepped(p, [q EXCEPT !.calls = calls])
  <2> HIDE DEF calls
  <2> QED BY <1>5, <1>6, <1>7, <1>8, StepsInside DEF n
<1>10. Become(q, f) = [q EXCEPT !.calls = calls]
  BY <1>1 DEF Become
<1> QED BY <1>9, <1>10

\* The function goes on at another place.
LEMMA GoesOn ==
  ASSUME NEW p, NEW q, NEW d \in Nat, AtWork(p, q, d), Top(p).at \in Inner,
         NEW at \in Inner \ Inserts, d = Own(at)
  PROVE  Stepped(p, GoOn(q, at))
<1> DEFINE f == [Top(q) EXCEPT !.at = at]
<1>1. Top(q) \in CallFrame
  <2>1. Top(q) = Top(p) /\ Top(p) \in CallFrame
    BY Depths DEF AtWork, Top
  <2> QED BY <2>1
<1>2. f \in CallFrame /\ f.at = at
  BY <1>1 DEF CallFrame, Inner
<1> HIDE DEF f
<1>3. FrameFits(f, Len(q.events))
  BY <1>2 DEF FrameFits
<1>4. Stepped(p, Become(q, f))
  BY <1>2, <1>3, BecomesSteps
<1> QED BY <1>4 DEF GoOn, f

\* It returns.
LEMMA FinishesSteps ==
  ASSUME NEW p, NEW q, AtWork(p, q, 0), Top(p).at \in Inner
  PROVE  Stepped(p, Finished(q))
<1> DEFINE rest == Front(p.calls)
           n == Len(q.events)
           k == Len(rest)
<1>1. /\ n \in Nat /\ Len(p.events) \in Nat /\ Len(p.events) <= n
      /\ q.calls = p.calls /\ p.calls # <<>> /\ q \in EagerRecord
  BY EagerTypes DEF AtWork, SameCounts
<1>2. /\ rest \in Seq(CallFrame) /\ Len(rest) = Len(p.calls) - 1 /\ Len(p.calls) \in Nat
      /\ Len(p.calls) >= 3 /\ Behind(rest, Len(p.events))
      /\ ContextFrames(rest) \in Nat
  BY Depths DEF AtWork
<1>3. Behind(rest, n)
  BY <1>1, <1>2, BehindGrows
<1>4. Stack(rest, n)
  BY <1>1, <1>3, BehindStack
<1>5. k \in Nat /\ k >= 2 /\ k \in 1..k
  BY <1>2
<1>6. Last(rest).at \in Inner \cup {"DOC_DONE"}
  <2>1. rest[k].at \in Waits(k)
    BY <1>3, <1>5 DEF Behind
  <2>2. Last(rest) = rest[k]
    BY DEF Last
  <2> HIDE DEF k, rest
  <2>3. Waits(k) \subseteq Inner \cup {"DOC_DONE"}
    BY <1>5 DEF Waits
  <2> QED BY <2>1, <2>2, <2>3
<1>7. ContextFrames(rest) = ContextFrames(rest) + 0
  BY <1>2
<1>8. Stepped(p, [q EXCEPT !.calls = rest])
  BY <1>4, <1>5, <1>6, <1>7, StepsInside
<1>9. Finished(q) = [q EXCEPT !.calls = rest]
  BY <1>1 DEF Finished
<1> QED BY <1>8, <1>9

\* One function waits for another.
LEMMA PairSteps ==
  ASSUME NEW p, NEW q, NEW d \in Nat, AtWork(p, q, d), Top(p).at \in Inner,
         NEW f \in CallFrame, FrameFits(f, Len(q.events)), f.at \in Inner,
         NEW g \in CallFrame, FrameFits(g, Len(q.events)), g.at \in Inner,
         d = Own(f.at) + Own(g.at)
  PROVE  Stepped(p, [q EXCEPT !.calls = Front(@) \o <<f, g>>])
<1> DEFINE rest == Front(p.calls)
           below == Append(rest, f)
           calls == Append(below, g)
           n == Len(q.events)
<1>1. /\ n \in Nat /\ Len(p.events) \in Nat /\ Len(p.events) <= n
      /\ q.calls = p.calls /\ p.calls # <<>> /\ q \in EagerRecord
  BY EagerTypes DEF AtWork, SameCounts
<1>2. /\ rest \in Seq(CallFrame) /\ Len(rest) = Len(p.calls) - 1 /\ Len(p.calls) \in Nat
      /\ Len(p.calls) >= 3 /\ Behind(rest, Len(p.events))
  BY Depths DEF AtWork
<1>3. Behind(rest, n)
  BY <1>1, <1>2, BehindGrows
<1>4. f.at \in Waits(Len(rest) + 1)
  <2> DEFINE k == Len(p.calls)
             j == Len(rest) + 1
  <2>1. k \in Nat /\ k >= 3 /\ j = k - 1 + 1
    BY <1>2
  <2> HIDE DEF k, j
  <2>2. j # 1 /\ j # 2
    BY <2>1
  <2>3. f.at \in Waits(j)
    BY <2>2 DEF Waits
  <2> QED BY <2>3 DEF j
<1> HIDE DEF n
<1>6. Behind(below, n)
  <2> HIDE DEF rest
  <2> QED BY <1>1, <1>3, <1>4, WaitAbove DEF n
<1>7. below \in Seq(CallFrame) /\ Len(below) = Len(rest) + 1
  <2> HIDE DEF rest
  <2> QED BY <1>2, AppendCalls
<1>8. ContextFrames(below) = ContextFrames(rest) + Own(f.at) /\ ContextFrames(rest) \in Nat
  <2> HIDE DEF rest
  <2> QED BY <1>2, AppendContexts
<1>9. g.at \in Runs(Len(below) + 1) /\ FrameFits(g, n)
  <2> DEFINE k == Len(p.calls)
             j == Len(below) + 1
  <2>1. k \in Nat /\ k >= 3 /\ j = k - 1 + 1 + 1
    BY <1>2, <1>7
  <2> HIDE DEF k, j
  <2>2. j # 1 /\ j # 2
    BY <2>1
  <2>3. g.at \in Runs(j)
    BY <2>2 DEF Runs
  <2> QED BY <2>3 DEF j, n
<1>10. Stack(calls, n)
  <2> HIDE DEF below
  <2> QED BY <1>1, <1>6, <1>9, RunAbove
<1>11. Len(calls) = Len(below) + 1 /\ Last(calls) = g
  <2> HIDE DEF below
  <2> QED BY <1>7, AppendCalls
<1>12. ContextFrames(calls) = ContextFrames(below) + Own(g.at)
  <2> HIDE DEF below
  <2> QED BY <1>7, AppendContexts
<1>13. ContextFrames(calls) = ContextFrames(rest) + d
  <2>1. Own(f.at) \in Nat /\ Own(g.at) \in Nat
    BY DEF Own
  <2> HIDE DEF calls, below, rest
  <2> QED BY <1>8, <1>12, <2>1
<1>14. Len(calls) >= 2 /\ Last(calls).at \in Inner
  BY <1>2, <1>7, <1>11
<1>15. Stepped(p, [q EXCEPT !.calls = calls])
  <2> HIDE DEF calls
  <2> QED BY <1>10, <1>13, <1>14, StepsInside DEF n
<1>16. rest \o <<f, g>> = calls
  <2> HIDE DEF rest
  <2> QED BY <1>2
<1>17. [q EXCEPT !.calls = Front(@) \o <<f, g>>] = [q EXCEPT !.calls = calls]
  BY <1>1, <1>16
<1> QED BY <1>15, <1>17

\* It calls another one.
LEMMA CallsSteps ==
  ASSUME NEW p, NEW q, NEW d \in Nat, AtWork(p, q, d), Top(p).at \in Inner,
         NEW f \in CallFrame, FrameFits(f, Len(q.events)), f.at \in Inner,
         NEW callee \in Inner \ Inserts, d = Own(f.at) + Own(callee)
  PROVE  Stepped(p, CallThen(q, callee, f))
<1> DEFINE g == NewFrame(callee)
<1>1. g \in CallFrame /\ g.at = callee
  BY DEF NewFrame, CallFrame, Inner, NoProps, Props, Property
<1> HIDE DEF g
<1>2. FrameFits(g, Len(q.events)) /\ g.at \in Inner /\ d = Own(f.at) + Own(g.at)
  BY <1>1 DEF FrameFits
<1>3. Stepped(p, [q EXCEPT !.calls = Front(@) \o <<f, g>>])
  BY <1>1, <1>2, PairSteps
<1> QED BY <1>3 DEF CallThen, g

\* A call of another function, after which the caller goes on elsewhere.
LEMMA CallsAndGoesOn ==
  ASSUME NEW p, NEW q, NEW d \in Nat, AtWork(p, q, d), Top(p).at \in Inner,
         NEW callee \in {"PROPS", "BLOCK_NODE", "FLOW_NODE"},
         NEW at \in Inner \ Inserts, d = Own(at)
  PROVE  Stepped(p, CallAndGoOn(q, callee, at))
<1> DEFINE f == [Top(q) EXCEPT !.at = at]
<1>1. Top(q) \in CallFrame
  <2>1. Top(q) = Top(p) /\ Top(p) \in CallFrame
    BY Depths DEF AtWork, Top
  <2> QED BY <2>1
<1>2. f \in CallFrame /\ f.at = at
  BY <1>1 DEF CallFrame, Inner
<1> HIDE DEF f
<1>3. FrameFits(f, Len(q.events))
  BY <1>2 DEF FrameFits
<1>4. callee \in Inner \ Inserts /\ Own(callee) = 0 /\ Own(at) \in Nat
  BY DEF Inner, Label, StreamLabels, DocLabels, Inserts, Own, WithContext
<1>5. d = Own(f.at) + Own(callee)
  BY <1>2, <1>4
<1>6. Stepped(p, CallThen(q, callee, f))
  BY <1>2, <1>3, <1>4, <1>5, CallsSteps
<1> QED BY <1>6 DEF CallAndGoOn, f

\* It goes on at the same place.
LEMMA StaysSteps ==
  ASSUME NEW p, NEW q, AtWork(p, q, Own(Top(p).at)), Top(p).at \in Inner
  PROVE  Stepped(p, q)
<1>1. q.calls = p.calls /\ p.calls # <<>> /\ q \in EagerRecord /\ Steady(p) /\ Steady(q)
  BY EagerTypes DEF AtWork
<1>2. p.calls \in Seq(CallFrame)
  BY <1>1, EagerTypes
<1>3. ContextFrames(p.calls) = ContextFrames(Front(p.calls)) + Own(Top(p).at)
  BY <1>1, <1>2, StackContexts DEF Top
<1>4. Len(p.calls) \in Nat /\ Len(p.calls) >= 3
  BY <1>1, Depths
<1>5. Own(Top(p).at) \in Nat
  BY DEF Own
<1>6. Stack(p.calls, Len(q.events))
  BY <1>1 DEF Steady
<1>7. Stepped(p, [q EXCEPT !.calls = p.calls])
  <2> DEFINE d == Own(Top(p).at)
             calls == p.calls
  <2>1. /\ d \in Nat /\ Stack(calls, Len(q.events)) /\ Len(calls) >= 2
        /\ ContextFrames(calls) = ContextFrames(Front(p.calls)) + d
        /\ Last(calls).at \in Inner \cup {"DOC_DONE"} /\ AtWork(p, q, d)
    BY <1>3, <1>4, <1>5, <1>6 DEF Top
  <2> HIDE DEF d, calls
  <2>2. Stepped(p, [q EXCEPT !.calls = calls])
    BY <2>1, StepsInside
  <2> QED BY <2>2 DEF calls
<1>8. [q EXCEPT !.calls = p.calls] = q
  BY <1>1 DEF EagerRecord
<1> QED BY <1>7, <1>8

\* An error returns from every function.
LEMMA FailSteps ==
  ASSUME NEW p, NEW q, NEW d, AtWork(p, q, d),
         NEW status \in {"ERR_PARSE", "ERR_SCAN", "ERR_LIMIT"},
         status = "ERR_LIMIT" /\ MaxDepth = 0 => OverLimit(q)
  PROVE  Stepped(p, Fail(q, status)) /\ ~Running(Fail(q, status))
<1> DEFINE r == Fail(q, status)
<1>1. q \in EagerRecord /\ Len(q.events) \in Nat
  BY EagerTypes DEF AtWork
<1>2. r \in EagerRecord
  <2>1. <<>> \in Seq(CallFrame)
    OBVIOUS
  <2> QED BY <1>1, <2>1 DEF EagerRecord, Fail
<1>3. /\ r.calls = <<>> /\ r.events = q.events /\ r.evt_base = q.evt_base
      /\ r.cursor = q.cursor /\ r.skip_n = q.skip_n /\ r.status = status
      /\ r.skip_sig = q.skip_sig /\ r.skip_got = q.skip_got
      /\ r.stop_status = q.stop_status
  BY <1>1 DEF EagerRecord, Fail
<1> HIDE DEF r
<1>4. Stack(r.calls, Len(r.events))
  BY <1>3 DEF Stack
<1>5. Steady(r)
  BY <1>2, <1>3, <1>4 DEF AtWork, Steady, OverLimit
<1>6. SameCounts(p, r)
  BY <1>3 DEF AtWork, SameCounts
<1> QED BY <1>3, <1>5, <1>6 DEF Stepped, r, Running

\* parse_error ends the call with an error.
LEMMA ErrorSteps ==
  ASSUME NEW p, NEW q, NEW d, AtWork(p, q, d)
  PROVE  Stepped(p, EagerError(q)) /\ ~Running(EagerError(q))
<1> DEFINE r == [q EXCEPT !.error_msg = "parse"]
<1>1. q \in EagerRecord
  BY EagerTypes DEF AtWork
<1>2. r \in EagerRecord /\ Alike(r, q)
  BY <1>1 DEF EagerRecord, Alike, EagerMessage, Message
<1>0. EagerError(q) = Fail(r, "ERR_PARSE")
  BY <1>1 DEF EagerError, ParseError, Fail, EagerRecord
<1> HIDE DEF r
<1>3. AtWork(p, r, d)
  BY <1>2, AlikeWork
<1>4. Stepped(p, Fail(r, "ERR_PARSE")) /\ ~Running(Fail(r, "ERR_PARSE"))
  BY <1>3, FailSteps
<1> QED BY <1>0, <1>4

\* The parser has stopped: it fails at the next check.
LEMMA StopsSteps ==
  ASSUME NEW p, NEW q, NEW d, AtWork(p, q, d), OverLimit(q)
  PROVE  /\ Stepped(p, CheckStop(StopWith(q, "ERR_LIMIT")))
         /\ ~Running(CheckStop(StopWith(q, "ERR_LIMIT")))
<1> DEFINE r == StopWith(q, "ERR_LIMIT")
<1>1. q \in EagerRecord
  BY EagerTypes DEF AtWork
<1>2. AtWork(p, r, d)
  BY StopsWork
<1>3. r.stop_status # "NONE"
  BY <1>1 DEF StopWith, EagerRecord
<1> HIDE DEF r
<1>4. r \in EagerRecord /\ r.stop_status \in {"ERR_PARSE", "ERR_LIMIT"}
      /\ (r.stop_status = "ERR_LIMIT" /\ MaxDepth = 0 => OverLimit(r))
  BY <1>2, <1>3 DEF AtWork, Steady, EagerRecord
<1>5. Stepped(p, Fail(r, r.stop_status)) /\ ~Running(Fail(r, r.stop_status))
  BY <1>2, <1>4, FailSteps
<1> QED BY <1>3, <1>5 DEF CheckStop, r

-----------------------------------------------------------------------------
(***************************************************************************)
(* Flow collections.                                                       *)
(***************************************************************************)

\* A function that is about to go on.
Ready(p, at) ==
  /\ Steady(p) /\ p.calls # <<>> /\ Top(p).at = at
  /\ p.status = "OK" /\ ~p.starved

\* The functions of a node that is in no collection yet.
Outside ==
  {"PROPS", "BLOCK_NODE", "BLOCK_NODE_AT", "INNER_NODE", "INNER_SCALAR", "INNER_FLOW",
   "ALIAS_NODE", "SCALAR_NODE", "FLOW_OR_KEY", "MAP_VALUE", "MAP_VALUE_NODE",
   "FLOW_NODE", "FLOW_NODE_AT", "FLOW_SCALAR"}

\* Which functions have a context of their own, and which insert an event.
LEMMA InnerLabels ==
  /\ WithContext \subseteq Inner /\ Outside \subseteq Inner
  /\ Inner \subseteq Label
  /\ \A at \in WithContext : Own(at) = 1
  /\ \A at \in Outside : Own(at) = 0
  /\ WithContext \cap Inserts = {"FLOW_SEQ_NODE"}
  /\ Outside \cap Inserts = {"INNER_FLOW", "FLOW_OR_KEY"}
BY DEF WithContext, Outside, Inner, Label, Own, Inserts, StreamLabels, DocLabels

\* A function inside its own collection begins with one context of its own,
LEMMA ReadyIn ==
  ASSUME NEW p, NEW at \in WithContext, Ready(p, at)
  PROVE  AtWork(p, p, 1) /\ Top(p).at \in Inner /\ Top(p) \in CallFrame
<1>1. Own(at) = 1 /\ at \in Inner
  BY InnerLabels
<1>2. AtWork(p, p, Own(Top(p).at)) /\ Top(p) \in CallFrame
  BY WorkBegins, Depths DEF Ready
<1> QED BY <1>1, <1>2 DEF Ready

\* one outside of any with none.
LEMMA ReadyOut ==
  ASSUME NEW p, NEW at \in Outside, Ready(p, at)
  PROVE  AtWork(p, p, 0) /\ Top(p).at \in Inner /\ Top(p) \in CallFrame
<1>1. Own(at) = 0 /\ at \in Inner
  BY InnerLabels
<1>2. AtWork(p, p, Own(Top(p).at)) /\ Top(p) \in CallFrame
  BY WorkBegins, Depths DEF Ready
<1> QED BY <1>1, <1>2 DEF Ready

\* Going on inside the collection, and outside of any.
LEMMA GoesOnIn ==
  ASSUME NEW p, NEW q, AtWork(p, q, 1), Top(p).at \in Inner,
         NEW at \in WithContext \ {"FLOW_SEQ_NODE"}
  PROVE  Stepped(p, GoOn(q, at))
<1>1. at \in Inner \ Inserts /\ 1 = Own(at)
  BY InnerLabels
<1> QED BY <1>1, GoesOn

\* A node's function goes on as another, outside of any collection.
LEMMA GoesOnOut ==
  ASSUME NEW p, NEW q, AtWork(p, q, 0), Top(p).at \in Inner,
         NEW at \in Outside \ {"INNER_FLOW", "FLOW_OR_KEY"}
  PROVE  Stepped(p, GoOn(q, at))
<1>1. at \in Inner \ Inserts /\ 0 = Own(at)
  BY InnerLabels
<1> QED BY <1>1, GoesOn

\* A collection's function calls a node's.
LEMMA CallsIn ==
  ASSUME NEW p, NEW q, AtWork(p, q, 1), Top(p).at \in Inner,
         NEW callee \in {"PROPS", "BLOCK_NODE", "FLOW_NODE"},
         NEW at \in WithContext \ {"FLOW_SEQ_NODE"}
  PROVE  Stepped(p, CallAndGoOn(q, callee, at))
<1>1. at \in Inner \ Inserts /\ 1 = Own(at)
  BY InnerLabels
<1> QED BY <1>1, CallsAndGoesOn

\* A node's function calls another.
LEMMA CallsOut ==
  ASSUME NEW p, NEW q, AtWork(p, q, 0), Top(p).at \in Inner,
         NEW callee \in {"PROPS", "BLOCK_NODE", "FLOW_NODE"},
         NEW at \in Outside \ {"INNER_FLOW", "FLOW_OR_KEY"}
  PROVE  Stepped(p, CallAndGoOn(q, callee, at))
<1>1. at \in Inner \ Inserts /\ 0 = Own(at)
  BY InnerLabels
<1> QED BY <1>1, CallsAndGoesOn

\* A node or an empty one, a value or an empty one, and what follows.
LEMMA NodeUnlessSteps ==
  ASSUME NEW p, NEW at \in WithContext, Ready(p, at), NEW follow,
         NEW next \in WithContext \ {"FLOW_SEQ_NODE"}
  PROVE  Stepped(p, NodeUnless(p, follow, next))
<1>1. AtWork(p, p, 1) /\ Top(p).at \in Inner
  BY ReadyIn
<1>2. AtWork(p, EmitEmpty(p), 1)
  BY <1>1, EmptyWork
<1>3. Stepped(p, GoOn(EmitEmpty(p), next))
  BY <1>1, <1>2, GoesOnIn
<1>4. Stepped(p, CallAndGoOn(p, "FLOW_NODE", next))
  BY <1>1, CallsIn
<1> QED BY <1>3, <1>4 DEF NodeUnless

\* The value of a pair: a node, or nothing.
LEMMA ValueAtSteps ==
  ASSUME NEW p, NEW at \in WithContext, Ready(p, at),
         NEW node \in WithContext \ {"FLOW_SEQ_NODE"},
         NEW next \in WithContext \ {"FLOW_SEQ_NODE"}
  PROVE  Stepped(p, ValueAt(p, node, next))
<1>1. AtWork(p, p, 1) /\ Top(p).at \in Inner
  BY ReadyIn
<1>2. AtWork(p, EmitEmpty(p), 1) /\ AtWork(p, Consume(p), 1)
  BY <1>1, EmptyWork, ConsumeWork
<1>3. Stepped(p, GoOn(EmitEmpty(p), next))
  BY <1>1, <1>2, GoesOnIn
<1>4. Stepped(p, GoOn(Consume(p), node))
  BY <1>1, <1>2, GoesOnIn
<1> QED BY <1>3, <1>4 DEF ValueAt

\* The end of an entry of a flow collection: a comma, or the closing bracket.
LEMMA EntryEndSteps ==
  ASSUME NEW p, NEW at \in WithContext, Ready(p, at), NEW close,
         NEW loop \in WithContext \ {"FLOW_SEQ_NODE"}
  PROVE  Stepped(p, EntryEnd(p, close, loop))
<1>1. AtWork(p, p, 1) /\ Top(p).at \in Inner
  BY ReadyIn
<1>2. AtWork(p, Consume(p), 1)
  BY <1>1, ConsumeWork
<1>3. Stepped(p, GoOn(Consume(p), loop)) /\ Stepped(p, GoOn(p, loop))
  BY <1>1, <1>2, GoesOnIn
<1>4. Stepped(p, EagerError(p))
  BY <1>1, ErrorSteps
<1> QED BY <1>3, <1>4 DEF EntryEnd

\* A collection ends.
LEMMA CloseFlowSteps ==
  ASSUME NEW p, NEW at \in WithContext, Ready(p, at), NEW end \in {"SEQUENCE_END", "MAPPING_END"}
  PROVE  Stepped(p, CloseFlow(p, end))
<1> DEFINE c == Consume(p)
           r == [c EXCEPT !.close_line = p.current.line]
<1>1. AtWork(p, p, 1) /\ Top(p).at \in Inner
  BY ReadyIn
<1>2. AtWork(p, c, 1)
  BY <1>1, ConsumeWork
<1>3. c \in EagerRecord /\ p.current.line \in Nat
  BY <1>2, EagerTypes DEF AtWork
<1> HIDE DEF c
<1>4. r \in EagerRecord /\ Alike(r, c)
  BY <1>3 DEF EagerRecord, Alike
<1> HIDE DEF r
<1>5. AtWork(p, r, 1)
  BY <1>2, <1>4, AlikeWork
<1>6. AtWork(p, PopContext(EnqueuePlain(r, end)), 0)
  BY <1>5, EnqueuesWork, EagerNames, PopWork
<1>7. Stepped(p, Finished(PopContext(EnqueuePlain(r, end))))
  BY <1>1, <1>6, FinishesSteps
<1> QED BY <1>7 DEF CloseFlow, r, c

\* A collection starts.
LEMMA OpenFlowWork ==
  ASSUME NEW p, AtWork(p, p, 0)
  PROVE  AtWork(p, OpenFlow(p), 1)
<1> DEFINE q == EnqueueWithProps(Consume(p), Start(Tok(p)))
           type == IF Tok(p) = "FLOW_SEQ_START" THEN "FLOW_SEQ" ELSE "FLOW_MAP"
<1>1. AtWork(p, q, 0)
  <2>1. AtWork(p, Consume(p), 0)
    BY ConsumeWork
  <2>2. Start(Tok(p)) \in Stream!Event \ DocTypes
    BY EagerNames
  <2> QED BY <2>1, <2>2, EnqueuesWork
<1>2. Col(p) \in Nat
  BY EagerTypes DEF AtWork
<1>3. type \in BlockContext \cup FlowContext
  BY DEF FlowContext
<1> HIDE DEF q, type
<1>4. AtWork(p, PushContext(q, type, Col(p)), 0 + 1)
  BY <1>1, <1>2, <1>3, PushWork
<1> QED BY <1>4 DEF OpenFlow, q, type

\* parse_flow_sequence, before an entry.
LEMMA FlowSeqSteps ==
  ASSUME NEW p, Ready(p, "FLOW_SEQ")
  PROVE  Stepped(p, FlowSeq(p))
<1> DEFINE f == [Top(p) EXCEPT !.at = "FLOW_SEQ_NODE", !.index = Len(p.events) + 1]
           q == EnqueuePlain(p, "MAPPING_START")
<1>1. AtWork(p, p, 1) /\ Top(p).at \in Inner /\ Top(p) \in CallFrame
  BY ReadyIn DEF WithContext
<1>2. Stepped(p, CloseFlow(p, "SEQUENCE_END"))
  BY CloseFlowSteps DEF WithContext
<1>3. Stepped(p, EagerError(p))
  BY <1>1, ErrorSteps
<1>4. AtWork(p, Consume(q), 1)
  BY <1>1, EnqueuesWork, EagerNames, ConsumeWork
<1>5. Stepped(p, GoOn(Consume(q), "FLOW_PAIR_KEY"))
  BY <1>1, <1>4, GoesOnIn DEF WithContext
<1>6. Stepped(p, CallThen(p, "FLOW_NODE", f))
  <2>1. Len(p.events) \in Nat
    BY <1>1, EagerTypes DEF AtWork
  <2>2. f \in CallFrame /\ f.at = "FLOW_SEQ_NODE" /\ f.index = Len(p.events) + 1
    <3> DEFINE n == Len(p.events) + 1
    <3>1. n \in Nat /\ "FLOW_SEQ_NODE" \in Label
      BY <2>1 DEF Label
    <3> HIDE DEF n
    <3>2. [Top(p) EXCEPT !.at = "FLOW_SEQ_NODE", !.index = n] \in CallFrame
      BY <1>1, <3>1 DEF CallFrame
    <3>3. /\ [Top(p) EXCEPT !.at = "FLOW_SEQ_NODE", !.index = n].at = "FLOW_SEQ_NODE"
          /\ [Top(p) EXCEPT !.at = "FLOW_SEQ_NODE", !.index = n].index = n
      BY <1>1 DEF CallFrame
    <3> QED BY <3>2, <3>3 DEF n
  <2> HIDE DEF f
  <2>3. FrameFits(f, Len(p.events))
    BY <2>1, <2>2 DEF FrameFits
  <2>4. /\ f.at \in Inner /\ "FLOW_NODE" \in Inner \ Inserts /\ Own(f.at) = 1
        /\ Own("FLOW_NODE") = 0
    BY <2>2, InnerLabels DEF Inserts, WithContext, Outside
  <2>5. 1 = Own(f.at) + Own("FLOW_NODE")
    BY <2>4
  <2> QED BY <1>1, <2>2, <2>3, <2>4, <2>5, CallsSteps
<1> QED BY <1>2, <1>3, <1>5, <1>6 DEF FlowSeq

\* After an entry, a ':' makes it a pair's key.
LEMMA FlowSeqNodeSteps ==
  ASSUME NEW p, Ready(p, "FLOW_SEQ_NODE")
  PROVE  Stepped(p, FlowSeqNode(p))
<1> DEFINE e == EventWith("MAPPING_START", NoProps)
           k == Top(p).index
           r == InsertEvent(p, k, e)
<1>1. AtWork(p, p, 1) /\ Top(p).at \in Inner /\ Top(p) \in CallFrame
  BY ReadyIn DEF WithContext
<1>2. Stepped(p, GoOn(p, "FLOW_SEQ_NEXT"))
  BY <1>1, GoesOnIn DEF WithContext
<1>3. Stepped(p, GoOn(Consume(p), "FLOW_PAIR_NODE"))
  BY <1>1, ConsumeWork, GoesOnIn DEF WithContext
<1>4. OverLimit(p) => Stepped(p, CheckStop(StopWith(p, "ERR_LIMIT")))
  BY <1>1, StopsSteps
<1>5. ~OverLimit(p) => Stepped(p, GoOn(Consume(r), "FLOW_PAIR_NODE"))
  <2> SUFFICES ASSUME ~OverLimit(p)
               PROVE  Stepped(p, GoOn(Consume(r), "FLOW_PAIR_NODE"))
    OBVIOUS
  <2>1. k \in 1..(Len(p.events) + 1)
    BY Depths DEF Ready, FrameFits, Inserts
  <2>2. NoProps \in Props
    BY DEF NoProps, Props, Property
  <2> HIDE DEF k
  <2>3. AtWork(p, r, 1)
    BY <1>1, <2>1, <2>2, InsertWork
  <2> HIDE DEF r
  <2>4. AtWork(p, Consume(r), 1)
    BY <2>3, ConsumeWork
  <2> QED BY <1>1, <2>4, GoesOnIn DEF WithContext
<1> QED BY <1>2, <1>3, <1>4, <1>5 DEF FlowSeqNode

\* parse_flow_sequence, in a pair without braces and after an entry.
LEMMA FlowPairSteps ==
  ASSUME NEW p
  PROVE  /\ Ready(p, "FLOW_PAIR_KEY") => Stepped(p, FlowPairKey(p))
         /\ Ready(p, "FLOW_PAIR_VALUE") => Stepped(p, FlowPairValue(p))
         /\ Ready(p, "FLOW_PAIR_NODE") => Stepped(p, FlowPairNode(p))
         /\ Ready(p, "FLOW_PAIR_END") => Stepped(p, FlowPairEnd(p))
         /\ Ready(p, "FLOW_SEQ_NEXT") => Stepped(p, FlowSeqNext(p))
<1>1. Ready(p, "FLOW_PAIR_KEY") => Stepped(p, FlowPairKey(p))
  BY NodeUnlessSteps DEF FlowPairKey, WithContext
<1>2. Ready(p, "FLOW_PAIR_VALUE") => Stepped(p, FlowPairValue(p))
  BY ValueAtSteps DEF FlowPairValue, WithContext
<1>3. Ready(p, "FLOW_PAIR_NODE") => Stepped(p, FlowPairNode(p))
  BY NodeUnlessSteps DEF FlowPairNode, WithContext
<1>4. Ready(p, "FLOW_PAIR_END") => Stepped(p, FlowPairEnd(p))
  <2> SUFFICES ASSUME Ready(p, "FLOW_PAIR_END") PROVE Stepped(p, FlowPairEnd(p))
    OBVIOUS
  <2>1. AtWork(p, p, 1) /\ Top(p).at \in Inner
    BY ReadyIn DEF WithContext
  <2>2. AtWork(p, EnqueuePlain(p, "MAPPING_END"), 1)
    BY <2>1, EnqueuesWork, EagerNames
  <2>3. Stepped(p, GoOn(EnqueuePlain(p, "MAPPING_END"), "FLOW_SEQ_NEXT"))
    BY <2>1, <2>2, GoesOnIn DEF WithContext
  <2> QED BY <2>3 DEF FlowPairEnd
<1>5. Ready(p, "FLOW_SEQ_NEXT") => Stepped(p, FlowSeqNext(p))
  BY EntryEndSteps DEF FlowSeqNext, WithContext
<1> QED BY <1>1, <1>2, <1>3, <1>4, <1>5

\* parse_flow_mapping.
LEMMA FlowMapSteps ==
  ASSUME NEW p
  PROVE  /\ Ready(p, "FLOW_MAP") => Stepped(p, FlowMap(p))
         /\ Ready(p, "FLOW_KEY") => Stepped(p, FlowKeyAt(p))
         /\ Ready(p, "FLOW_VALUE") => Stepped(p, FlowValue(p))
         /\ Ready(p, "FLOW_VALUE_NODE") => Stepped(p, FlowValueNode(p))
         /\ Ready(p, "FLOW_MAP_NEXT") => Stepped(p, FlowMapNext(p))
<1>1. Ready(p, "FLOW_MAP") => Stepped(p, FlowMap(p))
  <2> SUFFICES ASSUME Ready(p, "FLOW_MAP") PROVE Stepped(p, FlowMap(p))
    OBVIOUS
  <2>1. AtWork(p, p, 1) /\ Top(p).at \in Inner
    BY ReadyIn DEF WithContext
  <2>2. Stepped(p, CloseFlow(p, "MAPPING_END"))
    BY CloseFlowSteps DEF WithContext
  <2>3. Stepped(p, EagerError(p))
    BY <2>1, ErrorSteps
  <2>4. Stepped(p, GoOn(Consume(p), "FLOW_KEY"))
    BY <2>1, ConsumeWork, GoesOnIn DEF WithContext
  <2>5. Stepped(p, CallAndGoOn(p, "FLOW_NODE", "FLOW_VALUE"))
    BY <2>1, CallsIn DEF WithContext
  <2> QED BY <2>2, <2>3, <2>4, <2>5 DEF FlowMap
<1>2. Ready(p, "FLOW_KEY") => Stepped(p, FlowKeyAt(p))
  BY NodeUnlessSteps DEF FlowKeyAt, WithContext
<1>3. Ready(p, "FLOW_VALUE") => Stepped(p, FlowValue(p))
  BY ValueAtSteps DEF FlowValue, WithContext
<1>4. Ready(p, "FLOW_VALUE_NODE") => Stepped(p, FlowValueNode(p))
  BY NodeUnlessSteps DEF FlowValueNode, WithContext
<1>5. Ready(p, "FLOW_MAP_NEXT") => Stepped(p, FlowMapNext(p))
  BY EntryEndSteps DEF FlowMapNext, WithContext
<1> QED BY <1>1, <1>2, <1>3, <1>4, <1>5

\* A frame with other properties put aside.
LEMMA FrameWith ==
  ASSUME NEW f \in CallFrame, NEW props \in Props, NEW n, FrameFits(f, n)
  PROVE  /\ [f EXCEPT !.props = props] \in CallFrame
         /\ [f EXCEPT !.props = props].at = f.at
         /\ FrameFits([f EXCEPT !.props = props], n)
         /\ [f EXCEPT !.outer = props] \in CallFrame
         /\ [f EXCEPT !.outer = props].at = f.at
         /\ FrameFits([f EXCEPT !.outer = props], n)
BY DEF CallFrame, FrameFits

\* The frame of a function that is called.
LEMMA NewFrames ==
  ASSUME NEW at \in Label, NEW n
  PROVE  /\ NewFrame(at) \in CallFrame /\ NewFrame(at).at = at
         /\ at \notin Inserts => FrameFits(NewFrame(at), n)
BY DEF NewFrame, CallFrame, NoProps, Props, Property, FrameFits

\* parse_flow_node.
LEMMA FlowNodeSteps ==
  ASSUME NEW p
  PROVE  /\ Ready(p, "FLOW_NODE") => Stepped(p, CallAndGoOn(p, "PROPS", "FLOW_NODE_AT"))
         /\ Ready(p, "FLOW_NODE_AT") => Stepped(p, FlowNodeAt(p))
         /\ Ready(p, "FLOW_SCALAR") => Stepped(p, FlowScalar(p))
<1>1. Ready(p, "FLOW_NODE") => Stepped(p, CallAndGoOn(p, "PROPS", "FLOW_NODE_AT"))
  BY ReadyOut, CallsOut DEF Outside
<1>2. Ready(p, "FLOW_NODE_AT") => Stepped(p, FlowNodeAt(p))
  <2> SUFFICES ASSUME Ready(p, "FLOW_NODE_AT") PROVE Stepped(p, FlowNodeAt(p))
    OBVIOUS
  <2> DEFINE f == [NewFrame("FLOW_SCALAR") EXCEPT !.props = Pending(p)]
             q == Consume(DropProps(p))
  <2>1. AtWork(p, p, 0) /\ Top(p).at \in Inner
    BY ReadyOut DEF Outside
  <2>2. Stepped(p, Finished(Consume(EnqueueWithProps(p, "ALIAS"))))
    BY <2>1, EnqueuesWork, EagerNames, ConsumeWork, FinishesSteps
  <2>3. Stepped(p, GoOn(OpenFlow(p), FlowLoop(p)))
    <3>1. FlowLoop(p) \in WithContext \ {"FLOW_SEQ_NODE"}
      BY DEF FlowLoop, WithContext
    <3> QED BY <2>1, <3>1, OpenFlowWork, GoesOnIn
  <2>4. Stepped(p, Become(q, f))
    <3>1. Pending(p) \in Props /\ NoProps \in Props
      BY <2>1, EagerTypes DEF AtWork
    <3>2. f \in CallFrame /\ f.at = "FLOW_SCALAR"
      <4> DEFINE g == NewFrame("FLOW_SCALAR")
                 props == Pending(p)
      <4>1. "FLOW_SCALAR" \in Label /\ "FLOW_SCALAR" \notin Inserts
        BY DEF Label, Inserts
      <4>2. g \in CallFrame /\ g.at = "FLOW_SCALAR" /\ FrameFits(g, 0)
        BY <4>1, NewFrames
      <4>3. props \in Props
        BY <3>1
      <4> HIDE DEF g, props
      <4>4. [g EXCEPT !.props = props] \in CallFrame
            /\ [g EXCEPT !.props = props].at = g.at
        BY <4>2, <4>3, FrameWith
      <4> QED BY <4>2, <4>4 DEF g, props
    <3>3. AtWork(p, q, 0)
      BY <2>1, <3>1, PendingWork, ConsumeWork
    <3> HIDE DEF f, q
    <3>4. FrameFits(f, Len(q.events)) /\ f.at \in Inner /\ 0 = Own(f.at)
      BY <3>2, InnerLabels DEF FrameFits, Inserts, Outside
    <3> QED BY <2>1, <3>2, <3>3, <3>4, BecomesSteps
  <2>5. Stepped(p, Finished(EmitEmpty(p)))
    BY <2>1, EmptyWork, FinishesSteps
  <2> QED BY <2>2, <2>3, <2>4, <2>5 DEF FlowNodeAt, FlowStarts
<1>3. Ready(p, "FLOW_SCALAR") => Stepped(p, FlowScalar(p))
  <2> SUFFICES ASSUME Ready(p, "FLOW_SCALAR") PROVE Stepped(p, FlowScalar(p))
    OBVIOUS
  <2>1. AtWork(p, p, 0) /\ Top(p).at \in Inner /\ Top(p) \in CallFrame
    BY ReadyOut DEF Outside
  <2>2. Top(p).props \in Props
    BY <2>1 DEF CallFrame
  <2>3. AtWork(p, Enqueue(p, EventWith("SCALAR", Top(p).props)), 0)
    BY <2>1, <2>2, EnqueueWork, EagerNames
  <2> QED BY <2>1, <2>3, FinishesSteps DEF FlowScalar
<1> QED BY <1>1, <1>2, <1>3

-----------------------------------------------------------------------------
(***************************************************************************)
(* Block collections.                                                      *)
(***************************************************************************)

\* The collection a function is in has a column.
LEMMA Indents ==
  ASSUME NEW p, NEW at, Ready(p, at)
  PROVE  Indent(p) \in Nat /\ Col(p) \in Nat
<1>1. Top(p) \in CallFrame /\ Col(p) \in Nat
  BY Depths, EagerTypes DEF Ready
<1> QED BY <1>1 DEF Indent, CallFrame

\* A block collection's end: its event is queued and its context popped.
LEMMA CloseBlockSteps ==
  ASSUME NEW p, NEW q, AtWork(p, q, 1), Top(p).at \in Inner,
         NEW end \in {"SEQUENCE_END", "MAPPING_END"}
  PROVE  Stepped(p, CloseBlock(q, end))
<1>1. AtWork(p, PopContext(EnqueuePlain(q, end)), 0)
  BY EnqueuesWork, EagerNames, PopWork
<1> QED BY <1>1, FinishesSteps DEF CloseBlock

\* The frame of a block collection's function.
LEMMA IndentedFrame ==
  ASSUME NEW at \in Label, NEW indent \in Nat
  PROVE  /\ [NewFrame(at) EXCEPT !.indent = indent] \in CallFrame
         /\ [NewFrame(at) EXCEPT !.indent = indent].at = at
<1> DEFINE g == NewFrame(at)
<1>1. g \in CallFrame /\ g.at = at
  BY NewFrames
<1> HIDE DEF g
<1>2. [g EXCEPT !.indent = indent] \in CallFrame /\ [g EXCEPT !.indent = indent].at = at
  BY <1>1 DEF CallFrame
<1> QED BY <1>2 DEF g

\* A block collection goes on with its next entry.
LEMMA BlockLoopSteps ==
  ASSUME NEW p, NEW q, AtWork(p, q, 1), Top(p).at \in Inner,
         NEW loop \in {"BLOCK_MAP", "BLOCK_SEQ"}, NEW indent \in Nat
  PROVE  Stepped(p, BlockLoop(q, loop, indent))
<1> DEFINE g == NewFrame(loop)
           f == [g EXCEPT !.indent = indent]
<1>1. f \in CallFrame /\ f.at = loop
  <2>1. loop \in Label
    BY DEF Label
  <2>2. g \in CallFrame /\ g.at = loop
    BY <2>1, NewFrames
  <2> HIDE DEF g
  <2> QED BY <2>2 DEF CallFrame
<1> HIDE DEF f
<1>2. FrameFits(f, Len(q.events)) /\ f.at \in Inner /\ 1 = Own(f.at)
  BY <1>1, InnerLabels DEF FrameFits, Inserts, WithContext
<1>3. Stepped(p, Become(q, f))
  BY <1>1, <1>2, BecomesSteps
<1> QED BY <1>3 DEF BlockLoop, f

\* A block mapping goes on with the value of the key just read.
LEMMA AfterKeySteps ==
  ASSUME NEW p, NEW q, AtWork(p, q, 1), Top(p).at \in Inner, NEW indent \in Nat
  PROVE  Stepped(p, AfterKey(q, indent))
<1> DEFINE f == [NewFrame("BLOCK_MAP") EXCEPT !.indent = indent]
           g == [NewFrame("MAP_VALUE") EXCEPT !.indent = indent]
<1>1. f \in CallFrame /\ f.at = "BLOCK_MAP" /\ g \in CallFrame /\ g.at = "MAP_VALUE"
  BY IndentedFrame DEF Label
<1> HIDE DEF f, g
<1>2. /\ FrameFits(f, Len(q.events)) /\ f.at \in Inner /\ Own(f.at) = 1
      /\ FrameFits(g, Len(q.events)) /\ g.at \in Inner /\ Own(g.at) = 0
  BY <1>1, InnerLabels DEF FrameFits, Inserts, WithContext, Outside
<1>3. 1 = Own(f.at) + Own(g.at)
  BY <1>2
<1>4. Stepped(p, [q EXCEPT !.calls = Front(@) \o <<f, g>>])
  BY <1>1, <1>2, <1>3, PairSteps
<1> QED BY <1>4 DEF AfterKey, f, g

\* parse_block_mapping, at a value.
LEMMA MapValueSteps ==
  ASSUME NEW p
  PROVE  /\ Ready(p, "MAP_VALUE") => Stepped(p, MapValue(p))
         /\ Ready(p, "MAP_VALUE_NODE") => Stepped(p, MapValueNode(p))
<1> SUFFICES ASSUME Ready(p, "MAP_VALUE") \/ Ready(p, "MAP_VALUE_NODE")
             PROVE  Stepped(p, MapValue(p)) /\ Stepped(p, MapValueNode(p))
  OBVIOUS
<1>1. AtWork(p, p, 0) /\ Top(p).at \in Inner
  BY ReadyOut DEF Outside
<1>2. Stepped(p, Finished(EmitEmpty(p)))
  BY <1>1, EmptyWork, FinishesSteps
<1>3. Stepped(p, GoOn(Consume(p), "MAP_VALUE_NODE"))
  BY <1>1, ConsumeWork, GoesOnOut DEF Outside
<1>4. Stepped(p, GoOn(p, "BLOCK_NODE"))
  BY <1>1, GoesOnOut DEF Outside
<1> QED BY <1>2, <1>3, <1>4 DEF MapValue, MapValueNode

\* The loop of a mapping, and what follows a '?'.
LEMMA BlockMapSteps ==
  ASSUME NEW p, NEW at \in {"BLOCK_MAP", "MAP_KEY", "MAP_KEY_PROPS", "MAP_KEY_DONE"},
         Ready(p, at)
  PROVE  /\ Stepped(p, BlockMap(p))
         /\ Stepped(p, MapKey(p))
         /\ Stepped(p, MapKeyProps(p))
         /\ Stepped(p, MapKeyDone(p))
<1>1. AtWork(p, p, 1) /\ Top(p).at \in Inner /\ Indent(p) \in Nat
  BY ReadyIn, Indents DEF WithContext
<1>2. AtWork(p, EmitEmpty(p), 1) /\ AtWork(p, Consume(p), 1)
  BY <1>1, EmptyWork, ConsumeWork
<1>3. Stepped(p, CloseBlock(p, "MAPPING_END"))
  BY <1>1, CloseBlockSteps
<1>4. Stepped(p, GoOn(Consume(p), "MAP_KEY"))
  BY <1>1, <1>2, GoesOnIn DEF WithContext
<1>5. Stepped(p, AfterKey(EmitEmpty(p), Indent(p))) /\ Stepped(p, AfterKey(p, Indent(p)))
  BY <1>1, <1>2, AfterKeySteps
<1>6. Stepped(p, CallAndGoOn(p, "PROPS", "IMPLICIT_KEY"))
  BY <1>1, CallsIn DEF WithContext
<1>7. Stepped(p, CallAndGoOn(p, "PROPS", "MAP_KEY_PROPS"))
  BY <1>1, CallsIn DEF WithContext
<1>8. Stepped(p, CallAndGoOn(p, "BLOCK_NODE", "MAP_KEY_DONE"))
  BY <1>1, CallsIn DEF WithContext
<1>9. Stepped(p, GoOn(EmitEmpty(p), "MAP_KEY_DONE"))
  BY <1>1, <1>2, GoesOnIn DEF WithContext
<1>10. Stepped(p, GoOn(EmitEmpty(p), "BLOCK_MAP"))
  BY <1>1, <1>2, GoesOnIn DEF WithContext
<1>11. Stepped(p, EagerError(p))
  BY <1>1, ErrorSteps
<1>12. Stepped(p, BlockMap(p))
  BY <1>3, <1>4, <1>5, <1>6 DEF BlockMap
<1>13. Stepped(p, MapKey(p))
  BY <1>7, <1>8, <1>9 DEF MapKey, PropTokens
<1>14. Stepped(p, MapKeyProps(p))
  BY <1>8, <1>9 DEF MapKeyProps
<1>15. Stepped(p, MapKeyDone(p))
  BY <1>5, <1>10, <1>11 DEF MapKeyDone
<1> QED BY <1>12, <1>13, <1>14, <1>15

\* A key.
LEMMA LeafKeySteps ==
  ASSUME NEW p, AtWork(p, p, 1), Top(p).at \in Inner, NEW at \in {"SCALAR_KEY", "ALIAS_KEY"}
  PROVE  Stepped(p, LeafKey(p, at))
<1> DEFINE q == Consume(DropProps(p))
           f == [Top(p) EXCEPT !.at = at, !.props = Pending(p)]
<1>1. NoProps \in Props /\ Pending(p) \in Props
  BY EagerTypes DEF AtWork
<1>2. AtWork(p, q, 1)
  BY <1>1, PendingWork, ConsumeWork
<1>3. Top(p) \in CallFrame
  BY Depths DEF AtWork
<1>4. f \in CallFrame /\ f.at = at
  BY <1>1, <1>3 DEF CallFrame, Label
<1> HIDE DEF f, q
<1>5. FrameFits(f, Len(q.events)) /\ f.at \in Inner /\ 1 = Own(f.at)
  BY <1>4, InnerLabels DEF FrameFits, Inserts, WithContext
<1>6. Stepped(p, Become(q, f))
  BY <1>2, <1>4, <1>5, BecomesSteps
<1> QED BY <1>6 DEF LeafKey, f, q

\* parse_block_mapping, at a key without an indicator.
LEMMA ImplicitKeySteps ==
  ASSUME NEW p, Ready(p, "IMPLICIT_KEY")
  PROVE  Stepped(p, ImplicitKey(p))
<1>1. AtWork(p, p, 1) /\ Top(p).at \in Inner /\ Indent(p) \in Nat
  BY ReadyIn, Indents DEF WithContext
<1>2. Stepped(p, EagerError(p))
  BY <1>1, ErrorSteps
<1>3. Stepped(p, AfterKey(EmitEmpty(p), Indent(p)))
  BY <1>1, EmptyWork, AfterKeySteps
<1>4. Stepped(p, LeafKey(p, "SCALAR_KEY")) /\ Stepped(p, LeafKey(p, "ALIAS_KEY"))
  BY <1>1, LeafKeySteps
<1>5. Stepped(p, CallAndGoOn(p, "FLOW_NODE", "FLOW_KEY_DONE"))
  BY <1>1, CallsIn DEF WithContext
<1>6. Stepped(p, CloseBlock(p, "MAPPING_END"))
  BY <1>1, CloseBlockSteps
<1> QED BY <1>2, <1>3, <1>4, <1>5, <1>6 DEF ImplicitKey, FlowStarts

\* parse_block_mapping, at the colon after a key.
LEMMA KeyColonSteps ==
  ASSUME NEW p
  PROVE  /\ Ready(p, "FLOW_KEY_DONE") => Stepped(p, KeyColon(p))
         /\ Ready(p, "SCALAR_KEY") => Stepped(p, LeafKeyColon(p, "SCALAR"))
         /\ Ready(p, "ALIAS_KEY") => Stepped(p, LeafKeyColon(p, "ALIAS"))
<1>1. ASSUME NEW at \in {"FLOW_KEY_DONE", "SCALAR_KEY", "ALIAS_KEY"}, Ready(p, at)
      PROVE  /\ AtWork(p, p, 1) /\ Top(p).at \in Inner /\ Indent(p) \in Nat
             /\ Stepped(p, EagerError(p))
             /\ \A q : AtWork(p, q, 1) => Stepped(p, AfterKey(q, Indent(p)))
             /\ Top(p).props \in Props
  <2>1. AtWork(p, p, 1) /\ Top(p).at \in Inner /\ Indent(p) \in Nat /\ Top(p) \in CallFrame
    BY <1>1, ReadyIn, Indents DEF WithContext
  <2> DEFINE indent == Indent(p)
  <2>2. indent \in Nat
    BY <2>1
  <2> HIDE DEF indent
  <2>3. \A q : AtWork(p, q, 1) => Stepped(p, AfterKey(q, indent))
    BY <2>1, <2>2, AfterKeySteps
  <2>4. Stepped(p, EagerError(p))
    BY <2>1, ErrorSteps
  <2> QED BY <2>1, <2>3, <2>4 DEF CallFrame, indent
<1>2. Ready(p, "FLOW_KEY_DONE") => Stepped(p, KeyColon(p))
  <2> SUFFICES ASSUME Ready(p, "FLOW_KEY_DONE") PROVE Stepped(p, KeyColon(p))
    OBVIOUS
  <2>1. Stepped(p, AfterKey(p, Indent(p))) /\ Stepped(p, EagerError(p))
    BY <1>1
  <2> QED BY <2>1 DEF KeyColon
<1>3. ASSUME NEW at \in {"SCALAR_KEY", "ALIAS_KEY"}, Ready(p, at),
             NEW type \in {"SCALAR", "ALIAS"}
      PROVE  Stepped(p, LeafKeyColon(p, type))
  <2> DEFINE q == Enqueue(p, EventWith(type, Top(p).props))
  <2>1. /\ AtWork(p, p, 1) /\ Top(p).at \in Inner
        /\ Stepped(p, EagerError(p))
        /\ \A r : AtWork(p, r, 1) => Stepped(p, AfterKey(r, Indent(p)))
        /\ Top(p).props \in Props
    BY <1>1, <1>3
  <2>2. AtWork(p, q, 1)
    BY <2>1, EnqueueWork, EagerNames
  <2>3. Stepped(p, AfterKey(q, Indent(p)))
    BY <2>1, <2>2
  <2>4. Indent(q) = Indent(p) /\ (Tok(p) = "BLOCK_MAP_VALUE" => Tok(q) = "BLOCK_MAP_VALUE")
    <3>1. q.calls = p.calls
      BY <2>2 DEF AtWork
    <3>2. q.current = p.current
      <4>1. p \in EagerRecord
        BY <2>1, EagerTypes DEF AtWork
      <4> QED BY <4>1 DEF Enqueue, StopWith, EagerRecord
    <3> HIDE DEF q
    <3> QED BY <3>1, <3>2 DEF Indent, Top, Tok
  <2> QED BY <2>1, <2>3, <2>4 DEF LeafKeyColon, KeyColon
<1> QED BY <1>2, <1>3

\* A block sequence.
LEMMA BlockSeqSteps ==
  ASSUME NEW p, NEW at \in {"BLOCK_SEQ", "SEQ_ENTRY"}, Ready(p, at)
  PROVE  Stepped(p, BlockSeq(p)) /\ Stepped(p, SeqEntry(p))
<1>1. AtWork(p, p, 1) /\ Top(p).at \in Inner
  BY ReadyIn DEF WithContext
<1>2. AtWork(p, EmitEmpty(p), 1) /\ AtWork(p, Consume(p), 1)
  BY <1>1, EmptyWork, ConsumeWork
<1>3. /\ Stepped(p, CloseBlock(p, "SEQUENCE_END"))
      /\ Stepped(p, CloseBlock(EmitEmpty(p), "SEQUENCE_END"))
  BY <1>1, <1>2, CloseBlockSteps
<1>4. Stepped(p, GoOn(Consume(p), "SEQ_ENTRY")) /\ Stepped(p, GoOn(EmitEmpty(p), "BLOCK_SEQ"))
  BY <1>1, <1>2, GoesOnIn DEF WithContext
<1>5. Stepped(p, CallAndGoOn(p, "BLOCK_NODE", "BLOCK_SEQ"))
  BY <1>1, CallsIn DEF WithContext
<1> QED BY <1>3, <1>4, <1>5 DEF BlockSeq, SeqEntry

-----------------------------------------------------------------------------
(***************************************************************************)
(* parse_block_node.                                                       *)
(***************************************************************************)

\* The properties of a node.
LEMMA NodePropsSteps ==
  ASSUME NEW p, Ready(p, "PROPS")
  PROVE  Stepped(p, NodeProps(p))
<1> DEFINE r == TakeProperty(p)
<1>1. AtWork(p, p, 0) /\ Top(p).at \in Inner /\ Own(Top(p).at) = 0
  <2>1. AtWork(p, p, 0) /\ Top(p).at \in Inner
    BY ReadyOut DEF Outside
  <2> QED BY <2>1, InnerLabels DEF Ready, Outside
<1>2. p \in EagerRecord
  BY <1>1, EagerTypes DEF AtWork
<1>3. Stepped(p, PropsRead(p))
  <2>1. Stepped(p, EagerError(p)) /\ Stepped(p, Finished(p))
    BY <1>1, ErrorSteps, FinishesSteps
  <2> QED BY <2>1 DEF PropsRead
<1>4. Stepped(p, r)
  <2> DEFINE c == Consume(p)
  <2>1. AtWork(p, c, 0)
    BY <1>1, ConsumeWork
  <2>2. c \in EagerRecord
    BY <2>1, EagerTypes DEF AtWork
  <2>3. /\ p.current.line \in Nat /\ p.current.pos \in Nat /\ Col(p) \in Nat
        /\ p.current.pos \in Property
    BY <1>1, EagerTypes DEF AtWork, Property
  <2> DEFINE a == IF Tok(p) = "ANCHOR" THEN p.current.pos ELSE c.anchor
             t == IF Tok(p) = "TAG" THEN p.current.pos ELSE c.tag
             l == IF HasProps(p) THEN c.props_line ELSE p.current.line
             k == IF HasProps(p) THEN c.props_col ELSE Col(p)
  <2>4. a \in Property /\ t \in Property /\ l \in Nat /\ k \in Nat
    BY <2>2, <2>3 DEF EagerRecord
  <2>5. r = [c EXCEPT !.anchor = a, !.tag = t, !.props_line = l, !.props_col = k]
    BY <2>2 DEF TakeProperty, EagerRecord
  <2> HIDE DEF a, t, l, k, r, c
  <2>6. r \in EagerRecord /\ Alike(r, c)
    BY <2>2, <2>4, <2>5 DEF EagerRecord, Alike
  <2>7. AtWork(p, r, Own(Top(p).at))
    BY <1>1, <2>1, <2>6, AlikeWork
  <2> QED BY <1>1, <2>7, StaysSteps
<1>5. Stepped(p, [p EXCEPT !.starved = TRUE])
  BY <1>2 DEF Stepped, EagerRecord
<1> QED BY <1>3, <1>4, <1>5 DEF NodeProps

\* A node that may be a key.
LEMMA MaybeKeyFrame ==
  ASSUME NEW p, Steady(p), NEW at \in Inner \cup {"STREAM_DONE"}, NEW indent \in Nat,
         NEW n \in Nat, Len(p.events) <= n
  PROVE  /\ MaybeKey(p, at, indent) \in CallFrame
         /\ MaybeKey(p, at, indent).at = at
         /\ FrameFits(MaybeKey(p, at, indent), n)
<1> DEFINE k == Len(p.events) + 1
           l == p.current.line
           f == NewFrame(at)
           g == [f EXCEPT !.indent = indent, !.index = k, !.line = l]
<1>1. k \in 1..(n + 1) /\ k \in Nat
  <2>1. Len(p.events) \in Nat
    BY EagerTypes
  <2> QED BY <2>1
<1>2. l \in Nat
  BY EagerTypes
<1>3. f \in CallFrame /\ f.at = at
  <2>1. at \in Label
    BY InnerLabels DEF Label
  <2> QED BY <2>1, NewFrames
<1> HIDE DEF k, l, f
<1>4. g \in CallFrame /\ g.at = at /\ g.index = k
  BY <1>1, <1>2, <1>3 DEF CallFrame
<1>5. FrameFits(g, n)
  <2> HIDE DEF g
  <2> QED BY <1>1, <1>4 DEF FrameFits
<1>6. g = MaybeKey(p, at, indent)
  BY DEF MaybeKey, k, l, f
<1> HIDE DEF g
<1> QED BY <1>4, <1>5, <1>6

\* A block mapping's start: its event is queued and its context pushed.
LEMMA StartMappingWork ==
  ASSUME NEW p, NEW q, AtWork(p, q, 0), NEW indent \in Nat
  PROVE  AtWork(p, StartMapping(q, indent), 1)
<1> DEFINE r == EnqueueWithProps(q, "MAPPING_START")
<1>1. AtWork(p, r, 0)
  BY EnqueuesWork, EagerNames
<1> HIDE DEF r
<1>2. AtWork(p, PushContext(r, "BLOCK_MAP", indent), 0 + 1)
  BY <1>1, PushWork DEF BlockContext
<1> QED BY <1>2 DEF StartMapping, r

\* A block sequence in place of the node.
LEMMA SequenceWork ==
  ASSUME NEW p, NEW q, AtWork(p, q, 0)
  PROVE  AtWork(p, PushContext(EnqueueWithProps(q, "SEQUENCE_START"), "BLOCK_SEQ", Col(q)), 1)
<1> DEFINE r == EnqueueWithProps(q, "SEQUENCE_START")
<1>1. AtWork(p, r, 0)
  BY EnqueuesWork, EagerNames
<1>3. Col(q) \in Nat
  BY EagerTypes DEF AtWork
<1> HIDE DEF r
<1>2. AtWork(p, PushContext(r, "BLOCK_SEQ", Col(q)), 0 + 1)
  BY <1>1, <1>3, PushWork DEF BlockContext
<1> QED BY <1>2 DEF r

\* A block sequence's start, and its first entry.
LEMMA StartSequenceSteps ==
  ASSUME NEW p, AtWork(p, p, 0), Top(p).at \in Inner
  PROVE  Stepped(p, StartSequence(p))
<1>1. AtWork(p, PushContext(EnqueueWithProps(p, "SEQUENCE_START"), "BLOCK_SEQ", Col(p)), 1)
  BY SequenceWork
<1>2. Col(p) \in Nat
  BY EagerTypes DEF AtWork
<1> QED BY <1>1, <1>2, BlockLoopSteps DEF StartSequence

\* A node becomes one that may be a key.
LEMMA MaybeKeySteps ==
  ASSUME NEW p, NEW q, AtWork(p, q, 0), Top(p).at \in Inner, NEW at \in Outside,
         NEW indent \in Nat, NEW props \in Props
  PROVE  /\ Stepped(p, Become(q, MaybeKey(p, at, indent)))
         /\ Stepped(p, Become(q, [MaybeKey(p, at, indent) EXCEPT !.props = props]))
<1> DEFINE f == MaybeKey(p, at, indent)
           g == [f EXCEPT !.props = props]
           n == Len(q.events)
<1>1. Steady(p) /\ n \in Nat /\ Len(p.events) <= n
  BY EagerTypes DEF AtWork, SameCounts
<1>2. at \in Inner /\ 0 = Own(at)
  BY InnerLabels
<1> HIDE DEF n
<1>3. f \in CallFrame /\ f.at = at /\ FrameFits(f, n)
  BY <1>1, <1>2, MaybeKeyFrame
<1> HIDE DEF f
<1>4. g \in CallFrame /\ g.at = at /\ FrameFits(g, n)
  BY <1>3, FrameWith
<1> HIDE DEF g
<1>5. Stepped(p, Become(q, f)) /\ Stepped(p, Become(q, g))
  BY <1>2, <1>3, <1>4, BecomesSteps DEF n
<1> QED BY <1>5 DEF f, g

\* A flow collection that may be a key.
LEMMA FlowMaybeKeySteps ==
  ASSUME NEW p, AtWork(p, p, 0), Top(p).at \in Inner, NEW at \in {"INNER_FLOW", "FLOW_OR_KEY"},
         NEW indent \in Nat, NEW outer \in Props, NEW props \in Props
  PROVE  /\ Stepped(p, CallThen(OpenFlow(p), FlowLoop(p),
                                [MaybeKey(p, at, indent) EXCEPT !.outer = outer]))
         /\ Stepped(p, CallThen(OpenFlow(p), FlowLoop(p),
                                [MaybeKey(p, at, indent) EXCEPT !.outer = outer, !.props = props]))
<1> DEFINE f == MaybeKey(p, at, indent)
           g == [f EXCEPT !.outer = outer]
           h == [g EXCEPT !.props = props]
           q == OpenFlow(p)
           n == Len(q.events)
           callee == FlowLoop(p)
<1>1. AtWork(p, q, 1)
  BY OpenFlowWork
<1>2. Steady(p) /\ n \in Nat /\ Len(p.events) <= n
  BY <1>1, EagerTypes DEF AtWork, SameCounts
<1>3. at \in Inner /\ Own(at) = 0
  BY InnerLabels DEF Outside
<1>4. callee \in Inner \ Inserts /\ Own(callee) = 1
  BY InnerLabels DEF FlowLoop, WithContext, Inserts
<1> HIDE DEF n, callee, q
<1>5. f \in CallFrame /\ f.at = at /\ FrameFits(f, n)
  BY <1>2, <1>3, MaybeKeyFrame
<1> HIDE DEF f
<1>6. g \in CallFrame /\ g.at = at /\ FrameFits(g, n)
  BY <1>5, FrameWith
<1>7. h = [f EXCEPT !.outer = outer, !.props = props]
  BY <1>5 DEF CallFrame
<1> HIDE DEF g
<1>8. h \in CallFrame /\ h.at = at /\ FrameFits(h, n)
  BY <1>6, FrameWith
<1> HIDE DEF h
<1>9. 1 = Own(g.at) + Own(callee) /\ 1 = Own(h.at) + Own(callee)
  BY <1>3, <1>4, <1>6, <1>8
<1>10. Stepped(p, CallThen(q, callee, g)) /\ Stepped(p, CallThen(q, callee, h))
  BY <1>1, <1>3, <1>4, <1>6, <1>8, <1>9, CallsSteps DEF n
<1>11. Stepped(p, CallThen(q, callee, [f EXCEPT !.outer = outer, !.props = props]))
  BY <1>7, <1>10
<1> QED BY <1>10, <1>11 DEF g, f, q, callee

\* The collection is a key: its mapping starts before it.
LEMMA KeyMappingSteps ==
  ASSUME NEW p, NEW q, AtWork(p, q, 0), Top(p).at \in {"INNER_FLOW", "FLOW_OR_KEY"},
         NEW indent \in Nat, NEW props \in Props
  PROVE  Stepped(p, KeyMapping(q, Top(p).index, indent, props))
<1> DEFINE k == Top(p).index
           r == InsertEvent(q, k, EventWith("MAPPING_START", props))
           s == PushContext(r, "BLOCK_MAP", indent)
<1>1. Top(p).at \in Inner
  BY InnerLabels DEF Outside
<1>2. OverLimit(q) => Stepped(p, CheckStop(StopWith(q, "ERR_LIMIT")))
  BY StopsSteps
<1>3. ~OverLimit(q) => Stepped(p, AfterKey(s, indent))
  <2> SUFFICES ASSUME ~OverLimit(q) PROVE Stepped(p, AfterKey(s, indent))
    OBVIOUS
  <2>1. k \in 1..(Len(p.events) + 1)
    BY Depths DEF AtWork, FrameFits, Inserts
  <2>2. /\ Len(p.events) \in Nat /\ Len(q.events) \in Nat
        /\ Len(p.events) <= Len(q.events)
    BY EagerTypes DEF AtWork, SameCounts
  <2> HIDE DEF k
  <2>3. k \in 1..(Len(q.events) + 1)
    BY <2>1, <2>2
  <2>4. AtWork(p, r, 0)
    BY <2>3, InsertWork
  <2> HIDE DEF r
  <2>5. AtWork(p, s, 0 + 1)
    BY <2>4, PushWork DEF BlockContext
  <2> HIDE DEF s
  <2>6. AtWork(p, s, 1)
    BY <2>5
  <2> QED BY <1>1, <2>6, AfterKeySteps
<1> QED BY <1>2, <1>3 DEF KeyMapping

\* parse_block_node, at a second set of properties.
LEMMA InnerNodeSteps ==
  ASSUME NEW p, Ready(p, "INNER_NODE")
  PROVE  Stepped(p, InnerNode(p))
<1> DEFINE f == Top(p)
           o == WithPending(p, f.outer)
           c == InnerColumn(p)
           props == Pending(p)
<1>1. /\ AtWork(p, p, 0) /\ Top(p).at \in Inner /\ f \in CallFrame
      /\ Indent(p) \in Nat /\ Col(p) \in Nat
  BY ReadyOut, Indents DEF Outside
<1>2. /\ f.outer \in Props /\ f.indent \in Nat /\ props \in Props /\ c \in Nat
  BY <1>1, EagerTypes DEF CallFrame, AtWork, InnerColumn
<1>3. AtWork(p, o, 0)
  BY <1>1, <1>2, PendingWork
<1>4. Stepped(p, Become(Consume(o), [MaybeKey(p, "INNER_SCALAR", c) EXCEPT !.props = props]))
  <2>1. AtWork(p, Consume(o), 0)
    BY <1>3, ConsumeWork
  <2> HIDE DEF f, o, c, props
  <2> QED BY <1>1, <1>2, <2>1, MaybeKeySteps DEF Outside
<1>5. Stepped(p, WithPending(StartSequence(o), props))
  <2> DEFINE s == PushContext(EnqueueWithProps(o, "SEQUENCE_START"), "BLOCK_SEQ", Col(o))
             t == WithPending(s, props)
             k == Col(o)
  <2>1. AtWork(p, s, 1)
    BY <1>3, SequenceWork
  <2>2. AtWork(p, t, 1)
    BY <1>2, <2>1, PendingWork
  <2>3. k \in Nat
    BY <1>3, EagerTypes DEF AtWork
  <2>4. s \in EagerRecord
    BY <2>1, EagerTypes DEF AtWork
  <2>5. StartSequence(o) = BlockLoop(s, "BLOCK_SEQ", k)
    BY DEF StartSequence
  <2> HIDE DEF k, s, props, o
  <2>6. Stepped(p, BlockLoop(t, "BLOCK_SEQ", k))
    BY <1>1, <2>2, <2>3, BlockLoopSteps
  <2>7. WithPending(BlockLoop(s, "BLOCK_SEQ", k), props) = BlockLoop(t, "BLOCK_SEQ", k)
    BY <2>4 DEF BlockLoop, Become, WithPending, EagerRecord
  <2> QED BY <2>5, <2>6, <2>7
<1>6. Stepped(p, AfterKey(Enqueue(StartMapping(o, f.indent), EventWith("SCALAR", props)), f.indent))
  <2> DEFINE k == f.indent
  <2> HIDE DEF o, props, k
  <2>1. AtWork(p, StartMapping(o, k), 1)
    BY <1>2, <1>3, StartMappingWork DEF k
  <2>2. AtWork(p, Enqueue(StartMapping(o, k), EventWith("SCALAR", props)), 1)
    BY <1>2, <2>1, EnqueueWork, EagerNames
  <2>3. k \in Nat
    BY <1>2 DEF k
  <2>4. Stepped(p, AfterKey(Enqueue(StartMapping(o, k), EventWith("SCALAR", props)), k))
    BY <1>1, <2>2, <2>3, AfterKeySteps
  <2> QED BY <2>4 DEF k
<1>7. Stepped(p, CallThen(OpenFlow(p), FlowLoop(p),
                   [MaybeKey(p, "INNER_FLOW", c) EXCEPT !.outer = f.outer, !.props = props]))
  <2> DEFINE u == f.outer
  <2>1. u \in Props
    BY <1>2
  <2> HIDE DEF u, c, props, o
  <2>2. Stepped(p, CallThen(OpenFlow(p), FlowLoop(p),
                     [MaybeKey(p, "INNER_FLOW", c) EXCEPT !.outer = u, !.props = props]))
    BY <1>1, <1>2, <2>1, FlowMaybeKeySteps
  <2> QED BY <2>2 DEF u
<1>8. Stepped(p, Finished(EmitEmpty(p)))
  BY <1>1, EmptyWork, FinishesSteps
<1> QED BY <1>4, <1>5, <1>6, <1>7, <1>8 DEF InnerNode, FlowStarts

\* Two nodes' properties made one.
LEMMA UnionProps ==
  ASSUME NEW a \in Props, NEW b \in Props
  PROVE  Union(a, b) \in Props
BY DEF Union, Props

\* parse_block_node, a scalar after a second set of properties.
LEMMA InnerScalarSteps ==
  ASSUME NEW p, Ready(p, "INNER_SCALAR")
  PROVE  Stepped(p, InnerScalar(p))
<1> DEFINE f == Top(p)
           k == f.indent
           u == f.props
<1>1. AtWork(p, p, 0) /\ Top(p).at \in Inner /\ f \in CallFrame
  BY ReadyOut DEF Outside
<1>2. k \in Nat /\ u \in Props /\ Pending(p) \in Props /\ NoProps \in Props
  BY <1>1, EagerTypes DEF CallFrame, AtWork
<1>3. Stepped(p, AfterKey(Enqueue(StartMapping(p, k), EventWith("SCALAR", u)), k))
  <2> HIDE DEF k, u
  <2>1. AtWork(p, StartMapping(p, k), 1)
    BY <1>1, <1>2, StartMappingWork
  <2>2. AtWork(p, Enqueue(StartMapping(p, k), EventWith("SCALAR", u)), 1)
    BY <1>2, <2>1, EnqueueWork, EagerNames
  <2> QED BY <1>1, <1>2, <2>2, AfterKeySteps
<1>4. Stepped(p, EagerError(p))
  BY <1>1, ErrorSteps
<1>5. Stepped(p, Finished(Enqueue(DropProps(p), EventWith("SCALAR", Union(Pending(p), u)))))
  <2> HIDE DEF k, u
  <2>1. AtWork(p, DropProps(p), 0) /\ Union(Pending(p), u) \in Props
    BY <1>1, <1>2, PendingWork, UnionProps
  <2>2. AtWork(p, Enqueue(DropProps(p), EventWith("SCALAR", Union(Pending(p), u))), 0)
    BY <2>1, EnqueueWork, EagerNames
  <2> QED BY <1>1, <2>2, FinishesSteps
<1> QED BY <1>3, <1>4, <1>5 DEF InnerScalar

\* parse_block_node, a flow collection after a second set of properties.
LEMMA InnerFlowSteps ==
  ASSUME NEW p, Ready(p, "INNER_FLOW")
  PROVE  Stepped(p, InnerFlow(p))
<1> DEFINE f == Top(p)
           k == f.indent
           o == f.outer
           u == f.props
           q == DropProps(p)
           n == f.index
<1>1. AtWork(p, p, 0) /\ Top(p).at \in Inner /\ f \in CallFrame
  BY ReadyOut DEF Outside
<1>2. k \in Nat /\ u \in Props /\ o \in Props /\ NoProps \in Props
  BY <1>1, EagerTypes DEF CallFrame, AtWork
<1>3. Stepped(p, KeyMapping(p, f.index, k, o))
  <2> HIDE DEF k, o
  <2> QED BY <1>1, <1>2, KeyMappingSteps DEF Ready
<1>4. Stepped(p, EagerError(p))
  BY <1>1, ErrorSteps
<1>5. Stepped(p, Finished([q EXCEPT !.events[n] = EventWith(@.type, Union(o, u))]))
  <2> DEFINE w == Union(o, u)
             r == [q EXCEPT !.events[n] = EventWith(@.type, w)]
  <2>1. AtWork(p, q, 0) /\ w \in Props
    BY <1>1, <1>2, PendingWork, UnionProps
  <2> HIDE DEF w, q, n
  <2>2. AtWork(p, r, 0)
    BY <2>1, ReplaceWork
  <2> HIDE DEF r
  <2>3. Stepped(p, Finished(r))
    BY <1>1, <2>2, FinishesSteps
  <2> QED BY <2>3 DEF r, w
<1> QED BY <1>3, <1>4, <1>5 DEF InnerFlow

\* parse_block_node, an alias: a node or a key.
LEMMA AliasNodeSteps ==
  ASSUME NEW p, Ready(p, "ALIAS_NODE")
  PROVE  Stepped(p, AliasNode(p))
<1> DEFINE f == Top(p)
           k == f.indent
<1>1. AtWork(p, p, 0) /\ Top(p).at \in Inner /\ f \in CallFrame
  BY ReadyOut DEF Outside
<1>2. k \in Nat
  BY <1>1 DEF CallFrame
<1>3. Stepped(p, AfterKey(EnqueuePlain(StartMapping(p, k), "ALIAS"), k))
  <2> HIDE DEF k
  <2>1. AtWork(p, StartMapping(p, k), 1)
    BY <1>1, <1>2, StartMappingWork
  <2>2. AtWork(p, EnqueuePlain(StartMapping(p, k), "ALIAS"), 1)
    BY <2>1, EnqueuesWork, EagerNames
  <2> QED BY <1>1, <1>2, <2>2, AfterKeySteps
<1>4. Stepped(p, EagerError(p))
  BY <1>1, ErrorSteps
<1>5. Stepped(p, Finished(EnqueuePlain(p, "ALIAS")))
  BY <1>1, EnqueuesWork, EagerNames, FinishesSteps
<1> QED BY <1>3, <1>4, <1>5 DEF AliasNode

\* parse_block_node, a flow collection: a node or a key.
LEMMA FlowOrKeySteps ==
  ASSUME NEW p, Ready(p, "FLOW_OR_KEY")
  PROVE  Stepped(p, FlowOrKey(p))
<1> DEFINE f == Top(p)
           k == f.indent
           o == f.outer
           n == f.index
           q == MoveProps(p, f)
<1>1. AtWork(p, p, 0) /\ Top(p).at \in Inner /\ f \in CallFrame
  BY ReadyOut DEF Outside
<1>2. k \in Nat /\ o \in Props /\ NoProps \in Props
  BY <1>1, EagerTypes DEF CallFrame, AtWork
<1>3. Stepped(p, Finished(p))
  BY <1>1, FinishesSteps
<1>4. AtWork(p, q, 0)
  <2>1. AtWork(p, [p EXCEPT !.events[n] = EventWith(@.type, NoProps)], 0)
    <3> HIDE DEF n
    <3> QED BY <1>1, <1>2, ReplaceWork
  <2> QED BY <1>1, <2>1 DEF MoveProps
<1>5. Stepped(p, KeyMapping(q, f.index, k, o))
  <2> HIDE DEF k, o, q
  <2> QED BY <1>2, <1>4, KeyMappingSteps DEF Ready
<1> QED BY <1>3, <1>5 DEF FlowOrKey

\* parse_block_node, a scalar: a node or a key.
LEMMA ScalarNodeSteps ==
  ASSUME NEW p, Ready(p, "SCALAR_NODE")
  PROVE  Stepped(p, ScalarNode(p))
<1> DEFINE f == Top(p)
           k == f.indent
           q == EnqueuePlain(p, "MAPPING_START")
           r == PushContext(q, "BLOCK_MAP", k)
<1>1. AtWork(p, p, 0) /\ Top(p).at \in Inner /\ f \in CallFrame
  BY ReadyOut DEF Outside
<1>2. k \in Nat
  BY <1>1 DEF CallFrame
<1>3. Stepped(p, Finished(EnqueueWithProps(p, "SCALAR")))
  BY <1>1, EnqueuesWork, EagerNames, FinishesSteps
<1>4. Stepped(p, AfterKey(EnqueuePlain(StartMapping(p, k), "SCALAR"), k))
  <2> HIDE DEF k
  <2>1. AtWork(p, StartMapping(p, k), 1)
    BY <1>1, <1>2, StartMappingWork
  <2>2. AtWork(p, EnqueuePlain(StartMapping(p, k), "SCALAR"), 1)
    BY <2>1, EnqueuesWork, EagerNames
  <2> QED BY <1>1, <1>2, <2>2, AfterKeySteps
<1>5. Stepped(p, AfterKey(EnqueueWithProps(r, "SCALAR"), k))
  <2> HIDE DEF k
  <2>1. AtWork(p, q, 0)
    BY <1>1, EnqueuesWork, EagerNames
  <2> HIDE DEF q
  <2>2. AtWork(p, r, 0 + 1)
    BY <1>2, <2>1, PushWork DEF BlockContext
  <2> HIDE DEF r
  <2>3. AtWork(p, r, 1)
    BY <2>2
  <2>4. AtWork(p, EnqueueWithProps(r, "SCALAR"), 1)
    BY <2>3, EnqueuesWork, EagerNames
  <2> QED BY <1>1, <1>2, <2>4, AfterKeySteps
<1> QED BY <1>3, <1>4, <1>5 DEF ScalarNode

\* parse_block_node, at a value without a key.
LEMMA BareValueSteps ==
  ASSUME NEW p, AtWork(p, p, 0), Top(p).at \in Inner
  PROVE  Stepped(p, BareValue(p))
<1> DEFINE k == p.props_col
           c == Col(p)
           q == EnqueuePlain(p, "MAPPING_START")
           r == PushContext(q, "BLOCK_MAP", k)
<1>1. k \in Nat /\ c \in Nat
  BY EagerTypes DEF AtWork
<1>2. Stepped(p, AfterKey(EmitEmpty(r), k))
  <2> HIDE DEF k
  <2>1. AtWork(p, q, 0)
    BY EnqueuesWork, EagerNames
  <2> HIDE DEF q
  <2>2. AtWork(p, r, 0 + 1)
    BY <1>1, <2>1, PushWork DEF BlockContext
  <2> HIDE DEF r
  <2>3. AtWork(p, r, 1)
    BY <2>2
  <2>4. AtWork(p, EmitEmpty(r), 1)
    BY <2>3, EmptyWork
  <2> QED BY <1>1, <2>4, AfterKeySteps
<1>3. Stepped(p, BlockLoop(StartMapping(p, c), "BLOCK_MAP", c))
  <2> HIDE DEF c
  <2>1. AtWork(p, StartMapping(p, c), 1)
    BY <1>1, StartMappingWork
  <2> QED BY <1>1, <2>1, BlockLoopSteps
<1> QED BY <1>2, <1>3 DEF BareValue

\* parse_block_node, at a node on a later line than its properties.
LEMMA NodeInNodeSteps ==
  ASSUME NEW p, AtWork(p, p, 0), Top(p).at \in Inner
  PROVE  Stepped(p, NodeInNode(p))
<1> DEFINE o == Pending(p)
           l == p.current.line
           c == Col(p)
           f == [NewFrame("INNER_NODE") EXCEPT !.outer = o, !.line = l, !.indent = c]
           q == DropProps(p)
<1>1. o \in Props /\ l \in Nat /\ c \in Nat /\ NoProps \in Props
  BY EagerTypes DEF AtWork
<1>2. AtWork(p, q, 0)
  BY <1>1, PendingWork
<1> HIDE DEF o, l, c, q
<1>3. f \in CallFrame /\ f.at = "INNER_NODE"
  <2> DEFINE g == NewFrame("INNER_NODE")
  <2>1. g \in CallFrame /\ g.at = "INNER_NODE"
    BY NewFrames DEF Label
  <2> HIDE DEF g
  <2>2. f = [g EXCEPT !.outer = o, !.line = l, !.indent = c]
    BY DEF g
  <2> HIDE DEF f
  <2> QED BY <1>1, <2>1, <2>2 DEF CallFrame
<1> HIDE DEF f
<1>4. /\ FrameFits(f, Len(q.events)) /\ f.at \in Inner /\ Own(f.at) = 0
      /\ "PROPS" \in Inner \ Inserts /\ Own("PROPS") = 0
  BY <1>3, InnerLabels DEF FrameFits, Inserts, Outside
<1>5. 0 = Own(f.at) + Own("PROPS")
  BY <1>4
<1>6. Stepped(p, CallThen(q, "PROPS", f))
  BY <1>2, <1>3, <1>4, <1>5, CallsSteps
<1> QED BY <1>6 DEF NodeInNode, f, q, o, l, c

\* parse_block_node.
LEMMA BlockNodeSteps ==
  ASSUME NEW p
  PROVE  /\ Ready(p, "BLOCK_NODE") => Stepped(p, CallAndGoOn(p, "PROPS", "BLOCK_NODE_AT"))
         /\ Ready(p, "BLOCK_NODE_AT") => Stepped(p, BlockNodeAt(p))
<1>1. Ready(p, "BLOCK_NODE") => Stepped(p, CallAndGoOn(p, "PROPS", "BLOCK_NODE_AT"))
  BY ReadyOut, CallsOut DEF Outside
<1>2. Ready(p, "BLOCK_NODE_AT") => Stepped(p, BlockNodeAt(p))
  <2> SUFFICES ASSUME Ready(p, "BLOCK_NODE_AT") PROVE Stepped(p, BlockNodeAt(p))
    OBVIOUS
  <2> DEFINE c == Col(p)
             k == FlowKeyColumn(p)
             j == ScalarKeyColumn(p)
             o == IF PropsAbove(p) THEN Pending(p) ELSE NoProps
  <2>1. AtWork(p, p, 0) /\ Top(p).at \in Inner /\ c \in Nat
    BY ReadyOut, Indents DEF Outside
  <2>2. p.props_col \in Nat /\ Pending(p) \in Props /\ NoProps \in Props
    BY <2>1, EagerTypes DEF AtWork
  <2>3. k \in Nat /\ j \in Nat /\ o \in Props
    BY <2>1, <2>2 DEF FlowKeyColumn, ScalarKeyColumn
  <2> HIDE DEF c, k, j, o
  <2>4. AtWork(p, Consume(p), 0)
    BY <2>1, ConsumeWork
  <2>5. Stepped(p, EagerError(p))
    BY <2>1, ErrorSteps
  <2>6. Stepped(p, Finished(EmitEmpty(p)))
    BY <2>1, EmptyWork, FinishesSteps
  <2>7. Stepped(p, NodeInNode(p))
    BY <2>1, NodeInNodeSteps
  <2>8. Stepped(p, Become(Consume(p), MaybeKey(p, "ALIAS_NODE", c)))
    BY <2>1, <2>2, <2>4, MaybeKeySteps DEF Outside
  <2>9. Stepped(p, CallThen(OpenFlow(p), FlowLoop(p),
                     [MaybeKey(p, "FLOW_OR_KEY", k) EXCEPT !.outer = o]))
    BY <2>1, <2>2, <2>3, FlowMaybeKeySteps
  <2>10. Stepped(p, StartSequence(p))
    BY <2>1, StartSequenceSteps
  <2>11. Stepped(p, Become(Consume(p), MaybeKey(p, "SCALAR_NODE", j)))
    BY <2>1, <2>2, <2>3, <2>4, MaybeKeySteps DEF Outside
  <2>12. Stepped(p, BlockLoop(StartMapping(p, c), "BLOCK_MAP", c))
    BY <2>1, StartMappingWork, BlockLoopSteps
  <2>13. Stepped(p, BareValue(p))
    BY <2>1, BareValueSteps
  <2> QED BY <2>5, <2>6, <2>7, <2>8, <2>9, <2>10, <2>11, <2>12, <2>13
           DEF BlockNodeAt, c, k, j, o, PropTokens, FlowStarts
<1> QED BY <1>1, <1>2

-----------------------------------------------------------------------------
(***************************************************************************)
(* Documents.                                                              *)
(***************************************************************************)

Above == StreamLabels \cup DocLabels

\* The stream's and the document's functions have no context of their own.
LEMMA AboveLabels ==
  /\ \A at \in Above : Own(at) = 0
  /\ Above \subseteq Label /\ Above \cap Inserts = {}
BY DEF Above, StreamLabels, DocLabels, Own, WithContext, Label, Inserts

\* unroll_all: one context after the other.
LEMMA Unrolled ==
  ASSUME NEW q, NEW m \in Nat
  PROVE  \E f : f = [n \in 0..m |-> IF n = 0 THEN q ELSE CloseTop(f[n - 1])]
<1> DEFINE Ok(k) == \E f : f = [n \in 0..k |-> IF n = 0 THEN q ELSE CloseTop(f[n - 1])]
           Bad == {k \in Nat : ~Ok(k)}
<1>1. Ok(0)
  <2> DEFINE f == [n \in 0..0 |-> q]
  <2>1. f = [n \in 0..0 |-> IF n = 0 THEN q ELSE CloseTop(f[n - 1])]
    OBVIOUS
  <2> QED BY <2>1
<1>2. ASSUME NEW k \in Nat, Ok(k) PROVE Ok(k + 1)
  <2>1. PICK f : f = [n \in 0..k |-> IF n = 0 THEN q ELSE CloseTop(f[n - 1])]
    BY <1>2
  <2> DEFINE g == [n \in 0..(k + 1) |-> IF n = k + 1 THEN CloseTop(f[k]) ELSE f[n]]
  <2>2. \A n \in 0..k : g[n] = f[n]
    OBVIOUS
  <2>3. \A n \in 0..k : f[n] = IF n = 0 THEN q ELSE CloseTop(f[n - 1])
    BY <2>1
  <2>4. ASSUME NEW n \in 0..(k + 1)
        PROVE  g[n] = IF n = 0 THEN q ELSE CloseTop(g[n - 1])
    <3>1. CASE n = k + 1
      <4>1. g[n] = CloseTop(f[k]) /\ n - 1 = k /\ n # 0 /\ k \in 0..k
        BY <3>1
      <4> HIDE DEF g
      <4> QED BY <2>2, <4>1
    <3>2. CASE n \in 0..k
      <4>1. g[n] = f[n] /\ (n # 0 => n - 1 \in 0..k)
        BY <2>2, <3>2
      <4> HIDE DEF g
      <4> QED BY <2>2, <2>3, <3>2, <4>1
    <3> QED BY <3>1, <3>2
  <2>5. g = [n \in 0..(k + 1) |-> IF n = 0 THEN q ELSE CloseTop(g[n - 1])]
    <3>1. g = [n \in 0..(k + 1) |-> g[n]]
      OBVIOUS
    <3> HIDE DEF g
    <3> QED BY <2>4, <3>1
  <2> HIDE DEF g
  <2> QED BY <2>5
<1>3. Bad = {}
  <2> SUFFICES ASSUME Bad # {} PROVE FALSE
    OBVIOUS
  <2> HIDE DEF Ok
  <2>1. PICK k \in Bad : \A j \in Bad : k <= j
    BY NatMin
  <2>2. k # 0
    BY <1>1, <2>1
  <2>3. k - 1 \in Nat /\ k - 1 \notin Bad
    BY <2>1, <2>2
  <2>4. Ok(k - 1 + 1)
    BY <1>2, <2>3
  <2> QED BY <2>1, <2>4
<1>4. Ok(m)
  <2> HIDE DEF Ok
  <2> QED BY <1>3
<1> QED BY <1>4

\* Something is open between documents only if the parser has stopped.
LEMMA CloseTopWork ==
  ASSUME NEW p, NEW q, AtWork(p, q, 0), ContextFrames(Front(p.calls)) = 0
  PROVE  AtWork(p, CloseTop(q), 0)
<1>1. CASE q.contexts = <<>> \/ InFlowContext(q)
  BY <1>1 DEF CloseTop
<1>2. CASE ~(q.contexts = <<>> \/ InFlowContext(q))
  <2> DEFINE end == IF InContext(q, {"BLOCK_MAP"}) THEN "MAPPING_END" ELSE "SEQUENCE_END"
  <2>1. q.contexts \in Seq(Context) /\ q.contexts # <<>>
    BY <1>2, EagerTypes DEF AtWork
  <2>2. Len(q.contexts) # 0
    BY <2>1
  <2>3. AtWork(p, q, 1)
    BY <2>2 DEF AtWork
  <2>4. end \in Stream!Event \ DocTypes
    BY EagerNames
  <2> HIDE DEF end
  <2>5. AtWork(p, PopContext(EnqueuePlain(q, end)), 0)
    BY <2>3, <2>4, EnqueuesWork, PopWork
  <2> QED BY <1>2, <2>5 DEF CloseTop, end
<1> QED BY <1>1, <1>2

\* unroll_all: every context is popped and its end queued.
LEMMA UnrollWork ==
  ASSUME NEW p, NEW q, AtWork(p, q, 0), ContextFrames(Front(p.calls)) = 0
  PROVE  AtWork(p, UnrollAll(q), 0)
<1> DEFINE m == Len(q.contexts)
           f == CHOOSE f : f = [n \in 0..m |-> IF n = 0 THEN q ELSE CloseTop(f[n - 1])]
<1>1. m \in Nat
  BY EagerTypes DEF AtWork
<1> HIDE DEF m
<1>2. f = [n \in 0..m |-> IF n = 0 THEN q ELSE CloseTop(f[n - 1])]
  BY <1>1, Unrolled
<1>3. UnrollAll(q) = f[m]
  BY DEF UnrollAll, m
<1> HIDE DEF f
<1>4. \A n \in 0..m : f[n] = IF n = 0 THEN q ELSE CloseTop(f[n - 1])
  BY <1>2
<1> DEFINE Bad == {n \in 0..m : ~AtWork(p, f[n], 0)}
<1>5. Bad = {}
  <2> SUFFICES ASSUME Bad # {} PROVE FALSE
    OBVIOUS
  <2>1. PICK n \in Bad : \A j \in Bad : n <= j
    <3>1. Bad \in SUBSET Nat
      BY <1>1
    <3> HIDE DEF Bad
    <3> QED BY <3>1, NatMin
  <2>2. n # 0
    BY <1>1, <1>4, <2>1
  <2>3. n - 1 \in 0..m /\ n - 1 \notin Bad /\ n \in 0..m
    BY <1>1, <2>1, <2>2
  <2>4. AtWork(p, f[n - 1], 0)
    BY <2>3
  <2>5. AtWork(p, CloseTop(f[n - 1]), 0)
    BY <2>4, CloseTopWork
  <2> QED BY <1>4, <2>1, <2>2, <2>3, <2>5
<1> QED BY <1>1, <1>3, <1>5

\* What a step of the stream's or the document's function has made of the
\* record, where a document's start or end was queued.
From(p, c) ==
  /\ AtWork(c, c, 0) /\ c.calls = p.calls /\ SameCounts(p, c)
  /\ c.stream_started = p.stream_started
  /\ c.stop_status = "NONE" => p.stop_status = "NONE"
  /\ c.stop_status = "NONE" /\ Matched(p) => Matched(c)

\* A function of the stream or the document that has done nothing yet.
LEMMA FromBegins ==
  ASSUME NEW p, NEW at \in Above, Ready(p, at)
  PROVE  From(p, p) /\ AtWork(p, p, 0)
<1>1. AtWork(p, p, Own(Top(p).at)) /\ Own(Top(p).at) = 0
  BY WorkBegins, AboveLabels DEF Ready
<1>2. AtWork(p, p, 0)
  BY <1>1
<1> QED BY <1>2 DEF From, AtWork

\* Its functions are in no collection.
LEMMA AboveFrames ==
  ASSUME NEW p, Steady(p), p.calls # <<>>, Top(p).at \in Above
  PROVE  /\ ContextFrames(Front(p.calls)) = 0 /\ ContextFrames(p.calls) = 0
         /\ Top(p).at \in StreamLabels => Front(p.calls) = <<>>
         /\ Top(p).at \in DocLabels
              => Len(Front(p.calls)) = 1 /\ Front(p.calls)[1].at = "STREAM_DONE"
<1> DEFINE rest == Front(p.calls)
<1>1. /\ rest \in Seq(CallFrame) /\ Len(rest) = Len(p.calls) - 1
      /\ Behind(rest, Len(p.events)) /\ p.calls \in Seq(CallFrame)
      /\ Top(p).at \in StreamLabels => Len(p.calls) = 1
      /\ Top(p).at \in DocLabels => Len(p.calls) = 2
  BY Depths, EagerTypes
<1>2. ContextFrames(p.calls) = ContextFrames(rest) + Own(Top(p).at)
  BY <1>1, StackContexts DEF Top
<1>3. Own(Top(p).at) = 0
  BY AboveLabels
<1> HIDE DEF rest
<1>4. Top(p).at \in StreamLabels => rest = <<>>
  <2>1. Len(rest) = 0 => rest = <<>>
    BY <1>1
  <2> QED BY <1>1, <2>1
<1>5. Top(p).at \in DocLabels => Len(rest) = 1 /\ rest[1].at = "STREAM_DONE"
  <2>1. Len(rest) = 1 => 1 \in 1..Len(rest)
    OBVIOUS
  <2>2. Len(rest) = 1 => rest[1].at \in Waits(1)
    BY <1>1, <2>1 DEF Behind
  <2> QED BY <1>1, <2>2 DEF Waits
<1>6. ContextFrames(rest) = 0
  <2>1. CASE rest = <<>>
    BY <2>1, NoContexts
  <2>2. CASE Len(rest) = 1 /\ rest[1].at = "STREAM_DONE"
    <3>1. {i \in 1..Len(rest) : rest[i].at \in WithContext} = {}
      BY <2>2 DEF WithContext
    <3> QED BY <3>1, FS_EmptySet DEF ContextFrames
  <2> QED BY <1>4, <1>5, <2>1, <2>2 DEF Above
<1> QED BY <1>2, <1>3, <1>4, <1>5, <1>6 DEF rest

\* More events, or a reason to stop: in no document, or in the new one.
LEMMA EventsSteady ==
  ASSUME NEW q, Steady(q), ~OverLimit(q),
         NEW s \in Seq(EagerEvent), Len(s) = Len(q.events) + 1
  PROVE  LET r == [q EXCEPT !.events = s]
         IN  /\ Steady(r) /\ r.calls = q.calls /\ r.events = s /\ r.contexts = q.contexts
             /\ SameCounts(q, r) /\ r.status = q.status /\ r.starved = q.starved
             /\ r.stop_status = q.stop_status
             /\ r.doc_open = q.doc_open /\ r.stream_started = q.stream_started
             /\ r.have_token = q.have_token /\ r.current = q.current
<1> DEFINE r == [q EXCEPT !.events = s]
           n == Len(q.events)
<1>1. q \in EagerRecord /\ n \in Nat /\ q.evt_base \in Nat
  BY EagerTypes
<1>2. r \in EagerRecord
  BY <1>1 DEF EagerRecord
<1>3. /\ r.calls = q.calls /\ r.events = s /\ r.evt_base = q.evt_base
      /\ r.contexts = q.contexts
      /\ r.cursor = q.cursor /\ r.skip_n = q.skip_n /\ r.status = q.status
      /\ r.skip_sig = q.skip_sig /\ r.skip_got = q.skip_got
      /\ r.starved = q.starved /\ r.stop_status = q.stop_status
      /\ r.doc_open = q.doc_open /\ r.stream_started = q.stream_started
      /\ r.have_token = q.have_token /\ r.current = q.current
  BY <1>1 DEF EagerRecord
<1> HIDE DEF r
<1>4. Stack(r.calls, Len(r.events))
  <2>1. Stack(q.calls, n)
    BY DEF Steady
  <2>2. \A f : FrameFits(f, n) => FrameFits(f, n + 1)
    BY <1>1 DEF FrameFits
  <2>3. Stack(q.calls, n + 1)
    BY <2>1, <2>2 DEF Stack
  <2> QED BY <1>3, <2>3
<1>5. MaxEvents > 0 => r.evt_base + Len(r.events) <= MaxEvents
  <2>1. MaxEvents > 0 => ~(q.evt_base + n >= MaxEvents)
    BY DEF OverLimit
  <2> HIDE DEF n
  <2>2. MaxEvents > 0 => q.evt_base + (n + 1) <= MaxEvents
    BY <1>1, <2>1, LimitsAssumption
  <2> QED BY <1>3, <2>2 DEF n
<1>6. ~(MaxDepth = 0 /\ "ERR_LIMIT" \in {r.stop_status, r.status})
  BY <1>3 DEF Steady
<1>7. Steady(r)
  BY <1>2, <1>4, <1>5, <1>6 DEF Steady
<1>8. SameCounts(q, r)
  <2> HIDE DEF n
  <2>1. n <= n + 1
    BY <1>1
  <2> QED BY <1>3, <2>1 DEF SameCounts, n
<1> QED BY <1>3, <1>7, <1>8 DEF r

\* Two steps that leave the counts alone, one after the other.
LEMMA SameCountsAgain ==
  ASSUME NEW p, NEW q, NEW r, SameCounts(p, q), SameCounts(q, r),
         Len(p.events) \in Nat, Len(q.events) \in Nat, Len(r.events) \in Nat
  PROVE  SameCounts(p, r)
BY DEF SameCounts

\* Queueing a document's start or end, which opens or closes it.
Turned(q, type) == [EnqueuePlain(q, type) EXCEPT !.doc_open = (type = "DOC_START")]

\* A document's start or end is queued, or the parser stops.
LEMMA DocEvent ==
  ASSUME NEW p, NEW c, NEW q, From(p, c), AtWork(c, q, 0), Steady(p),
         p.calls # <<>>, Top(p).at \in Above,
         NEW type \in DocTypes, NEW o, o = Turned(q, type)
  PROVE  /\ From(p, o) /\ (o.doc_open <=> type = "DOC_START")
         /\ o.stop_status = "NONE"
              => q.stop_status = "NONE" /\ (DocIn(o.events) <=> type = "DOC_START")
<1> DEFINE e == EventWith(type, NoProps)
           s == Append(q.events, e)
           r == EnqueuePlain(q, type)
           b == type = "DOC_START"
<1>0. o = [r EXCEPT !.doc_open = b]
  BY DEF Turned
<1>1. /\ e \in EagerEvent /\ e.type = type
  <2>1. type \in Stream!Event /\ NoProps \in Props
    BY DEF DocTypes, Stream!Event, NoProps, Props, Property
  <2> QED BY <2>1, EventType
<1> HIDE DEF e
<1>2. /\ s \in Seq(EagerEvent) /\ Len(s) = Len(q.events) + 1
      /\ DocIn(s) <=> type = "DOC_START"
  <2>1. q.events \in Seq(EagerEvent)
    BY EagerTypes DEF AtWork
  <2>2. s \in Seq(EagerEvent) /\ Len(s) = Len(q.events) + 1
    BY <1>1, <2>1, AppendEvents
  <2>3. /\ e.type = "DOC_START" => DocIn(s)
        /\ e.type = "DOC_END" => ~DocIn(s)
    BY <1>1, <2>1, AppendDoc
  <2> HIDE DEF s
  <2> QED BY <1>1, <2>2, <2>3 DEF DocTypes
<1> HIDE DEF s
<1>3. /\ Steady(r) /\ r.calls = q.calls /\ r.contexts = q.contexts
      /\ SameCounts(q, r) /\ r.status = "OK" /\ ~r.starved
      /\ r.stop_status = "NONE"
           => q.stop_status = "NONE" /\ (DocIn(r.events) <=> type = "DOC_START")
      /\ r.stream_started = q.stream_started
      /\ r.have_token = q.have_token /\ r.current = q.current
  <2>1. CASE OverLimit(q)
    <3>1. r = StopWith(q, "ERR_LIMIT")
      BY <2>1 DEF EnqueuePlain, Enqueue
    <3>2. AtWork(c, StopWith(q, "ERR_LIMIT"), 0)
      BY <2>1, StopsWork
    <3>3. q \in EagerRecord /\ Len(q.events) \in Nat
      BY EagerTypes DEF AtWork
    <3>4. /\ r.stop_status # "NONE" /\ r.calls = q.calls /\ r.contexts = q.contexts
          /\ r.stream_started = q.stream_started /\ r.have_token = q.have_token
          /\ r.current = q.current /\ r.events = q.events /\ r.evt_base = q.evt_base
          /\ r.cursor = q.cursor /\ r.skip_n = q.skip_n
          /\ r.skip_sig = q.skip_sig /\ r.skip_got = q.skip_got
      BY <3>1, <3>3 DEF StopWith, EagerRecord
    <3>5. Steady(r) /\ r.status = "OK" /\ ~r.starved
      BY <3>1, <3>2 DEF AtWork
    <3>6. SameCounts(q, r)
      BY <3>3, <3>4 DEF SameCounts
    <3> QED BY <3>4, <3>5, <3>6
  <2>2. CASE ~OverLimit(q)
    <3>1. r = [q EXCEPT !.events = s]
      BY <2>2 DEF EnqueuePlain, Enqueue, e, s
    <3>2. Steady(q) /\ q.status = "OK" /\ ~q.starved
      BY DEF AtWork
    <3> HIDE DEF r
    <3>3. /\ Steady(r) /\ r.calls = q.calls /\ r.events = s /\ r.contexts = q.contexts
          /\ SameCounts(q, r) /\ r.status = q.status /\ r.starved = q.starved
          /\ r.stop_status = q.stop_status
          /\ r.stream_started = q.stream_started
          /\ r.have_token = q.have_token /\ r.current = q.current
      BY <1>2, <2>2, <3>1, <3>2, EventsSteady
    <3> QED BY <1>2, <3>2, <3>3
  <2> QED BY <2>1, <2>2
<1> HIDE DEF r
<1>4. /\ Steady(o) /\ o.calls = q.calls /\ o.contexts = q.contexts /\ o.events = r.events
      /\ SameCounts(q, o) /\ o.status = "OK" /\ ~o.starved
      /\ o.stop_status = r.stop_status
      /\ o.stream_started = q.stream_started /\ o.doc_open = b
      /\ o.have_token = q.have_token /\ o.current = q.current
  <2>1. r \in EagerRecord
    BY <1>3 DEF Steady
  <2>2. o \in EagerRecord
    BY <1>0, <2>1 DEF EagerRecord
  <2>3. /\ o.calls = r.calls /\ o.contexts = r.contexts /\ o.events = r.events
        /\ o.evt_base = r.evt_base /\ o.cursor = r.cursor /\ o.skip_n = r.skip_n
        /\ o.skip_sig = r.skip_sig /\ o.skip_got = r.skip_got
        /\ o.status = r.status /\ o.starved = r.starved /\ o.stop_status = r.stop_status
        /\ o.stream_started = r.stream_started /\ o.doc_open = b
        /\ o.have_token = r.have_token /\ o.current = r.current
    BY <1>0, <2>1 DEF EagerRecord
  <2>4. Steady(o)
    BY <1>3, <2>2, <2>3 DEF Steady, OverLimit
  <2>5. SameCounts(q, o)
    BY <1>3, <2>3 DEF SameCounts
  <2> QED BY <1>3, <2>3, <2>4, <2>5
<1>5. q.calls = c.calls /\ c.calls = p.calls /\ q.stream_started = c.stream_started
  BY DEF From, AtWork, SameDoc
<1>6. /\ ContextFrames(Front(p.calls)) = 0 /\ ContextFrames(p.calls) = 0
  BY AboveFrames
<1>7. AtWork(o, o, 0)
  <2>1. Ready(o, Top(p).at)
    <3>1. Top(o) = Top(p)
      BY <1>4, <1>5 DEF Top
    <3> QED BY <1>4, <1>5, <3>1 DEF Ready
  <2> QED BY <2>1, FromBegins
<1>8. SameCounts(p, o)
  <2>1. SameCounts(p, c) /\ SameCounts(c, q) /\ SameCounts(q, o)
    BY <1>4 DEF From, AtWork
  <2>2. /\ Len(p.events) \in Nat /\ Len(c.events) \in Nat /\ Len(q.events) \in Nat
        /\ Len(o.events) \in Nat
    BY <1>4, EagerTypes DEF AtWork
  <2>3. SameCounts(p, q)
    BY <2>1, <2>2, SameCountsAgain
  <2> QED BY <2>1, <2>2, <2>3, SameCountsAgain
<1>9. o.stop_status = "NONE" => q.stop_status = "NONE" /\ c.stop_status = "NONE"
                                  /\ p.stop_status = "NONE"
  BY <1>3, <1>4 DEF AtWork, From
<1>10. o.stop_status = "NONE" /\ Matched(p) => Matched(o)
  <2> SUFFICES ASSUME o.stop_status = "NONE", Matched(p) PROVE Matched(o)
    OBVIOUS
  <2>1. Matched(c)
    BY <1>9 DEF From
  <2>2. Len(q.contexts) = ContextFrames(Front(c.calls)) + 0
    BY <1>9, <2>1 DEF AtWork
  <2>3. Len(o.contexts) = 0 /\ ContextFrames(o.calls) = 0
    BY <1>4, <1>5, <1>6, <2>2
  <2> QED BY <2>3 DEF Matched
<1>11. From(p, o)
  BY <1>4, <1>5, <1>7, <1>8, <1>9, <1>10 DEF From
<1> QED BY <1>3, <1>4, <1>9, <1>11 DEF b

\* DocLaw, for a record of which the calls are still to change: the function
\* that goes on, and how many calls there are.
Law(q, at, n) ==
  /\ q.doc_open => q.stream_started
  /\ at \in {"DOCUMENT", "DIRECTIVES"} => q.stream_started
  /\ at \notin {"STREAM", "DOCUMENT", "DIRECTIVES"} => (q.doc_open <=> DocIn(q.events))
  /\ at \in {"STREAM", "DOCUMENT", "DIRECTIVES"} => ~DocIn(q.events)
  /\ q.doc_open /\ (n <= 1 \/ at = "DOCUMENT") => DocToken(q)
  /\ at = "DOCUMENT" => q.have_token /\ Tok(q) \notin {"STREAM_END", "NONE"}
  /\ at = "DIRECTIVES" => ~q.doc_open

\* The law of a record is that of the function that goes on.
LEMMA LawHolds ==
  ASSUME NEW q
  PROVE  /\ q.calls # <<>> => (DocLaw(q) <=> Law(q, Top(q).at, Len(q.calls)))
         /\ q.calls = <<>> => (DocLaw(q) <=> Law(q, "NONE", 0))
<1>1. q.calls # <<>> => (DocLaw(q) <=> Law(q, Top(q).at, Len(q.calls)))
  <2> SUFFICES ASSUME q.calls # <<>>
               PROVE  DocLaw(q) <=> Law(q, Top(q).at, Len(q.calls))
    OBVIOUS
  <2>1. \A labels : At(q, labels) <=> Top(q).at \in labels
    BY DEF At
  <2> DEFINE at == Top(q).at
             n == Len(q.calls)
  <2>2. /\ At(q, {"DOCUMENT", "DIRECTIVES"}) <=> at \in {"DOCUMENT", "DIRECTIVES"}
        /\ At(q, {"STREAM", "DOCUMENT", "DIRECTIVES"})
              <=> at \in {"STREAM", "DOCUMENT", "DIRECTIVES"}
        /\ At(q, {"DOCUMENT"}) <=> at = "DOCUMENT"
        /\ At(q, {"DIRECTIVES"}) <=> at = "DIRECTIVES"
    BY <2>1
  <2> HIDE DEF at, n
  <2>3. DocLaw(q) <=> Law(q, at, n)
    BY <2>2 DEF DocLaw, Law, n
  <2> QED BY <2>3 DEF at, n
<1>2. q.calls = <<>> => (DocLaw(q) <=> Law(q, "NONE", 0))
  <2> SUFFICES ASSUME q.calls = <<>> PROVE DocLaw(q) <=> Law(q, "NONE", 0)
    OBVIOUS
  <2>1. \A labels : ~At(q, labels)
    BY DEF At
  <2>2. Len(q.calls) = 0
    OBVIOUS
  <2> QED BY <2>1, <2>2 DEF DocLaw, Law
<1> QED BY <1>1, <1>2

\* The step of a stream's or a document's function ends.
LEMMA AboveSteps ==
  ASSUME NEW p, NEW c, NEW q, From(p, c), AtWork(c, q, 0), Steady(p),
         NEW calls, Stack(calls, Len(q.events)), ContextFrames(calls) = 0,
         calls = <<>> => q.stop_status = "NONE",
         ContextFrames(Front(p.calls)) = 0,
         q.stop_status = "NONE" /\ Matched(p) /\ DocLaw(p)
           => Law(q, IF calls = <<>> THEN "NONE" ELSE Last(calls).at, Len(calls))
  PROVE  Stepped(p, [q EXCEPT !.calls = calls])
<1> DEFINE r == [q EXCEPT !.calls = calls]
<1>1. /\ Steady(r) /\ SameCounts(c, r) /\ r.calls = calls
      /\ r.stop_status = q.stop_status /\ r.status = "OK"
      /\ r.doc_open = q.doc_open /\ r.stream_started = q.stream_started
      /\ r.events = q.events /\ r.contexts = q.contexts
      /\ r.have_token = q.have_token /\ r.current = q.current
  <2>1. OnlyCalls(c, q, calls, r)
    BY NewCalls
  <2> HIDE DEF r
  <2> QED BY <2>1 DEF OnlyCalls
<1> HIDE DEF r
<1>2. SameCounts(p, r)
  <2>1. SameCounts(p, c)
    BY DEF From
  <2>2. /\ Len(p.events) \in Nat /\ Len(c.events) \in Nat /\ Len(r.events) \in Nat
    BY <1>1, EagerTypes DEF AtWork
  <2> QED BY <1>1, <2>1, <2>2, SameCountsAgain
<1>3. r.stop_status = "NONE" => p.stop_status = "NONE" /\ c.stop_status = "NONE"
  BY <1>1 DEF AtWork, From
<1>4. r.stop_status = "NONE" /\ Matched(p) => Matched(r)
  <2> SUFFICES ASSUME r.stop_status = "NONE", Matched(p) PROVE Matched(r)
    OBVIOUS
  <2>1. Matched(c)
    BY <1>3 DEF From
  <2>2. Len(q.contexts) = ContextFrames(Front(c.calls)) + 0
    BY <1>1, <2>1 DEF AtWork
  <2>3. Len(q.contexts) = 0
    BY <2>2 DEF From
  <2> QED BY <1>1, <2>3 DEF Matched
<1>5. r.stop_status = "NONE" /\ Matched(p) /\ DocLaw(p) => DocLaw(r)
  <2> SUFFICES ASSUME r.stop_status = "NONE", Matched(p), DocLaw(p) PROVE DocLaw(r)
    OBVIOUS
  <2> DEFINE at == IF calls = <<>> THEN "NONE" ELSE Last(calls).at
             n == Len(calls)
  <2>1. Law(q, at, n)
    BY <1>1
  <2> HIDE DEF at, n
  <2>2. Law(r, at, n)
    BY <1>1, <2>1 DEF Law, DocToken, Tok
  <2>3. CASE calls = <<>>
    <3>1. at = "NONE" /\ n = 0
      BY <2>3 DEF at, n
    <3> QED BY <1>1, <2>2, <2>3, <3>1, LawHolds
  <2>4. CASE calls # <<>>
    <3>1. at = Top(r).at /\ n = Len(r.calls)
      BY <1>1, <2>4 DEF at, n, Top
    <3> QED BY <1>1, <2>2, <2>4, <3>1, LawHolds
  <2> QED BY <2>3, <2>4
<1>6. r.calls = <<>> => r.stop_status = "NONE"
  BY <1>1
<1>7. Stepped(p, r)
  BY <1>1, <1>2, <1>3, <1>4, <1>5, <1>6 DEF Stepped, WentOn
<1> QED BY <1>7 DEF r

\* An error.
LEMMA AboveFails ==
  ASSUME NEW p, NEW at \in Above, Ready(p, at)
  PROVE  Stepped(p, EagerError(p))
<1>1. AtWork(p, p, 0)
  BY FromBegins
<1> QED BY <1>1, ErrorSteps

\* The calls of a document's function.
LEMMA DocStacks ==
  ASSUME NEW p, NEW c, NEW q, From(p, c), AtWork(c, q, 0), Steady(p), p.calls # <<>>,
         Top(p).at \in DocLabels
  PROVE  LET rest == Front(p.calls)
             n == Len(q.events)
         IN  /\ Stack(rest, n) /\ Len(rest) = 1 /\ Last(rest).at = "STREAM_DONE"
             /\ rest # <<>> /\ ContextFrames(rest) = 0
             /\ \A f \in CallFrame : f.at \in DocLabels
                  => /\ Stack(Append(rest, f), n) /\ Len(Append(rest, f)) = 2
                     /\ Last(Append(rest, f)) = f /\ Append(rest, f) # <<>>
                     /\ ContextFrames(Append(rest, f)) = 0
             /\ \A f, g \in CallFrame : f.at = "DOC_DONE" /\ g.at = "BLOCK_NODE"
                  => /\ Stack(rest \o <<f, g>>, n) /\ Len(rest \o <<f, g>>) = 3
                     /\ Last(rest \o <<f, g>>) = g /\ rest \o <<f, g>> # <<>>
                     /\ ContextFrames(rest \o <<f, g>>) = 0
<1> DEFINE rest == Front(p.calls)
           n == Len(q.events)
<1>1. /\ n \in Nat /\ Len(p.events) \in Nat /\ Len(p.events) <= n
  <2>1. SameCounts(p, c) /\ SameCounts(c, q)
    BY DEF From, AtWork
  <2>2. n \in Nat /\ Len(p.events) \in Nat /\ Len(c.events) \in Nat
    BY EagerTypes DEF AtWork
  <2> QED BY <2>1, <2>2 DEF SameCounts
<1>2. /\ rest \in Seq(CallFrame) /\ Behind(rest, Len(p.events))
  <2>1. Steady(p) /\ p.calls # <<>>
    OBVIOUS
  <2> QED BY <2>1, Depths
<1>3. /\ Len(rest) = 1 /\ rest[1].at = "STREAM_DONE" /\ ContextFrames(rest) = 0
  BY AboveFrames DEF Above
<1> HIDE DEF n, rest
<1>4. Behind(rest, n)
  BY <1>1, <1>2, BehindGrows
<1>5. Stack(rest, n)
  BY <1>1, <1>4, BehindStack
<1>6. Last(rest).at = "STREAM_DONE" /\ rest # <<>>
  <2>1. Last(rest) = rest[1]
    BY <1>3 DEF Last
  <2>2. rest # <<>>
    <3>1. rest \in Seq(CallFrame) /\ Len(rest) = 1
      BY <1>2, <1>3
    <3> QED BY <3>1, EmptySeq
  <2> QED BY <1>3, <2>1, <2>2
<1>7. ASSUME NEW f \in CallFrame, f.at \in DocLabels
      PROVE  /\ Stack(Append(rest, f), n) /\ Len(Append(rest, f)) = 2
             /\ Last(Append(rest, f)) = f /\ Append(rest, f) # <<>>
             /\ ContextFrames(Append(rest, f)) = 0
  <2>1. FrameFits(f, n) /\ Own(f.at) = 0
    BY <1>7, AboveLabels DEF FrameFits, Above, Inserts, DocLabels
  <2>2. f.at \in Runs(Len(rest) + 1)
    BY <1>3, <1>7 DEF Runs
  <2>3. Stack(Append(rest, f), n)
    BY <1>1, <1>4, <2>1, <2>2, RunAbove
  <2>6. /\ Len(Append(rest, f)) = Len(rest) + 1 /\ Last(Append(rest, f)) = f
        /\ Append(rest, f) # <<>>
    BY <1>2, AppendCalls
  <2>4. Len(Append(rest, f)) = 2 /\ Last(Append(rest, f)) = f /\ Append(rest, f) # <<>>
    BY <1>3, <2>6
  <2>5. ContextFrames(Append(rest, f)) = 0
    BY <1>2, <1>3, <2>1, AppendContexts
  <2> QED BY <2>3, <2>4, <2>5
<1>8. ASSUME NEW f \in CallFrame, NEW g \in CallFrame, f.at = "DOC_DONE", g.at = "BLOCK_NODE"
      PROVE  /\ Stack(rest \o <<f, g>>, n) /\ Len(rest \o <<f, g>>) = 3
             /\ Last(rest \o <<f, g>>) = g /\ rest \o <<f, g>> # <<>>
             /\ ContextFrames(rest \o <<f, g>>) = 0
  <2> DEFINE below == Append(rest, f)
             all == Append(below, g)
  <2>1. FrameFits(f, n) /\ Own(f.at) = 0 /\ FrameFits(g, n) /\ Own(g.at) = 0
    BY <1>8 DEF FrameFits, Inserts, Own, WithContext
  <2>2. f.at \in Waits(Len(rest) + 1)
    BY <1>3, <1>8 DEF Waits
  <2>3. Behind(below, n)
    BY <1>1, <1>4, <2>1, <2>2, WaitAbove
  <2>11. Len(below) = Len(rest) + 1 /\ below \in Seq(CallFrame)
    BY <1>2, AppendCalls
  <2>4. Len(below) = 2 /\ below \in Seq(CallFrame)
    BY <1>3, <2>11
  <2>5. ContextFrames(below) = 0
    BY <1>2, <1>3, <2>1, AppendContexts
  <2>6. rest \o <<f, g>> = all
    BY <1>2
  <2> HIDE DEF below
  <2>7. g.at \in Runs(Len(below) + 1)
    BY <1>8, <2>4 DEF Runs, Inner, Label, StreamLabels, DocLabels
  <2>8. Stack(all, n)
    BY <1>1, <2>1, <2>3, <2>7, RunAbove
  <2>12. Len(all) = Len(below) + 1 /\ Last(all) = g /\ all # <<>>
    BY <2>4, AppendCalls
  <2>9. Len(all) = 3 /\ Last(all) = g /\ all # <<>>
    BY <2>4, <2>12
  <2>10. ContextFrames(all) = 0
    BY <2>1, <2>4, <2>5, AppendContexts
  <2> HIDE DEF all
  <2> QED BY <2>6, <2>8, <2>9, <2>10
<1> QED BY <1>3, <1>5, <1>6, <1>7, <1>8 DEF n, rest

\* A document's function goes on, calls parse_block_node, or returns.
LEMMA DocSteps ==
  ASSUME NEW p, NEW c, NEW q, From(p, c), AtWork(c, q, 0), Steady(p), p.calls # <<>>,
         Top(p).at \in DocLabels
  PROVE  /\ \A at \in DocLabels :
              (q.stop_status = "NONE" /\ Matched(p) /\ DocLaw(p) => Law(q, at, 2))
                => Stepped(p, GoOn(q, at))
         /\ (q.stop_status = "NONE" /\ Matched(p) /\ DocLaw(p) => Law(q, "BLOCK_NODE", 3))
              => Stepped(p, CallAndGoOn(q, "BLOCK_NODE", "DOC_DONE"))
         /\ (q.stop_status = "NONE" /\ Matched(p) /\ DocLaw(p) => Law(q, "STREAM_DONE", 1))
              => Stepped(p, Finished(q))
<1> DEFINE rest == Front(p.calls)
           n == Len(q.events)
<1>1. /\ Stack(rest, n) /\ Len(rest) = 1 /\ Last(rest).at = "STREAM_DONE"
      /\ rest # <<>> /\ ContextFrames(rest) = 0
      /\ \A f \in CallFrame : f.at \in DocLabels
           => /\ Stack(Append(rest, f), n) /\ Len(Append(rest, f)) = 2
              /\ Last(Append(rest, f)) = f /\ Append(rest, f) # <<>>
              /\ ContextFrames(Append(rest, f)) = 0
      /\ \A f, g \in CallFrame : f.at = "DOC_DONE" /\ g.at = "BLOCK_NODE"
           => /\ Stack(rest \o <<f, g>>, n) /\ Len(rest \o <<f, g>>) = 3
              /\ Last(rest \o <<f, g>>) = g /\ rest \o <<f, g>> # <<>>
              /\ ContextFrames(rest \o <<f, g>>) = 0
  BY DocStacks
<1>2. q.calls = p.calls /\ q \in EagerRecord
  BY EagerTypes DEF AtWork, From
<1>3. Top(q) \in CallFrame
  <2>1. Top(q) = Top(p) /\ Top(p) \in CallFrame
    BY <1>2, Depths DEF Top
  <2> QED BY <2>1
<1>4. ContextFrames(Front(p.calls)) = 0
  BY AboveFrames DEF Above
<1> HIDE DEF n
<1>5. ASSUME NEW at \in DocLabels,
             q.stop_status = "NONE" /\ Matched(p) /\ DocLaw(p) => Law(q, at, 2)
      PROVE  Stepped(p, GoOn(q, at))
  <2> DEFINE f == [Top(q) EXCEPT !.at = at]
             calls == Append(rest, f)
  <2>1. f \in CallFrame /\ f.at = at
    BY <1>3, AboveLabels DEF CallFrame, Above
  <2>2. GoOn(q, at) = [q EXCEPT !.calls = calls]
    BY <1>2 DEF GoOn, Become
  <2> HIDE DEF f, rest
  <2>3. /\ Stack(calls, n) /\ Len(calls) = 2 /\ Last(calls).at = at /\ calls # <<>>
        /\ ContextFrames(calls) = 0
    BY <1>1, <2>1
  <2> HIDE DEF calls
  <2>4. Stepped(p, [q EXCEPT !.calls = calls])
    BY <1>4, <1>5, <2>3, AboveSteps DEF n
  <2> QED BY <2>2, <2>4
<1>6. ASSUME q.stop_status = "NONE" /\ Matched(p) /\ DocLaw(p) => Law(q, "BLOCK_NODE", 3)
      PROVE  Stepped(p, CallAndGoOn(q, "BLOCK_NODE", "DOC_DONE"))
  <2> DEFINE f == [Top(q) EXCEPT !.at = "DOC_DONE"]
             g == NewFrame("BLOCK_NODE")
             calls == rest \o <<f, g>>
  <2>1. f \in CallFrame /\ f.at = "DOC_DONE"
    BY <1>3 DEF CallFrame, Label
  <2>2. g \in CallFrame /\ g.at = "BLOCK_NODE"
    BY NewFrames DEF Label
  <2>3. CallAndGoOn(q, "BLOCK_NODE", "DOC_DONE") = [q EXCEPT !.calls = calls]
    BY <1>2 DEF CallAndGoOn, CallThen
  <2> HIDE DEF f, g, rest
  <2>4. /\ Stack(calls, n) /\ Len(calls) = 3 /\ Last(calls).at = "BLOCK_NODE"
        /\ calls # <<>> /\ ContextFrames(calls) = 0
    BY <1>1, <2>1, <2>2
  <2> HIDE DEF calls
  <2>5. Stepped(p, [q EXCEPT !.calls = calls])
    BY <1>4, <1>6, <2>4, AboveSteps DEF n
  <2> QED BY <2>3, <2>5
<1>7. ASSUME q.stop_status = "NONE" /\ Matched(p) /\ DocLaw(p) => Law(q, "STREAM_DONE", 1)
      PROVE  Stepped(p, Finished(q))
  <2>1. Finished(q) = [q EXCEPT !.calls = rest]
    BY <1>2 DEF Finished
  <2>2. ContextFrames(Front(p.calls)) = 0
    BY <1>4
  <2>3. /\ Stack(rest, n) /\ Len(rest) = 1 /\ Last(rest).at = "STREAM_DONE"
        /\ rest # <<>> /\ ContextFrames(rest) = 0
    BY <1>1
  <2> HIDE DEF rest
  <2>4. Stepped(p, [q EXCEPT !.calls = rest])
    BY <1>7, <2>2, <2>3, AboveSteps DEF n
  <2> QED BY <2>1, <2>4
<1> QED BY <1>5, <1>6, <1>7

\* The document that is open is closed (close_document).
LEMMA CloseDocumentFrom ==
  ASSUME NEW p, NEW at \in Above, Ready(p, at)
  PROVE  LET c == CloseDocument(p)
         IN  /\ From(p, c) /\ AtWork(c, c, 0) /\ ~c.doc_open
             /\ c.stop_status = "NONE" /\ p.doc_open => ~DocIn(c.events)
             /\ ~p.doc_open => c = p
<1> DEFINE u == UnrollAll(p)
           c == CloseDocument(p)
<1>1. From(p, p) /\ AtWork(p, p, 0)
  BY FromBegins
<1>2. Steady(p) /\ p.calls # <<>> /\ Top(p).at \in Above /\ p \in EagerRecord
  BY EagerTypes DEF Ready
<1>3. CASE ~p.doc_open
  BY <1>1, <1>3 DEF CloseDocument
<1>4. CASE p.doc_open
  <2>1. AtWork(p, u, 0)
    BY <1>1, <1>2, AboveFrames, UnrollWork
  <2>2. c = Turned(u, "DOC_END")
    BY <1>4 DEF CloseDocument, Turned
  <2> HIDE DEF u, c
  <2>3. From(p, c) /\ ~c.doc_open /\ (c.stop_status = "NONE" => ~DocIn(c.events))
    <3>1. /\ From(p, c) /\ (c.doc_open <=> "DOC_END" = "DOC_START")
          /\ c.stop_status = "NONE" => (DocIn(c.events) <=> "DOC_END" = "DOC_START")
      BY <1>1, <1>2, <2>1, <2>2, DocEvent DEF DocTypes
    <3> QED BY <3>1
  <2>4. AtWork(c, c, 0)
    BY <2>3 DEF From
  <2> QED BY <1>4, <2>3, <2>4 DEF c
<1>5. p.doc_open \in BOOLEAN
  BY <1>2 DEF EagerRecord
<1> QED BY <1>3, <1>4, <1>5

\* A document is opened (parse_document).
LEMMA OpenDocumentFrom ==
  ASSUME NEW p, NEW c, NEW q, From(p, c), AtWork(c, q, 0), Steady(p),
         p.calls # <<>>, Top(p).at \in Above, NEW line \in Nat
  PROVE  LET o == OpenDocument(q, line)
         IN  /\ From(p, o) /\ AtWork(o, o, 0) /\ o.doc_open
             /\ o.stop_status = "NONE" => DocIn(o.events) /\ q.stop_status = "NONE"
<1> DEFINE t == [q EXCEPT !.doc_start_line = line]
           o == OpenDocument(q, line)
<1>1. q \in EagerRecord
  BY EagerTypes DEF AtWork
<1>2. t \in EagerRecord /\ Alike(t, q)
  BY <1>1 DEF EagerRecord, Alike
<1>3. o = Turned(t, "DOC_START")
  BY DEF OpenDocument, Turned
<1> HIDE DEF t, o
<1>4. AtWork(c, t, 0)
  BY <1>2, AlikeWork
<1>5. /\ From(p, o) /\ o.doc_open
      /\ o.stop_status = "NONE" => t.stop_status = "NONE" /\ DocIn(o.events)
  BY <1>3, <1>4, DocEvent DEF DocTypes
<1>6. AtWork(o, o, 0)
  BY <1>5 DEF From
<1> QED BY <1>2, <1>5, <1>6 DEF o, Alike

\* What the law says of a document's function, before its step.
LEMMA DocumentLaw ==
  ASSUME NEW p, p.calls # <<>>, DocLaw(p)
  PROVE  Law(p, Top(p).at, Len(p.calls))
BY LawHolds

\* Either no document is open here, or this token ends it.
LEMMA DocumentAtSteps ==
  ASSUME NEW p, NEW at \in {"DOCUMENT", "DIRECTIVES"}, Ready(p, at), p.have_token,
         at = "DIRECTIVES" => Tok(p) \in {"DIRECTIVE", "DOC_START"}
  PROVE  Stepped(p, DocumentAt(p))
<1> DEFINE c == CloseDocument(p)
           d == Consume(c)
           o == OpenDocument(d, p.current.line)
           b == IF p.doc_open THEN p ELSE OpenDocument(p, 0)
           C == p.stop_status = "NONE" /\ Matched(p) /\ DocLaw(p)
<1>1. /\ Steady(p) /\ p.calls # <<>> /\ Top(p).at \in DocLabels /\ Top(p).at = at
      /\ Top(p).at \in Above /\ at \in Above /\ p.current.line \in Nat
  BY EagerTypes DEF Ready, DocLabels, Above
<1>2. From(p, p) /\ AtWork(p, p, 0)
  BY <1>1, FromBegins
<1>3. /\ From(p, c) /\ AtWork(c, c, 0) /\ ~c.doc_open
      /\ c.stop_status = "NONE" /\ p.doc_open => ~DocIn(c.events)
      /\ ~p.doc_open => c = p
  BY <1>1, CloseDocumentFrom
<1>4. DocLaw(p) => Law(p, at, Len(p.calls))
  BY <1>1, DocumentLaw
<1>5. DocLaw(p) => p.stream_started /\ ~DocIn(p.events)
  BY <1>4 DEF Law
<1>6. c.stop_status = "NONE" /\ DocLaw(p) => ~DocIn(c.events) /\ c.stream_started
  BY <1>3, <1>5 DEF From
<1> HIDE DEF c
<1>7. AtWork(c, d, 0)
  BY <1>3, ConsumeWork
<1>8. /\ d.events = c.events /\ d.doc_open = c.doc_open /\ d.stop_status = c.stop_status
      /\ d.stream_started = c.stream_started
  <2>1. c \in EagerRecord
    BY <1>3, EagerTypes DEF AtWork
  <2> QED BY <2>1 DEF Consume, EagerRecord
<1> HIDE DEF d
<1>9. Stepped(p, GoOn(o, "DOC_CONTENT"))
  <2>1. /\ From(p, o) /\ AtWork(o, o, 0) /\ o.doc_open
        /\ o.stop_status = "NONE" => DocIn(o.events) /\ d.stop_status = "NONE"
    BY <1>1, <1>3, <1>7, OpenDocumentFrom
  <2> HIDE DEF o
  <2>2. o.stop_status = "NONE" /\ Matched(p) /\ DocLaw(p) => Law(o, "DOC_CONTENT", 2)
    BY <1>5, <2>1 DEF Law, From
  <2>3. "DOC_CONTENT" \in DocLabels
    BY DEF DocLabels
  <2> QED BY <1>1, <2>1, <2>2, <2>3, DocSteps
<1>10. Stepped(p, Finished(d))
  <2>1. d.stop_status = "NONE" /\ Matched(p) /\ DocLaw(p) => Law(d, "STREAM_DONE", 1)
    BY <1>3, <1>6, <1>8 DEF Law
  <2> QED BY <1>1, <1>3, <1>7, <2>1, DocSteps
<1>11. Tok(p) = "STREAM_END" => Stepped(p, Finished(p))
  <2>1. Tok(p) = "STREAM_END" /\ DocLaw(p) => FALSE
    BY <1>4 DEF Law
  <2> QED BY <1>1, <1>2, <2>1, DocSteps
<1>12. Stepped(p, EagerError(p))
  BY <1>1, AboveFails
<1>13. Tok(p) \notin DocumentEnds
         => Stepped(p, CallAndGoOn(b, "BLOCK_NODE", "DOC_DONE"))
  <2> SUFFICES ASSUME Tok(p) \notin DocumentEnds
               PROVE  Stepped(p, CallAndGoOn(b, "BLOCK_NODE", "DOC_DONE"))
    OBVIOUS
  <2>1. DocLaw(p) => ~p.doc_open
    BY <1>4 DEF Law, DocToken, DocumentEnds
  <2>2. From(p, b) /\ AtWork(b, b, 0)
        /\ (b.stop_status = "NONE" /\ DocLaw(p) => DocIn(b.events) /\ b.doc_open)
    <3>1. CASE p.doc_open
      BY <1>2, <2>1, <3>1
    <3>2. CASE ~p.doc_open
      BY <1>1, <1>2, <3>2, OpenDocumentFrom
    <3> QED BY <3>1, <3>2
  <2> HIDE DEF b
  <2>3. b.stop_status = "NONE" /\ Matched(p) /\ DocLaw(p) => Law(b, "BLOCK_NODE", 3)
    BY <1>5, <2>2 DEF Law, From
  <2> QED BY <1>1, <2>2, <2>3, DocSteps
<1>14. \/ DocumentAt(p) = GoOn(o, "DOC_CONTENT")
       \/ DocumentAt(p) = Finished(d)
       \/ Tok(p) = "STREAM_END" /\ DocumentAt(p) = Finished(p)
       \/ DocumentAt(p) = EagerError(p)
       \/ Tok(p) \notin DocumentEnds /\ DocumentAt(p) = CallAndGoOn(b, "BLOCK_NODE", "DOC_DONE")
  BY DEF DocumentAt, DocumentEnds, c, d
<1> QED BY <1>9, <1>10, <1>11, <1>12, <1>13, <1>14

\* parse_document, at its first token.
LEMMA DocumentSteps ==
  ASSUME NEW p, NEW at \in {"DOCUMENT", "DIRECTIVES"}, Ready(p, at), p.have_token,
         at = "DIRECTIVES" => Tok(p) \in {"DIRECTIVE", "DOC_START"}
  PROVE  Stepped(p, Document(p))
<1> DEFINE d == Consume(p)
<1>1. /\ Steady(p) /\ p.calls # <<>> /\ Top(p).at \in DocLabels /\ Top(p).at = at
      /\ at \in Above /\ p \in EagerRecord
  BY EagerTypes DEF Ready, DocLabels, Above
<1>2. From(p, p) /\ AtWork(p, p, 0)
  BY <1>1, FromBegins
<1>3. Stepped(p, DocumentAt(p)) /\ Stepped(p, EagerError(p))
  BY <1>1, DocumentAtSteps, AboveFails
<1>4. ~p.doc_open => Stepped(p, GoOn(d, "DIRECTIVES"))
  <2> SUFFICES ASSUME ~p.doc_open PROVE Stepped(p, GoOn(d, "DIRECTIVES"))
    OBVIOUS
  <2>1. AtWork(p, d, 0)
    BY <1>2, ConsumeWork
  <2>2. /\ d.events = p.events /\ d.doc_open = p.doc_open
        /\ d.stream_started = p.stream_started
    BY <1>1 DEF Consume, EagerRecord
  <2>3. DocLaw(p) => p.stream_started /\ ~DocIn(p.events)
    <3>1. DocLaw(p) => Law(p, at, Len(p.calls))
      BY <1>1, DocumentLaw
    <3> QED BY <3>1 DEF Law
  <2> HIDE DEF d
  <2>4. DocLaw(p) => Law(d, "DIRECTIVES", 2)
    BY <2>2, <2>3 DEF Law
  <2>5. "DIRECTIVES" \in DocLabels
    BY DEF DocLabels
  <2> QED BY <1>1, <1>2, <2>1, <2>4, <2>5, DocSteps
<1>5. \/ Document(p) = DocumentAt(p) \/ Document(p) = EagerError(p)
      \/ ~p.doc_open /\ Document(p) = GoOn(d, "DIRECTIVES")
  BY DEF Document
<1> QED BY <1>3, <1>4, <1>5

\* parse_document, after a directive.
LEMMA AfterDirectiveSteps ==
  ASSUME NEW p, Ready(p, "DIRECTIVES"), p.have_token
  PROVE  Stepped(p, AfterDirective(p))
<1>1. Tok(p) \in {"DIRECTIVE", "DOC_START"} => Stepped(p, Document(p))
  BY DocumentSteps
<1>2. Stepped(p, EagerError(p))
  BY AboveFails DEF Above, DocLabels
<1> QED BY <1>1, <1>2 DEF AfterDirective

\* parse_document, at the root node or after it.
LEMMA DocumentContentSteps ==
  ASSUME NEW p, Ready(p, "DOC_CONTENT"), p.have_token
  PROVE  Stepped(p, DocumentContent(p))
<1> DEFINE e == EmitEmpty(p)
<1>1. /\ Steady(p) /\ p.calls # <<>> /\ Top(p).at \in DocLabels
      /\ Top(p).at = "DOC_CONTENT" /\ "DOC_CONTENT" \in Above /\ p \in EagerRecord
  BY EagerTypes DEF Ready, DocLabels, Above
<1>2. From(p, p) /\ AtWork(p, p, 0)
  BY <1>1, FromBegins
<1>3. Stepped(p, EagerError(p))
  BY <1>1, AboveFails
<1>4. DocLaw(p) => (p.doc_open => p.stream_started) /\ (p.doc_open <=> DocIn(p.events))
  <2>1. DocLaw(p) => Law(p, "DOC_CONTENT", Len(p.calls))
    BY <1>1, DocumentLaw
  <2> QED BY <2>1 DEF Law
<1>5. Stepped(p, CallAndGoOn(p, "BLOCK_NODE", "DOC_DONE"))
  <2>1. DocLaw(p) => Law(p, "BLOCK_NODE", 3)
    BY <1>4 DEF Law
  <2> QED BY <1>1, <1>2, <2>1, DocSteps
<1>6. Tok(p) \in DocumentEnds => Stepped(p, Finished(e))
  <2> SUFFICES ASSUME Tok(p) \in DocumentEnds PROVE Stepped(p, Finished(e))
    OBVIOUS
  <2>1. AtWork(p, e, 0)
    BY <1>2, EmptyWork
  <2>2. e.have_token = p.have_token /\ e.current = p.current
    <3> DEFINE q == DropProps(p)
    <3>1. q \in EagerRecord /\ q.have_token = p.have_token /\ q.current = p.current
      BY <1>1 DEF DropProps, WithPending, NoProps, Property, EagerRecord
    <3>2. e = Enqueue(q, EventWith("SCALAR", Pending(p)))
      BY DEF EmitEmpty, EnqueueWithProps
    <3> HIDE DEF q, e
    <3> QED BY <3>1, <3>2 DEF Enqueue, StopWith, EagerRecord
  <2> HIDE DEF e
  <2>3. /\ e.doc_open = p.doc_open /\ e.stream_started = p.stream_started
        /\ DocIn(e.events) <=> DocIn(p.events)
    BY <2>1 DEF AtWork, SameDoc
  <2>4. DocToken(e)
    BY <2>2 DEF DocToken, Tok
  <2>5. DocLaw(p) => Law(e, "STREAM_DONE", 1)
    BY <1>4, <2>3, <2>4 DEF Law
  <2> QED BY <1>1, <1>2, <2>1, <2>5, DocSteps
<1> QED BY <1>3, <1>5, <1>6 DEF DocumentContent

\* parse_document, after its root node: the contexts left are closed.
LEMMA DocumentDoneSteps ==
  ASSUME NEW p, Ready(p, "DOC_DONE"), p.have_token
  PROVE  Stepped(p, DocumentDone(p))
<1>1. /\ Steady(p) /\ p.calls # <<>> /\ Top(p).at \in DocLabels
      /\ Top(p).at = "DOC_DONE" /\ "DOC_DONE" \in Above
  BY DEF Ready, DocLabels, Above
<1>2. From(p, p) /\ AtWork(p, p, 0)
  BY <1>1, FromBegins
<1>3. Stepped(p, EagerError(p))
  BY <1>1, AboveFails
<1>4. DocLaw(p) => (p.doc_open => p.stream_started) /\ (p.doc_open <=> DocIn(p.events))
  <2>1. DocLaw(p) => Law(p, "DOC_DONE", Len(p.calls))
    BY <1>1, DocumentLaw
  <2> QED BY <2>1 DEF Law
<1>5. Tok(p) \in DocumentEnds \cup {"NONE"} => Stepped(p, Finished(p))
  <2> SUFFICES ASSUME Tok(p) \in DocumentEnds \cup {"NONE"} PROVE Stepped(p, Finished(p))
    OBVIOUS
  <2>1. DocToken(p)
    BY DEF DocToken
  <2>2. DocLaw(p) => Law(p, "STREAM_DONE", 1)
    BY <1>4, <2>1 DEF Law
  <2> QED BY <1>1, <1>2, <2>2, DocSteps
<1> QED BY <1>3, <1>5 DEF DocumentDone

-----------------------------------------------------------------------------
(***************************************************************************)
(* The stream.                                                             *)
(***************************************************************************)

\* A check fails if there is a reason to stop.
LEMMA CheckSteps ==
  ASSUME NEW p, NEW q, NEW d, AtWork(p, q, d), q.stop_status # "NONE"
  PROVE  Stepped(p, Fail(q, q.stop_status)) /\ ~Running(Fail(q, q.stop_status))
<1>1. q.stop_status \in {"ERR_PARSE", "ERR_LIMIT"}
      /\ (q.stop_status = "ERR_LIMIT" /\ MaxDepth = 0 => OverLimit(q))
  BY DEF AtWork, Steady, EagerRecord
<1> DEFINE s == q.stop_status
<1>2. /\ s \in {"ERR_PARSE", "ERR_SCAN", "ERR_LIMIT"}
      /\ s = "ERR_LIMIT" /\ MaxDepth = 0 => OverLimit(q)
  BY <1>1
<1> HIDE DEF s
<1>3. Stepped(p, Fail(q, s)) /\ ~Running(Fail(q, s))
  BY <1>2, FailSteps
<1> QED BY <1>3 DEF s

\* An error in a record that a document's end was queued in.
LEMMA FromFails ==
  ASSUME NEW p, NEW c, From(p, c), Steady(p), NEW r, Stepped(c, r), r.status # "OK"
  PROVE  Stepped(p, r)
<1>1. CASE r.starved
  BY <1>1 DEF Stepped
<1>2. CASE ~r.starved
  <2>1. Steady(r) /\ SameCounts(c, r)
    BY <1>2 DEF Stepped
  <2>2. SameCounts(p, c) /\ Steady(c)
    BY DEF From, AtWork
  <2>3. SameCounts(p, r)
    BY <2>1, <2>2, EagerTypes, SameCountsAgain
  <2> QED BY <2>1, <2>3 DEF Stepped
<1> QED BY <1>1, <1>2

\* parse_stream, after a document.
LEMMA StreamDoneSteps ==
  ASSUME NEW p, Ready(p, "STREAM_DONE")
  PROVE  Stepped(p, StreamDone(p))
<1>1. /\ Steady(p) /\ p.calls # <<>> /\ Top(p).at \in StreamLabels
      /\ Top(p).at = "STREAM_DONE" /\ "STREAM_DONE" \in Above /\ p \in EagerRecord
      /\ Len(p.calls) = 1
  BY EagerTypes, Depths DEF Ready, StreamLabels, Above
<1>2. From(p, p) /\ AtWork(p, p, 0)
  BY <1>1, FromBegins
<1>3. Stepped(p, EagerError(p))
  BY <1>1, AboveFails
<1>4. Front(p.calls) = <<>> /\ ContextFrames(Front(p.calls)) = 0
  BY <1>1, AboveFrames DEF Above
<1>5. Finished(p) = [p EXCEPT !.calls = <<>>]
  BY <1>1, <1>4 DEF Finished
<1>6. p.stop_status = "NONE" => Stepped(p, Finished(p))
  <2> SUFFICES ASSUME p.stop_status = "NONE" PROVE Stepped(p, Finished(p))
    OBVIOUS
  <2> DEFINE calls == <<>>
  <2>1. DocLaw(p) => Law(p, "NONE", 0)
    <3>1. DocLaw(p) => Law(p, "STREAM_DONE", 1)
      BY <1>1, DocumentLaw
    <3> QED BY <3>1 DEF Law
  <2>2. /\ Stack(calls, Len(p.events)) /\ ContextFrames(calls) = 0
        /\ calls = <<>> /\ Len(calls) = 0
    BY NoContexts DEF Stack
  <2>3. DocLaw(p) => Law(p, IF calls = <<>> THEN "NONE" ELSE Last(calls).at, Len(calls))
    BY <2>1, <2>2
  <2> HIDE DEF calls
  <2>4. Stepped(p, [p EXCEPT !.calls = calls])
    BY <1>1, <1>2, <1>4, <2>2, <2>3, AboveSteps
  <2> QED BY <1>5, <2>4 DEF calls
<1>7. p.stop_status # "NONE" => Stepped(p, CheckStop(Finished(p)))
  <2> SUFFICES ASSUME p.stop_status # "NONE" PROVE Stepped(p, CheckStop(Finished(p)))
    OBVIOUS
  <2>1. Stepped(p, Fail(p, p.stop_status))
    BY <1>2, CheckSteps
  <2>2. CheckStop(Finished(p)) = Fail(p, p.stop_status)
    BY <1>1, <1>5 DEF CheckStop, Fail, EagerRecord
  <2> QED BY <2>1, <2>2
<1>8. p.stop_status = "NONE" => CheckStop(Finished(p)) = Finished(p)
  BY <1>1, <1>5 DEF CheckStop, EagerRecord
<1> QED BY <1>3, <1>6, <1>7, <1>8 DEF StreamDone

\* The start of the stream.
LEMMA StreamBegins ==
  ASSUME NEW p, Ready(p, "STREAM"), ~p.stream_started,
         NEW r, r = [EnqueuePlain(Consume(p), "STREAM_START") EXCEPT !.stream_started = TRUE]
  PROVE  Stepped(p, r)
<1> DEFINE e == EnqueuePlain(Consume(p), "STREAM_START")
<1>1. /\ Steady(p) /\ p.calls # <<>> /\ Top(p).at = "STREAM" /\ "STREAM" \in Above
      /\ Top(p).at \in Above /\ Top(p).at \in StreamLabels /\ Len(p.calls) = 1
  BY Depths DEF Ready, StreamLabels, Above
<1>2. AtWork(p, p, 0)
  BY <1>1, FromBegins
<1>3. AtWork(p, e, 0)
  <2>1. AtWork(p, Consume(p), 0)
    BY <1>2, ConsumeWork
  <2>2. "STREAM_START" \in Stream!Event \ DocTypes
    BY DEF Stream!Event, DocTypes
  <2> QED BY <2>1, <2>2, EnqueuesWork
<1> HIDE DEF e
<1>4. r = [e EXCEPT !.stream_started = TRUE]
  BY DEF e
<1>5. e \in EagerRecord /\ Steady(e)
  BY <1>3, EagerTypes DEF AtWork
<1>6. r \in EagerRecord
  BY <1>4, <1>5 DEF EagerRecord
<1>7. /\ r.calls = e.calls /\ r.events = e.events /\ r.evt_base = e.evt_base
      /\ r.contexts = e.contexts /\ r.cursor = e.cursor /\ r.skip_n = e.skip_n
      /\ r.skip_sig = e.skip_sig /\ r.skip_got = e.skip_got
      /\ r.status = e.status /\ r.starved = e.starved /\ r.stop_status = e.stop_status
      /\ r.doc_open = e.doc_open /\ r.stream_started
  BY <1>4, <1>5 DEF EagerRecord
<1>8. Steady(r)
  BY <1>5, <1>6, <1>7 DEF Steady, OverLimit
<1>9. SameCounts(p, r)
  BY <1>3, <1>7 DEF AtWork, SameCounts
<1>10. r.calls = p.calls /\ r.doc_open = p.doc_open /\ (DocIn(r.events) <=> DocIn(p.events))
  BY <1>3, <1>7 DEF AtWork, SameDoc
<1>11. r.stop_status = "NONE" => p.stop_status = "NONE"
  BY <1>3, <1>7 DEF AtWork
<1>12. r.stop_status = "NONE" /\ Matched(p) => Matched(r)
  <2>1. ContextFrames(Front(p.calls)) = 0 /\ ContextFrames(p.calls) = 0
    BY <1>1, AboveFrames
  <2> QED BY <1>3, <1>7, <1>10, <2>1 DEF AtWork, Matched
<1>13. DocLaw(p) => DocLaw(r)
  <2> SUFFICES ASSUME DocLaw(p) PROVE DocLaw(r)
    OBVIOUS
  <2>1. Law(p, "STREAM", 1)
    BY <1>1, LawHolds
  <2>2. Law(r, "STREAM", 1)
    BY <1>7, <1>10, <2>1 DEF Law
  <2>3. r.calls # <<>> /\ Top(r).at = "STREAM" /\ Len(r.calls) = 1
    BY <1>1, <1>10 DEF Top
  <2> QED BY <2>2, <2>3, LawHolds
<1> QED BY <1>1, <1>8, <1>9, <1>10, <1>11, <1>12, <1>13 DEF Stepped, WentOn

\* Its end.
LEMMA StreamEnds ==
  ASSUME NEW p, Ready(p, "STREAM"),
         NEW r, r = [Finished(EnqueuePlain(Consume(CloseDocument(p)), "STREAM_END"))
                       EXCEPT !.stream_ended = TRUE]
  PROVE  Stepped(p, CheckStop(r))
<1> DEFINE c == CloseDocument(p)
           k == Consume(c)
           e == EnqueuePlain(k, "STREAM_END")
           f == [e EXCEPT !.stream_ended = TRUE]
           calls == <<>>
<1>1. /\ Steady(p) /\ p.calls # <<>> /\ Top(p).at = "STREAM" /\ "STREAM" \in Above
      /\ Top(p).at \in Above /\ Top(p).at \in StreamLabels /\ Len(p.calls) = 1
  BY Depths DEF Ready, StreamLabels, Above
<1>2. /\ From(p, c) /\ AtWork(c, c, 0) /\ ~c.doc_open
      /\ c.stop_status = "NONE" /\ p.doc_open => ~DocIn(c.events)
      /\ ~p.doc_open => c = p
  BY <1>1, CloseDocumentFrom
<1>3. ContextFrames(Front(p.calls)) = 0 /\ Front(p.calls) = <<>>
  BY <1>1, AboveFrames
<1> HIDE DEF c
<1>4. AtWork(c, k, 0)
  BY <1>2, ConsumeWork
<1>5. AtWork(c, e, 0)
  <2>1. "STREAM_END" \in Stream!Event \ DocTypes
    BY DEF Stream!Event, DocTypes
  <2> HIDE DEF k
  <2> QED BY <1>4, <2>1, EnqueuesWork
<1> HIDE DEF e
<1>6. AtWork(c, f, 0) /\ f.doc_open = c.doc_open /\ (DocIn(f.events) <=> DocIn(c.events))
      /\ f.stop_status = e.stop_status /\ f \in EagerRecord /\ e \in EagerRecord
  <2>1. e \in EagerRecord
    BY <1>5, EagerTypes DEF AtWork
  <2>2. f \in EagerRecord /\ Alike(f, e)
    BY <2>1 DEF EagerRecord, Alike
  <2> HIDE DEF f
  <2>3. AtWork(c, f, 0)
    BY <1>5, <2>2, AlikeWork
  <2> QED BY <2>1, <2>2, <2>3 DEF AtWork, SameDoc, Alike
<1>7. r = [f EXCEPT !.calls = calls]
  <2>1. e.calls = p.calls
    BY <1>2, <1>5 DEF AtWork, From
  <2>2. Finished(e) = [e EXCEPT !.calls = calls]
    BY <1>3, <2>1 DEF Finished
  <2>3. r = [Finished(e) EXCEPT !.stream_ended = TRUE]
    BY DEF e, c
  <2> QED BY <1>6, <2>2, <2>3 DEF EagerRecord
<1> HIDE DEF f
<1>8. /\ Stack(calls, Len(f.events)) /\ ContextFrames(calls) = 0
      /\ calls = <<>> /\ Len(calls) = 0
  BY NoContexts DEF Stack
<1> HIDE DEF calls
<1>9. CASE f.stop_status = "NONE"
  <2>1. c.stop_status = "NONE"
    BY <1>6, <1>9 DEF AtWork
  <2>2. DocLaw(p) => ~DocIn(c.events)
    <3>1. DocLaw(p) => Law(p, "STREAM", 1)
      BY <1>1, LawHolds
    <3>2. p.doc_open \in BOOLEAN
      BY <1>1, EagerTypes DEF EagerRecord
    <3> QED BY <1>2, <2>1, <3>1, <3>2 DEF Law
  <2>3. DocLaw(p) => Law(f, "NONE", 0)
    BY <1>2, <1>6, <2>2 DEF Law
  <2>4. f.stop_status = "NONE" /\ Matched(p) /\ DocLaw(p)
          => Law(f, IF calls = <<>> THEN "NONE" ELSE Last(calls).at, Len(calls))
    BY <1>8, <2>3
  <2>5. Stepped(p, [f EXCEPT !.calls = calls])
    BY <1>1, <1>2, <1>3, <1>6, <1>8, <1>9, <2>4, AboveSteps
  <2>6. CheckStop(r) = r
    BY <1>6, <1>7, <1>9 DEF CheckStop, EagerRecord
  <2> QED BY <1>7, <2>5, <2>6
<1>10. CASE f.stop_status # "NONE"
  <2>1. Stepped(c, Fail(f, f.stop_status))
    BY <1>6, <1>10, CheckSteps
  <2>2. CheckStop(r) = Fail(f, f.stop_status) /\ Fail(f, f.stop_status).status # "OK"
    BY <1>6, <1>7, <1>8, <1>10 DEF CheckStop, Fail, EagerRecord
  <2> QED BY <1>1, <1>2, <2>1, <2>2, FromFails
<1> QED BY <1>9, <1>10

\* The stream's next document.
LEMMA StreamCalls ==
  ASSUME NEW p, Ready(p, "STREAM"), p.stream_started, p.have_token,
         Tok(p) \notin {"STREAM_END", "NONE"}
  PROVE  Stepped(p, CallThen(p, "DOCUMENT", MaybeKey(p, "STREAM_DONE", p.current.pos)))
<1> DEFINE f == MaybeKey(p, "STREAM_DONE", p.current.pos)
           g == NewFrame("DOCUMENT")
           below == <<f>>
           calls == <<f, g>>
           n == Len(p.events)
<1>1. /\ Steady(p) /\ p.calls # <<>> /\ Top(p).at = "STREAM" /\ "STREAM" \in Above
      /\ Top(p).at \in Above /\ Top(p).at \in StreamLabels /\ Len(p.calls) = 1
      /\ n \in Nat /\ p.current.pos \in Nat /\ p.current.line \in Nat
  BY Depths, EagerTypes DEF Ready, StreamLabels, Above
<1>2. From(p, p) /\ AtWork(p, p, 0)
  BY <1>1, FromBegins
<1>3. ContextFrames(Front(p.calls)) = 0 /\ Front(p.calls) = <<>>
  BY <1>1, AboveFrames
<1>4. f \in CallFrame /\ f.at = "STREAM_DONE"
  <2>1. Len(p.events) <= n /\ "STREAM_DONE" \in Inner \cup {"STREAM_DONE"}
    BY <1>1
  <2> HIDE DEF n
  <2> QED BY <1>1, <2>1, MaybeKeyFrame
<1>5. g \in CallFrame /\ g.at = "DOCUMENT"
  BY NewFrames DEF Label
<1> HIDE DEF f, g
<1>6. CallThen(p, "DOCUMENT", f) = [p EXCEPT !.calls = calls]
  BY <1>3 DEF CallThen, g
<1>7. /\ Stack(calls, n) /\ ContextFrames(calls) = 0 /\ calls # <<>> /\ Len(calls) = 2
      /\ Last(calls) = g
  <2>1. /\ calls \in Seq(CallFrame) /\ Len(calls) = 2
        /\ \A i \in 1..2 : i = 1 \/ i = 2
        /\ calls[1] = f /\ calls[2] = g
    BY <1>4, <1>5
  <2> HIDE DEF calls
  <2>2. /\ FrameFits(f, n) /\ FrameFits(g, n)
        /\ f.at \in Runs(1) /\ f.at \in Waits(1) /\ g.at \in Runs(2)
    BY <1>4, <1>5 DEF FrameFits, Inserts, Runs, Waits, StreamLabels, DocLabels
  <2>3. \A i \in 1..2 : i < 2 => i = 1
    BY <2>1
  <2>4. Stack(calls, n)
    BY <2>1, <2>2, <2>3 DEF Stack
  <2>5. {i \in 1..Len(calls) : calls[i].at \in WithContext} = {}
    BY <1>4, <1>5, <2>1 DEF WithContext
  <2>6. ContextFrames(calls) = 0
    BY <2>5, FS_EmptySet DEF ContextFrames
  <2>7. Last(calls) = g
    BY <2>1 DEF Last
  <2>8. calls # <<>>
    <3>1. Len(<<>>) = 0 /\ Len(calls) # 0
      BY <2>1
    <3> HIDE DEF n
    <3> QED BY <3>1
  <2>9. Len(calls) = 2
    BY <2>1
  <2> HIDE DEF n
  <2> QED BY <2>4, <2>6, <2>7, <2>8, <2>9
<1> HIDE DEF calls, n
<1>8. DocLaw(p) => Law(p, "DOCUMENT", 2)
  <2>1. DocLaw(p) => Law(p, "STREAM", 1)
    BY <1>1, LawHolds
  <2> QED BY <2>1 DEF Law
<1>9. Stepped(p, [p EXCEPT !.calls = calls])
  <2>1. p.stop_status = "NONE" /\ Matched(p) /\ DocLaw(p)
          => Law(p, IF calls = <<>> THEN "NONE" ELSE Last(calls).at, Len(calls))
    BY <1>5, <1>7, <1>8
  <2> QED BY <1>1, <1>2, <1>3, <1>7, <2>1, AboveSteps DEF n
<1> QED BY <1>6, <1>9 DEF f

\* parse_stream, at a token between documents.
LEMMA StreamAtSteps ==
  ASSUME NEW p, Ready(p, "STREAM"), p.have_token
  PROVE  Stepped(p, StreamAt(p))
<1> DEFINE b == [EnqueuePlain(Consume(p), "STREAM_START") EXCEPT !.stream_started = TRUE]
           e == [Finished(EnqueuePlain(Consume(CloseDocument(p)), "STREAM_END"))
                   EXCEPT !.stream_ended = TRUE]
<1>1. ~p.stream_started => Stepped(p, b)
  <2> HIDE DEF b
  <2> QED BY StreamBegins DEF b
<1>2. Stepped(p, CheckStop(e))
  <2> HIDE DEF e
  <2> QED BY StreamEnds DEF e
<1>3. p.stream_started /\ Tok(p) \notin {"STREAM_END", "NONE"}
        => Stepped(p, CallThen(p, "DOCUMENT", MaybeKey(p, "STREAM_DONE", p.current.pos)))
  BY StreamCalls
<1>4. \/ ~p.stream_started /\ StreamAt(p) = b
      \/ StreamAt(p) = CheckStop(e)
      \/ /\ p.stream_started /\ Tok(p) \notin {"STREAM_END", "NONE"}
         /\ StreamAt(p) = CallThen(p, "DOCUMENT", MaybeKey(p, "STREAM_DONE", p.current.pos))
  BY DEF StreamAt
<1> HIDE DEF b, e
<1> QED BY <1>1, <1>2, <1>3, <1>4

-----------------------------------------------------------------------------
(***************************************************************************)
(* A step, from one token to the next.                                     *)
(***************************************************************************)

\* What the function at "at" does.
LEMMA HandleFlow ==
  ASSUME NEW p, Ready(p, Top(p).at),
         Top(p).at \in {"FLOW_NODE", "FLOW_NODE_AT", "FLOW_SCALAR", "FLOW_SEQ",
                        "FLOW_PAIR_KEY", "FLOW_PAIR_VALUE", "FLOW_PAIR_NODE", "FLOW_PAIR_END",
                        "FLOW_SEQ_NODE", "FLOW_SEQ_NEXT", "FLOW_MAP", "FLOW_KEY",
                        "FLOW_VALUE", "FLOW_VALUE_NODE", "FLOW_MAP_NEXT"}
  PROVE  Stepped(p, Handle(p))
<1> DEFINE at == Top(p).at
<1>1. CASE at \in {"FLOW_NODE", "FLOW_NODE_AT", "FLOW_SCALAR"}
  <2>1. at = "FLOW_NODE" => Handle(p) = CallAndGoOn(p, "PROPS", "FLOW_NODE_AT")
    BY DEF Handle
  <2>2. at = "FLOW_NODE_AT" => Handle(p) = FlowNodeAt(p)
    BY DEF Handle
  <2>3. at = "FLOW_SCALAR" => Handle(p) = FlowScalar(p)
    BY DEF Handle
  <2> QED BY <1>1, <2>1, <2>2, <2>3, FlowNodeSteps
<1>2. CASE at \in {"FLOW_SEQ", "FLOW_SEQ_NODE"}
  <2>1. at = "FLOW_SEQ" => Handle(p) = FlowSeq(p)
    BY DEF Handle
  <2>2. at = "FLOW_SEQ_NODE" => Handle(p) = FlowSeqNode(p)
    BY DEF Handle
  <2> QED BY <1>2, <2>1, <2>2, FlowSeqSteps, FlowSeqNodeSteps
<1>3. CASE at \in {"FLOW_PAIR_KEY", "FLOW_PAIR_VALUE", "FLOW_PAIR_NODE", "FLOW_PAIR_END",
                   "FLOW_SEQ_NEXT"}
  <2>1. at = "FLOW_PAIR_KEY" => Handle(p) = FlowPairKey(p)
    BY DEF Handle
  <2>2. at = "FLOW_PAIR_VALUE" => Handle(p) = FlowPairValue(p)
    BY DEF Handle
  <2>3. at = "FLOW_PAIR_NODE" => Handle(p) = FlowPairNode(p)
    BY DEF Handle
  <2>4. at = "FLOW_PAIR_END" => Handle(p) = FlowPairEnd(p)
    BY DEF Handle
  <2>5. at = "FLOW_SEQ_NEXT" => Handle(p) = FlowSeqNext(p)
    BY DEF Handle
  <2> QED BY <1>3, <2>1, <2>2, <2>3, <2>4, <2>5, FlowPairSteps
<1>4. CASE at \in {"FLOW_MAP", "FLOW_KEY", "FLOW_VALUE", "FLOW_VALUE_NODE", "FLOW_MAP_NEXT"}
  <2>1. at = "FLOW_MAP" => Handle(p) = FlowMap(p)
    BY DEF Handle
  <2>2. at = "FLOW_KEY" => Handle(p) = FlowKeyAt(p)
    BY DEF Handle
  <2>3. at = "FLOW_VALUE" => Handle(p) = FlowValue(p)
    BY DEF Handle
  <2>4. at = "FLOW_VALUE_NODE" => Handle(p) = FlowValueNode(p)
    BY DEF Handle
  <2>5. at = "FLOW_MAP_NEXT" => Handle(p) = FlowMapNext(p)
    BY DEF Handle
  <2> QED BY <1>4, <2>1, <2>2, <2>3, <2>4, <2>5, FlowMapSteps
<1> QED BY <1>1, <1>2, <1>3, <1>4

\* One token, in a block collection,
LEMMA HandleBlock ==
  ASSUME NEW p, Ready(p, Top(p).at),
         Top(p).at \in {"BLOCK_MAP", "MAP_KEY", "MAP_KEY_PROPS", "MAP_KEY_DONE",
                        "IMPLICIT_KEY", "SCALAR_KEY", "ALIAS_KEY", "FLOW_KEY_DONE",
                        "MAP_VALUE", "MAP_VALUE_NODE", "BLOCK_SEQ", "SEQ_ENTRY"}
  PROVE  Stepped(p, Handle(p))
<1> DEFINE at == Top(p).at
<1>1. CASE at \in {"BLOCK_MAP", "MAP_KEY", "MAP_KEY_PROPS", "MAP_KEY_DONE"}
  <2>1. at = "BLOCK_MAP" => Handle(p) = BlockMap(p)
    BY DEF Handle
  <2>2. at = "MAP_KEY" => Handle(p) = MapKey(p)
    BY DEF Handle
  <2>3. at = "MAP_KEY_PROPS" => Handle(p) = MapKeyProps(p)
    BY DEF Handle
  <2>4. at = "MAP_KEY_DONE" => Handle(p) = MapKeyDone(p)
    BY DEF Handle
  <2>5. /\ Stepped(p, BlockMap(p)) /\ Stepped(p, MapKey(p))
        /\ Stepped(p, MapKeyProps(p)) /\ Stepped(p, MapKeyDone(p))
    BY <1>1, BlockMapSteps
  <2> QED BY <1>1, <2>1, <2>2, <2>3, <2>4, <2>5
<1>2. CASE at \in {"IMPLICIT_KEY", "SCALAR_KEY", "ALIAS_KEY", "FLOW_KEY_DONE"}
  <2>1. at = "IMPLICIT_KEY" => Handle(p) = ImplicitKey(p)
    BY DEF Handle
  <2>2. at = "SCALAR_KEY" => Handle(p) = LeafKeyColon(p, "SCALAR")
    BY DEF Handle
  <2>3. at = "ALIAS_KEY" => Handle(p) = LeafKeyColon(p, "ALIAS")
    BY DEF Handle
  <2>4. at = "FLOW_KEY_DONE" => Handle(p) = KeyColon(p)
    BY DEF Handle
  <2> QED BY <1>2, <2>1, <2>2, <2>3, <2>4, ImplicitKeySteps, KeyColonSteps
<1>3. CASE at \in {"MAP_VALUE", "MAP_VALUE_NODE"}
  <2>1. at = "MAP_VALUE" => Handle(p) = MapValue(p)
    BY DEF Handle
  <2>2. at = "MAP_VALUE_NODE" => Handle(p) = MapValueNode(p)
    BY DEF Handle
  <2> QED BY <1>3, <2>1, <2>2, MapValueSteps
<1>4. CASE at \in {"BLOCK_SEQ", "SEQ_ENTRY"}
  <2>1. at = "BLOCK_SEQ" => Handle(p) = BlockSeq(p)
    BY DEF Handle
  <2>2. at = "SEQ_ENTRY" => Handle(p) = SeqEntry(p)
    BY DEF Handle
  <2>3. Stepped(p, BlockSeq(p)) /\ Stepped(p, SeqEntry(p))
    BY <1>4, BlockSeqSteps
  <2> QED BY <1>4, <2>1, <2>2, <2>3
<1> QED BY <1>1, <1>2, <1>3, <1>4

\* in a node,
LEMMA HandleNode ==
  ASSUME NEW p, Ready(p, Top(p).at),
         Top(p).at \in {"PROPS", "BLOCK_NODE", "BLOCK_NODE_AT", "INNER_NODE", "INNER_SCALAR",
                        "INNER_FLOW", "ALIAS_NODE", "SCALAR_NODE", "FLOW_OR_KEY"}
  PROVE  Stepped(p, Handle(p))
<1> DEFINE at == Top(p).at
<1>1. at = "PROPS" => Stepped(p, Handle(p))
  BY NodePropsSteps DEF Handle
<1>2. CASE at \in {"BLOCK_NODE", "BLOCK_NODE_AT"}
  <2>1. at = "BLOCK_NODE" => Handle(p) = CallAndGoOn(p, "PROPS", "BLOCK_NODE_AT")
    BY DEF Handle
  <2>2. at = "BLOCK_NODE_AT" => Handle(p) = BlockNodeAt(p)
    BY DEF Handle
  <2> QED BY <1>2, <2>1, <2>2, BlockNodeSteps
<1>3. at = "INNER_NODE" => Stepped(p, Handle(p))
  BY InnerNodeSteps DEF Handle
<1>4. at = "INNER_SCALAR" => Stepped(p, Handle(p))
  BY InnerScalarSteps DEF Handle
<1>5. at = "INNER_FLOW" => Stepped(p, Handle(p))
  BY InnerFlowSteps DEF Handle
<1>6. at = "ALIAS_NODE" => Stepped(p, Handle(p))
  BY AliasNodeSteps DEF Handle
<1>7. at = "SCALAR_NODE" => Stepped(p, Handle(p))
  BY ScalarNodeSteps DEF Handle
<1>8. at = "FLOW_OR_KEY" => Stepped(p, Handle(p))
  BY FlowOrKeySteps DEF Handle
<1> QED BY <1>1, <1>2, <1>3, <1>4, <1>5, <1>6, <1>7, <1>8

\* between nodes,
LEMMA HandleAbove ==
  ASSUME NEW p, Ready(p, Top(p).at), p.have_token,
         Top(p).at \in Above \ {"STREAM_DONE"}
  PROVE  Stepped(p, Handle(p))
<1> DEFINE at == Top(p).at
<1>1. at = "STREAM" => Stepped(p, Handle(p))
  BY StreamAtSteps DEF Handle
<1>2. at = "DOCUMENT" => Stepped(p, Handle(p))
  BY DocumentSteps DEF Handle
<1>3. at = "DIRECTIVES" => Stepped(p, Handle(p))
  BY AfterDirectiveSteps DEF Handle
<1>4. at = "DOC_CONTENT" => Stepped(p, Handle(p))
  BY DocumentContentSteps DEF Handle
<1>5. at = "DOC_DONE" => Stepped(p, Handle(p))
  BY DocumentDoneSteps DEF Handle
<1> QED BY <1>1, <1>2, <1>3, <1>4, <1>5 DEF Above, StreamLabels, DocLabels

\* anywhere.
LEMMA HandleSteps ==
  ASSUME NEW p, Ready(p, Top(p).at), p.have_token, Top(p).at # "STREAM_DONE"
  PROVE  Stepped(p, Handle(p))
<1>1. Top(p).at \in Label
  BY Depths DEF Ready, CallFrame
<1> QED BY <1>1, HandleFlow, HandleBlock, HandleNode, HandleAbove
        DEF Label, Above, StreamLabels, DocLabels

\* What a function checks first: it goes on as it is, or fails.
LEMMA CheckedSteps ==
  ASSUME NEW p, Ready(p, Top(p).at)
  PROVE  Checked(p) = p \/ (Stepped(p, Checked(p)) /\ ~Running(Checked(p)))
<1> DEFINE d == Own(Top(p).at)
           s == StopWith(p, "ERR_LIMIT")
<1>1. AtWork(p, p, d)
  BY WorkBegins DEF Ready
<1> HIDE DEF d
<1>2. CheckStop(p) = p \/ (Stepped(p, CheckStop(p)) /\ ~Running(CheckStop(p)))
  <2>1. p.stop_status # "NONE" => Stepped(p, Fail(p, p.stop_status))
                                     /\ ~Running(Fail(p, p.stop_status))
    BY <1>1, CheckSteps
  <2> QED BY <2>1 DEF CheckStop
<1>3. OverLimit(p) => Stepped(p, CheckStop(s)) /\ ~Running(CheckStop(s))
  BY <1>1, StopsSteps
<1> HIDE DEF s
<1>4. CheckLimits(p) = p \/ (Stepped(p, CheckLimits(p)) /\ ~Running(CheckLimits(p)))
  BY <1>2, <1>3 DEF CheckLimits, s
<1> QED BY <1>2, <1>4 DEF Checked

\* Only the token and the scanner change.
LEMMA SeenSteps ==
  ASSUME NEW p, Steady(p), NEW x \in EagerRecord, Alike(x, p), ~p.have_token,
         NEW r, Stepped(x, r)
  PROVE  Stepped(p, r)
<1>1. DocLaw(p) => DocLaw(x)
  <2>1. \A labels : At(p, labels) <=> At(x, labels)
    BY DEF Alike, At, Top
  <2>2. /\ At(p, {"DOCUMENT", "DIRECTIVES"}) <=> At(x, {"DOCUMENT", "DIRECTIVES"})
        /\ At(p, {"STREAM", "DOCUMENT", "DIRECTIVES"})
             <=> At(x, {"STREAM", "DOCUMENT", "DIRECTIVES"})
        /\ At(p, {"DOCUMENT"}) <=> At(x, {"DOCUMENT"})
        /\ At(p, {"DIRECTIVES"}) <=> At(x, {"DIRECTIVES"})
    BY <2>1
  <2> QED BY <2>2 DEF DocLaw, DocToken, Alike
<1>2. Matched(p) => Matched(x)
  BY DEF Matched, Alike
<1>3. x.stop_status = p.stop_status /\ (SameCounts(x, r) => SameCounts(p, r))
  BY DEF Alike, SameCounts
<1> QED BY <1>1, <1>2, <1>3 DEF Stepped, WentOn

\* The next token is seen, or there is none.
LEMMA PeekSteps ==
  ASSUME NEW p, Ready(p, Top(p).at), Top(p).at # "STREAM_DONE"
  PROVE  Stepped(p, HandleIfRunning(EagerPeek(p)))
<1> DEFINE r == Scan(p.scanner)
           x == EagerPeek(p)
<1>1. p \in EagerRecord /\ p.scanner \in ScannerState /\ Steady(p) /\ p.calls # <<>>
      /\ p.status = "OK" /\ ~p.starved
  BY EagerTypes DEF Ready
<1>2. r \in ScanResult
  BY <1>1, ScanType
<1> HIDE DEF r
<1>3. r.res \in {"OK", "ERROR", "STARVED"} /\ r.s \in ScannerState /\ r.tok \in Token
  BY <1>2 DEF ScanResult
<1>4. CASE p.have_token
  <2>1. x = p /\ Running(p)
    BY <1>1, <1>4 DEF EagerPeek, Running
  <2> QED BY <1>4, <2>1, HandleSteps DEF HandleIfRunning
<1>5. CASE ~p.have_token /\ r.res = "OK"
  <2> DEFINE y == [p EXCEPT !.scanner = r.s, !.current = r.tok, !.have_token = TRUE]
  <2>1. x = y
    BY <1>5 DEF EagerPeek, EagerSeen, r
  <2>2. y \in EagerRecord /\ Alike(y, p) /\ y.have_token
    BY <1>1, <1>3 DEF EagerRecord, Alike
  <2> HIDE DEF y
  <2>3. Steady(y)
    BY <1>1, <2>2, AlikeSteady
  <2>4. Ready(y, Top(y).at) /\ Top(y).at = Top(p).at /\ Running(y)
    BY <1>1, <2>2, <2>3 DEF Ready, Alike, Top, Running
  <2>5. Stepped(y, Handle(y))
    BY <2>2, <2>4, HandleSteps
  <2>6. Stepped(p, Handle(y))
    BY <1>1, <1>5, <2>2, <2>5, SeenSteps
  <2> QED BY <2>1, <2>4, <2>6 DEF HandleIfRunning
<1>6. CASE ~p.have_token /\ r.res = "ERROR"
  <2> DEFINE y == [p EXCEPT !.scanner = r.s, !.error_msg = "scan"]
             d == Own(Top(p).at)
  <2>1. x = Fail(y, "ERR_SCAN")
    BY <1>6 DEF EagerPeek, EagerSeen, r
  <2>2. y \in EagerRecord /\ Alike(y, p)
    BY <1>1, <1>3 DEF EagerRecord, Alike, EagerMessage, Message
  <2> HIDE DEF y
  <2>3. AtWork(p, p, d)
    BY WorkBegins DEF Ready
  <2>4. AtWork(p, y, d)
    BY <2>2, <2>3, AlikeWork
  <2> HIDE DEF d
  <2>5. Stepped(p, x) /\ ~Running(x)
    BY <2>1, <2>4, FailSteps
  <2> QED BY <2>5 DEF HandleIfRunning
<1>7. CASE ~p.have_token /\ r.res = "STARVED"
  <2>1. x = [p EXCEPT !.starved = TRUE]
    BY <1>7 DEF EagerPeek, EagerSeen, r
  <2>2. x.starved /\ ~Running(x)
    BY <1>1, <2>1 DEF Running, EagerRecord
  <2> QED BY <2>2 DEF HandleIfRunning, Stepped
<1>8. p.have_token \in BOOLEAN
  BY <1>1 DEF EagerRecord
<1> QED BY <1>3, <1>4, <1>5, <1>6, <1>7, <1>8

\* One step of the eager parser, and what fails in it: the scanner or a limit.
LEMMA EagerSteps ==
  ASSUME NEW p, Steady(p), p.calls # <<>>, p.status = "OK", ~p.starved
  PROVE  Stepped(p, EagerStep(p))
<1>1. Ready(p, Top(p).at)
  BY DEF Ready
<1>2. CASE Top(p).at = "STREAM_DONE"
  BY <1>1, <1>2, StreamDoneSteps DEF EagerStep
<1>3. CASE Top(p).at # "STREAM_DONE"
  <2> DEFINE x == Checked(p)
  <2>1. EagerStep(p) = HandleIfRunning(PeekIfRunning(x))
    BY <1>3 DEF EagerStep
  <2>2. CASE x = p
    <3>1. Running(p)
      BY DEF Running
    <3>2. Stepped(p, HandleIfRunning(EagerPeek(p)))
      BY <1>1, <1>3, PeekSteps
    <3> QED BY <2>1, <2>2, <3>1, <3>2 DEF PeekIfRunning
  <2>3. CASE Stepped(p, x) /\ ~Running(x)
    BY <2>1, <2>3 DEF PeekIfRunning, HandleIfRunning
  <2> QED BY <1>1, <2>2, <2>3, CheckedSteps
<1> QED BY <1>2, <1>3

-----------------------------------------------------------------------------
(***************************************************************************)
(* A call: the next document is begun, parsed step by step, and ended.     *)
(***************************************************************************)

\* The parser between two steps.
AtRest(q) ==
  /\ Steady(q) /\ q.status = "OK" /\ ~q.starved
  /\ q.cursor <= Len(q.events)
  /\ q.calls # <<>> => q.cursor = 0

\* And no call has failed: unless it is stopped, and about to fail, it has a
\* context for every open collection and knows whether a document is open.
Healthy(q) ==
  /\ q.calls = <<>> => q.stop_status = "NONE"
  /\ q.calls = <<>> /\ q.skip_n > 0 => q.cursor = Len(q.events)
  /\ q.stop_status = "NONE" => Matched(q) /\ DocLaw(q)

\* The events counted: of earlier documents, delivered of this one, and
\* still to be skipped.
Counted(q) == q.evt_base + q.cursor + q.skip_n

\* A new parser.
LEMMA FreshWaiting ==
  ASSUME NEW q \in EagerRecord, q.calls = <<>>, q.events = <<>>, q.contexts = <<>>,
         q.cursor = 0, q.status = "OK", ~q.starved, q.stop_status = "NONE",
         ~q.doc_open, MaxEvents > 0 => q.evt_base <= MaxEvents
  PROVE  AtRest(q) /\ Healthy(q) /\ Counted(q) = q.evt_base + q.skip_n
<1>1. Len(q.events) = 0 /\ q.evt_base \in Nat /\ q.skip_n \in Nat /\ Len(q.contexts) = 0
  BY DEF EagerRecord
<1>2. Stack(q.calls, Len(q.events))
  BY DEF Stack
<1>3. Steady(q)
  BY <1>1, <1>2 DEF Steady
<1>4. Matched(q)
  BY <1>1, NoContexts DEF Matched
<1>5. DocLaw(q)
  <2>1. ~DocIn(q.events)
    BY <1>1 DEF DocIn
  <2>2. Law(q, "NONE", 0)
    BY <2>1 DEF Law
  <2> QED BY <2>2, LawHolds
<1> QED BY <1>1, <1>3, <1>4, <1>5 DEF AtRest, Healthy, Counted

\* A lexeme more, or the end of the text.
LEMMA TextWaiting ==
  ASSUME NEW q, AtRest(q), NEW s \in ScannerState
  PROVE  LET r == [q EXCEPT !.scanner = s]
         IN  /\ AtRest(r) /\ (Healthy(q) => Healthy(r)) /\ Counted(r) = Counted(q)
             /\ Alike(r, q)
<1> DEFINE r == [q EXCEPT !.scanner = s]
<1>1. q \in EagerRecord /\ Steady(q)
  BY EagerTypes DEF AtRest
<1>2. r \in EagerRecord /\ Alike(r, q) /\ r.have_token = q.have_token /\ r.current = q.current
  BY <1>1 DEF EagerRecord, Alike
<1> HIDE DEF r
<1>3. Steady(r)
  BY <1>1, <1>2, AlikeSteady
<1>4. DocLaw(q) => DocLaw(r)
  <2>1. Law(q, IF q.calls = <<>> THEN "NONE" ELSE Top(q).at, Len(q.calls))
          => Law(r, IF q.calls = <<>> THEN "NONE" ELSE Top(q).at, Len(q.calls))
    BY <1>2 DEF Law, DocToken, Tok, Alike
  <2>2. r.calls = q.calls /\ Top(r) = Top(q) /\ Len(<<>>) = 0
    BY <1>2 DEF Alike, Top
  <2> QED BY <2>1, <2>2, LawHolds
<1>5. Matched(q) => Matched(r)
  BY <1>2 DEF Alike, Matched
<1>6. AtRest(r)
  BY <1>2, <1>3 DEF AtRest, Alike
<1>7. Healthy(q) => Healthy(r)
  BY <1>2, <1>4, <1>5 DEF Healthy, Alike
<1>8. Counted(r) = Counted(q)
  BY <1>2 DEF Alike, Counted
<1> QED BY <1>2, <1>6, <1>7, <1>8 DEF r

\* An event of the document is delivered.
LEMMA CursorWaiting ==
  ASSUME NEW q, AtRest(q), q.calls = <<>>, q.cursor < Len(q.events)
  PROVE  LET r == [q EXCEPT !.cursor = q.cursor + 1]
         IN  /\ AtRest(r) /\ (Healthy(q) => Healthy(r)) /\ Counted(r) = Counted(q) + 1
             /\ r.evt_base = q.evt_base /\ r.events = q.events
             /\ Healthy(q) /\ MaxEvents > 0 => Counted(r) <= MaxEvents
<1> DEFINE k == q.cursor + 1
           r == [q EXCEPT !.cursor = k]
           n == Len(q.events)
<1>1. /\ q \in EagerRecord /\ Steady(q) /\ n \in Nat /\ q.cursor \in Nat
      /\ q.evt_base \in Nat /\ q.skip_n \in Nat
  BY EagerTypes DEF AtRest
<1>2. k \in Nat /\ k <= n
  BY <1>1
<1> HIDE DEF k
<1>3. r \in EagerRecord
  BY <1>1, <1>2 DEF EagerRecord
<1>4. /\ r.calls = q.calls /\ r.events = q.events /\ r.contexts = q.contexts
      /\ r.evt_base = q.evt_base /\ r.cursor = k /\ r.skip_n = q.skip_n
      /\ r.status = q.status /\ r.starved = q.starved /\ r.stop_status = q.stop_status
      /\ r.doc_open = q.doc_open /\ r.stream_started = q.stream_started
      /\ r.have_token = q.have_token /\ r.current = q.current
  BY <1>1 DEF EagerRecord
<1> HIDE DEF r
<1>5. Steady(r)
  BY <1>1, <1>3, <1>4 DEF Steady, OverLimit
<1>6. AtRest(r)
  BY <1>2, <1>4, <1>5 DEF AtRest, n
<1>7. Healthy(q) => q.skip_n = 0
  BY <1>1 DEF Healthy, n
<1>8. Healthy(q) => Healthy(r)
  <2>1. DocLaw(q) => DocLaw(r)
    <3>1. Law(q, "NONE", 0) => Law(r, "NONE", 0)
      BY <1>4 DEF Law, DocToken, Tok
    <3> QED BY <1>4, <3>1, LawHolds
  <2>2. Matched(q) => Matched(r)
    BY <1>4 DEF Matched
  <2>3. Healthy(q) => ~(r.skip_n > 0)
    BY <1>4, <1>7
  <2> QED BY <1>4, <2>1, <2>2, <2>3 DEF Healthy
<1>9. Counted(r) = Counted(q) + 1
  BY <1>1, <1>4 DEF Counted, k
<1>10. Healthy(q) /\ MaxEvents > 0 => Counted(r) <= MaxEvents
  <2>1. MaxEvents > 0 => q.evt_base + n <= MaxEvents
    BY <1>1 DEF Steady
  <2>2. Healthy(q) => Counted(r) = q.evt_base + k + 0
    BY <1>4, <1>7 DEF Counted
  <2> HIDE DEF n
  <2> QED BY <1>1, <1>2, <2>1, <2>2, LimitsAssumption
<1> QED BY <1>4, <1>6, <1>8, <1>9, <1>10 DEF r, k

\* The next document is begun (StartChunk).
LEMMA StartWaiting ==
  ASSUME NEW q, AtRest(q), q.calls = <<>>, q.cursor = Len(q.events)
  PROVE  LET r == StartChunk(q)
         IN  /\ AtRest(r) /\ r.calls # <<>> /\ Counted(r) = Counted(q)
             /\ Healthy(q) => Healthy(r)
<1> DEFINE n == Len(q.events)
           b == q.evt_base + n
           f == NewFrame("STREAM")
           calls == <<f>>
           none == <<>>
           r == [q EXCEPT !.evt_base = b, !.events = none, !.cursor = 0, !.calls = calls]
<1>1. /\ q \in EagerRecord /\ Steady(q) /\ n \in Nat /\ q.evt_base \in Nat
      /\ q.skip_n \in Nat
  BY EagerTypes DEF AtRest
<1>2. StartChunk(q) = r
  BY <1>1 DEF StartChunk
<1>3. /\ b \in Nat /\ none \in Seq(EagerEvent) /\ Len(none) = 0
      /\ MaxEvents > 0 => b + 0 <= MaxEvents
  <2>1. MaxEvents > 0 => b <= MaxEvents
    BY <1>1 DEF Steady
  <2>2. b \in Nat /\ none \in Seq(EagerEvent) /\ Len(none) = 0
    BY <1>1
  <2> HIDE DEF b, none
  <2> QED BY <2>1, <2>2
<1>4. f \in CallFrame /\ f.at = "STREAM"
  BY NewFrames DEF Label
<1> HIDE DEF f
<1>5. /\ calls \in Seq(CallFrame) /\ Len(calls) = 1 /\ calls # <<>> /\ Last(calls) = f
      /\ calls[1] = f
  BY <1>4 DEF Last
<1> HIDE DEF calls, b, none
<1>6. r \in EagerRecord
  BY <1>1, <1>3, <1>5 DEF EagerRecord
<1>7. /\ r.calls = calls /\ r.events = none /\ r.contexts = q.contexts
      /\ r.evt_base = b /\ r.cursor = 0 /\ r.skip_n = q.skip_n
      /\ r.status = q.status /\ r.starved = q.starved /\ r.stop_status = q.stop_status
      /\ r.doc_open = q.doc_open /\ r.stream_started = q.stream_started
      /\ r.have_token = q.have_token /\ r.current = q.current
  BY <1>1 DEF EagerRecord
<1> HIDE DEF r
<1>8. Stack(calls, 0)
  <2>1. \A i \in 1..1 : i = 1
    OBVIOUS
  <2>2. FrameFits(f, 0) /\ f.at \in Runs(1)
    BY <1>4 DEF FrameFits, Inserts, Runs, StreamLabels
  <2> QED BY <1>5, <2>1, <2>2 DEF Stack
<1>9. ContextFrames(calls) = 0
  <2>1. {i \in 1..Len(calls) : calls[i].at \in WithContext} = {}
    BY <1>4, <1>5 DEF WithContext
  <2> QED BY <2>1, FS_EmptySet DEF ContextFrames
<1>10. Steady(r)
  <2>1. MaxDepth = 0 /\ "ERR_LIMIT" \in {r.stop_status, r.status} => OverLimit(r)
    <3>1. MaxDepth = 0 /\ "ERR_LIMIT" \in {r.stop_status, r.status} => OverLimit(q)
      BY <1>1, <1>7 DEF Steady
    <3>2. OverLimit(q) => MaxEvents > 0 /\ b >= MaxEvents
      BY DEF OverLimit, b
    <3>3. b >= MaxEvents => r.evt_base + Len(r.events) >= MaxEvents
      BY <1>3, <1>7, LimitsAssumption
    <3> QED BY <3>1, <3>2, <3>3 DEF OverLimit
  <2> QED BY <1>3, <1>6, <1>7, <1>8, <2>1 DEF Steady
<1>11. AtRest(r)
  BY <1>3, <1>7, <1>10 DEF AtRest
<1>12. Counted(r) = Counted(q)
  <2>1. Counted(r) = b + 0 + q.skip_n /\ Counted(q) = b + q.skip_n
    BY <1>7 DEF Counted, b
  <2> QED BY <1>1, <1>3, <2>1
<1>13. Healthy(q) => Healthy(r)
  <2> SUFFICES ASSUME Healthy(q) PROVE Healthy(r)
    OBVIOUS
  <2>1. q.stop_status = "NONE" /\ Matched(q) /\ DocLaw(q)
    BY DEF Healthy
  <2>2. Matched(r)
    BY <1>7, <1>9, <2>1, NoContexts DEF Matched
  <2>3. Law(q, "NONE", 0)
    BY <2>1, LawHolds
  <2>4. ~DocIn(none)
    BY <1>3 DEF DocIn
  <2>5. Law(r, "STREAM", 1)
    BY <1>7, <2>3, <2>4 DEF Law, DocToken, Tok
  <2>6. Top(r).at = "STREAM" /\ Len(r.calls) = 1 /\ r.calls # <<>>
    BY <1>4, <1>5, <1>7 DEF Top
  <2>7. DocLaw(r)
    BY <2>5, <2>6, LawHolds
  <2> QED BY <2>2, <2>6, <2>7 DEF Healthy
<1> QED BY <1>2, <1>5, <1>7, <1>11, <1>12, <1>13

\* The parser after a step, before the document's end: it may have failed.
Parsed(p, r) ==
  /\ Steady(r) /\ ~r.starved /\ r.cursor = 0 /\ Counted(r) = Counted(p)
  /\ r.status = "OK" /\ Healthy(p)
       => /\ r.calls = <<>> => r.stop_status = "NONE"
          /\ r.stop_status = "NONE" => Matched(r) /\ DocLaw(r)

\* A step that is not left waiting for more text leaves a parser at rest, or ends the call.
LEMMA ParsedStep ==
  ASSUME NEW p, AtRest(p), p.calls # <<>>, ~EagerStep(p).starved
  PROVE  Parsed(p, EagerStep(p))
<1> DEFINE r == EagerStep(p)
<1>1. Stepped(p, r)
  BY EagerSteps DEF AtRest
<1> HIDE DEF r
<1>2. Steady(r) /\ SameCounts(p, r) /\ (r.status = "OK" => WentOn(p, r))
  BY <1>1 DEF Stepped, r
<1>3. r.cursor = 0 /\ Counted(r) = Counted(p)
  BY <1>2 DEF SameCounts, Counted, AtRest
<1>4. r.status = "OK" /\ Healthy(p)
        => /\ r.calls = <<>> => r.stop_status = "NONE"
           /\ r.stop_status = "NONE" => Matched(r) /\ DocLaw(r)
  BY <1>2 DEF WentOn, Healthy
<1> QED BY <1>2, <1>3, <1>4 DEF Parsed, r

\* What the end of a call changes besides: the skipped events are counted
\* as delivered, or the call fails.
ChunkKept(r, e) ==
  /\ e \in EagerRecord /\ e.calls = <<>> /\ r.calls = <<>>
  /\ e.events = r.events /\ e.evt_base = r.evt_base /\ ~e.starved
  /\ e.cursor <= Len(e.events) /\ Counted(e) = Counted(r)
  /\ MaxDepth = 0 /\ "ERR_LIMIT" \in {e.stop_status, e.status}
       => "ERR_LIMIT" \in {r.stop_status, r.status}

\* And it has not failed.
EndedWell(r, e) ==
  /\ e.stop_status = r.stop_status /\ e.contexts = r.contexts
  /\ e.doc_open = r.doc_open /\ e.stream_started = r.stream_started
  /\ e.have_token = r.have_token /\ e.current = r.current
  /\ e.skip_n > 0 => e.cursor = Len(e.events)

\* What a call's end does to the record keeps it steady.
LEMMA KeptSteady ==
  ASSUME NEW r, Steady(r), NEW e, ChunkKept(r, e)
  PROVE  Steady(e)
<1>1. Stack(e.calls, Len(e.events))
  <2>1. e.calls = <<>> /\ e.calls \in Seq(CallFrame)
    BY DEF ChunkKept, EagerRecord
  <2> QED BY <2>1 DEF Stack
<1> QED BY <1>1 DEF ChunkKept, Steady, OverLimit

\* The check of the depth before an event is handed out ends the call, or does nothing.
LEMMA DepthChecked ==
  ASSUME NEW r \in EagerRecord, r.calls = <<>>, r.status = "OK", ~r.starved, r.cursor = 0
  PROVE  LET e == CheckEagerDepth(r)
         IN  e = r \/ (ChunkKept(r, e) /\ e.status # "OK")
<1> DEFINE s == StopWith(r, "ERR_LIMIT")
           e == Fail(s, "ERR_LIMIT")
<1>1. CheckEagerDepth(r) = r \/ (MaxDepth > 0 /\ CheckEagerDepth(r) = e)
  BY DEF CheckEagerDepth
<1>2. ASSUME MaxDepth > 0 PROVE ChunkKept(r, e) /\ e.status # "OK"
  <2>1. "limit" \in EagerMessage
    BY DEF EagerMessage, Message
  <2>2. /\ s \in EagerRecord /\ s.calls = r.calls /\ s.events = r.events
        /\ s.evt_base = r.evt_base /\ s.cursor = r.cursor /\ s.skip_n = r.skip_n
        /\ s.starved = r.starved
    BY <2>1 DEF StopWith, EagerRecord
  <2> HIDE DEF s
  <2>3. <<>> \in Seq(CallFrame)
    OBVIOUS
  <2>4. e \in EagerRecord
    BY <2>2, <2>3 DEF Fail, EagerRecord
  <2>5. /\ e.calls = <<>> /\ e.events = s.events /\ e.evt_base = s.evt_base
        /\ e.cursor = s.cursor /\ e.skip_n = s.skip_n /\ e.starved = s.starved
        /\ e.status = "ERR_LIMIT"
    BY <2>2 DEF Fail, EagerRecord
  <2> HIDE DEF e
  <2>6. MaxDepth # 0 /\ 0 <= Len(r.events)
    BY <1>2, LimitsAssumption DEF EagerRecord
  <2> QED BY <2>2, <2>4, <2>5, <2>6 DEF ChunkKept, Counted
<1> QED BY <1>1, <1>2

\* The types of a list of events, one for each.
LEMMA TypesOf ==
  ASSUME NEW s \in Seq(EagerEvent)
  PROVE  Types(s) \in Seq(Stream!Event) /\ Len(Types(s)) = Len(s)
<1> DEFINE n == Len(s)
<1>1. n \in Nat /\ \A i \in 1..n : s[i].type \in Stream!Event
  <2>1. n \in Nat /\ \A i \in 1..n : s[i] \in EagerEvent
    OBVIOUS
  <2>2. \A e \in EagerEvent : e.type \in Stream!Event
    BY DEF EagerEvent
  <2> QED BY <2>1, <2>2
<1>2. Types(s) = [i \in 1..n |-> s[i].type]
  BY DEF Types
<1> HIDE DEF n
<1>3. [i \in 1..n |-> s[i].type] \in [1..n -> Stream!Event]
  BY <1>1
<1>4. Types(s) \in Seq(Stream!Event) /\ Len(Types(s)) = n
  BY <1>1, <1>2, <1>3, SeqDef, LenProperties
<1> QED BY <1>4 DEF n

\* n of the events to be skipped are skipped, and those of a document that
\* is shorter all.
LEMMA Skipped ==
  ASSUME NEW r \in EagerRecord, r.calls = <<>>, ~r.starved, r.cursor = 0,
         NEW n \in Nat, n <= r.skip_n, n <= Len(r.events),
         n < r.skip_n => n = Len(r.events)
  PROVE  LET e == CheckSkipped(Skip(r, n))
         IN  ChunkKept(r, e) /\ (e.status = "OK" => EndedWell(r, e))
<1> DEFINE k == r.skip_n - n
           got == r.skip_got \o SubSeq(Types(r.events), 1, n)
           s == [r EXCEPT !.cursor = n, !.skip_n = k, !.skip_got = got]
           m == [s EXCEPT !.stream_ended = TRUE, !.error_msg = "mismatch"]
           f == Fail(m, "ERR_PARSE")
<1>1. /\ k \in Nat /\ r.skip_n \in Nat /\ r.evt_base \in Nat /\ n + k = r.skip_n
      /\ k > 0 => n = Len(r.events)
  BY DEF EagerRecord
<1>2. got \in Seq(Stream!Event)
  <2>1. r.events \in Seq(EagerEvent) /\ r.skip_got \in Seq(Stream!Event)
    BY DEF EagerRecord
  <2> DEFINE t == Types(r.events)
  <2>2. t \in Seq(Stream!Event) /\ Len(t) = Len(r.events)
    BY <2>1, TypesOf
  <2> HIDE DEF t
  <2>3. SubSeq(t, 1, n) \in Seq(Stream!Event)
    BY <2>2
  <2> QED BY <2>1, <2>3 DEF t
<1>3. Skip(r, n) = s
  BY DEF Skip
<1> HIDE DEF k, got
<1>4. /\ s \in EagerRecord /\ s.cursor = n /\ s.skip_n = k /\ s.calls = r.calls
      /\ s.events = r.events /\ s.evt_base = r.evt_base /\ s.starved = r.starved
      /\ s.stop_status = r.stop_status /\ s.status = r.status /\ s.contexts = r.contexts
      /\ s.doc_open = r.doc_open /\ s.stream_started = r.stream_started
      /\ s.have_token = r.have_token /\ s.current = r.current
  BY <1>1, <1>2 DEF EagerRecord
<1>5. CheckSkipped(s) = s \/ CheckSkipped(s) = f
  BY DEF CheckSkipped
<1> HIDE DEF s
<1>6. Counted(r) = r.evt_base + 0 + r.skip_n /\ r.evt_base + n + k = r.evt_base + 0 + r.skip_n
  BY <1>1 DEF Counted
<1>7. ChunkKept(r, s) /\ EndedWell(r, s)
  BY <1>1, <1>4, <1>6 DEF ChunkKept, EndedWell, Counted
<1>8. ChunkKept(r, f) /\ f.status # "OK"
  <2>1. "mismatch" \in EagerMessage /\ <<>> \in Seq(CallFrame)
    BY DEF EagerMessage
  <2>2. /\ m \in EagerRecord /\ m.cursor = n /\ m.skip_n = k
        /\ m.events = r.events /\ m.evt_base = r.evt_base /\ m.starved = r.starved
        /\ m.stop_status = r.stop_status
    BY <1>4, <2>1 DEF EagerRecord
  <2> HIDE DEF m
  <2>3. f \in EagerRecord
    BY <2>1, <2>2 DEF Fail, EagerRecord
  <2>4. /\ f.calls = <<>> /\ f.cursor = m.cursor /\ f.skip_n = m.skip_n
        /\ f.events = m.events /\ f.evt_base = m.evt_base /\ f.starved = m.starved
        /\ f.stop_status = m.stop_status /\ f.status = "ERR_PARSE"
    BY <2>2 DEF Fail, EagerRecord
  <2> HIDE DEF f
  <2> QED BY <1>6, <2>2, <2>3, <2>4 DEF ChunkKept, Counted
<1> QED BY <1>3, <1>5, <1>7, <1>8

\* The end of a call (EndChunk).
LEMMA ChunkEnds ==
  ASSUME NEW r \in EagerRecord, r.calls = <<>>, ~r.starved, r.cursor = 0
  PROVE  LET e == EndChunk(r)
         IN  ChunkKept(r, e) /\ (e.status = "OK" => r.status = "OK" /\ EndedWell(r, e))
<1> DEFINE c == CheckEagerDepth(r)
           e == EndChunk(r)
<1>1. Len(r.events) \in Nat /\ r.skip_n \in Nat /\ 0 <= Len(r.events)
  BY DEF EagerRecord
<1>2. ChunkKept(r, r)
  BY <1>1 DEF ChunkKept
<1>3. CASE r.status # "OK"
  <2>1. e = r
    BY <1>3 DEF EndChunk
  <2> QED BY <1>2, <1>3, <2>1
<1>4. CASE r.status = "OK" /\ c # r
  <2>1. ChunkKept(r, c) /\ c.status # "OK"
    BY <1>4, DepthChecked
  <2>2. e = SkipIfOk(c)
    BY <1>4 DEF EndChunk
  <2> HIDE DEF c, e
  <2>3. e = c
    BY <2>1, <2>2 DEF SkipIfOk
  <2> QED BY <2>1, <2>3 DEF e
<1>5. CASE r.status = "OK" /\ c = r
  <2>1. e = SkipDelivered(r)
    BY <1>5 DEF EndChunk, SkipIfOk
  <2> HIDE DEF c, e
  <2>2. CASE r.skip_n = 0
    <3>1. e = r \/ e = CheckSkipped(Skip(r, r.skip_n))
      BY <2>1, <2>2 DEF SkipDelivered
    <3>2. EndedWell(r, r)
      BY <1>1, <2>2 DEF EndedWell
    <3>3. CASE e = r
      BY <1>2, <1>5, <3>2, <3>3 DEF e
    <3>4. CASE e = CheckSkipped(Skip(r, r.skip_n))
      <4>1. /\ ChunkKept(r, CheckSkipped(Skip(r, r.skip_n)))
            /\ CheckSkipped(Skip(r, r.skip_n)).status = "OK"
                 => EndedWell(r, CheckSkipped(Skip(r, r.skip_n)))
        <5>1. r.skip_n <= r.skip_n /\ r.skip_n <= Len(r.events) /\ ~(r.skip_n < r.skip_n)
          BY <1>1, <2>2
        <5> QED BY <1>1, <5>1, Skipped
      <4> QED BY <1>5, <3>4, <4>1 DEF e
    <3> QED BY <3>1, <3>3, <3>4
  <2>3. CASE r.skip_n # 0
    <3> DEFINE n == IF r.skip_n <= Len(r.events) THEN r.skip_n ELSE Len(r.events)
    <3>2. e = CheckSkipped(Skip(r, n))
      <4>1. CASE r.skip_n <= Len(r.events)
        BY <2>1, <2>3, <4>1 DEF SkipDelivered
      <4>2. CASE ~(r.skip_n <= Len(r.events))
        BY <2>1, <2>3, <4>2 DEF SkipDelivered
      <4> QED BY <4>1, <4>2
    <3>3. n \in Nat /\ n <= r.skip_n /\ n <= Len(r.events) /\ (n < r.skip_n => n = Len(r.events))
      BY <1>1
    <3> HIDE DEF n
    <3>4. /\ ChunkKept(r, CheckSkipped(Skip(r, n)))
          /\ CheckSkipped(Skip(r, n)).status = "OK"
               => EndedWell(r, CheckSkipped(Skip(r, n)))
      BY <3>3, Skipped
    <3> QED BY <1>5, <3>2, <3>4 DEF e
  <2> QED BY <2>2, <2>3
<1> QED BY <1>3, <1>4, <1>5

-----------------------------------------------------------------------------
(***************************************************************************)
(* A step of the eager parser, and the call that ends with it.             *)
(***************************************************************************)

\* What the caller is left with: the status is given back.
Returned(q) == [q EXCEPT !.status = "OK"]

\* Giving back the status changes nothing else.
LEMMA ReturnedFields ==
  ASSUME NEW q \in EagerRecord
  PROVE  LET r == Returned(q)
         IN  /\ r \in EagerRecord /\ r.status = "OK"
             /\ r.calls = q.calls /\ r.events = q.events /\ r.contexts = q.contexts
             /\ r.evt_base = q.evt_base /\ r.cursor = q.cursor /\ r.skip_n = q.skip_n
             /\ r.skip_sig = q.skip_sig /\ r.skip_got = q.skip_got
             /\ r.starved = q.starved /\ r.stop_status = q.stop_status
             /\ r.doc_open = q.doc_open /\ r.stream_started = q.stream_started
             /\ r.have_token = q.have_token /\ r.current = q.current
BY DEF Returned, EagerRecord

\* Steady but for its status, the parser waits; if nothing failed it is healthy.
LEMMA ReturnsAtRest ==
  ASSUME NEW q, Steady(q), ~q.starved, q.cursor <= Len(q.events),
         q.calls # <<>> => q.cursor = 0
  PROVE  /\ AtRest(Returned(q)) /\ Counted(Returned(q)) = Counted(q)
         /\ Healthy(q) => Healthy(Returned(q))
         /\ OverLimit(q) => OverLimit(Returned(q))
<1> DEFINE r == Returned(q)
<1>1. q \in EagerRecord
  BY DEF Steady
<1>2. /\ r \in EagerRecord /\ r.status = "OK"
      /\ r.calls = q.calls /\ r.events = q.events /\ r.contexts = q.contexts
      /\ r.evt_base = q.evt_base /\ r.cursor = q.cursor /\ r.skip_n = q.skip_n
      /\ r.skip_sig = q.skip_sig /\ r.skip_got = q.skip_got
      /\ r.starved = q.starved /\ r.stop_status = q.stop_status
      /\ r.doc_open = q.doc_open /\ r.stream_started = q.stream_started
      /\ r.have_token = q.have_token /\ r.current = q.current
  BY <1>1, ReturnedFields
<1> HIDE DEF r
<1>3. OverLimit(q) => OverLimit(r)
  BY <1>2 DEF OverLimit
<1>4. Steady(r)
  <2>1. MaxDepth = 0 /\ "ERR_LIMIT" \in {r.stop_status, r.status} => OverLimit(r)
    BY <1>2, <1>3 DEF Steady
  <2> QED BY <1>2, <2>1 DEF Steady
<1>5. AtRest(r)
  BY <1>2, <1>4 DEF AtRest
<1>6. Counted(r) = Counted(q)
  BY <1>2 DEF Counted
<1>7. Healthy(q) => Healthy(r)
  <2> DEFINE at == IF q.calls = <<>> THEN "NONE" ELSE Top(q).at
  <2>1. DocLaw(q) => DocLaw(r)
    <3>1. Law(q, at, Len(q.calls)) => Law(r, at, Len(q.calls))
      BY <1>2 DEF Law, DocToken, Tok
    <3>2. Top(r) = Top(q) /\ Len(<<>>) = 0
      BY <1>2 DEF Top
    <3> QED BY <1>2, <3>1, <3>2, LawHolds
  <2>2. Matched(q) => Matched(r)
    BY <1>2 DEF Matched
  <2> QED BY <1>2, <2>1, <2>2 DEF Healthy
<1> QED BY <1>3, <1>5, <1>6, <1>7 DEF r

\* A call that ends.
LEMMA CallEnds ==
  ASSUME NEW p, NEW r, Parsed(p, r), r.calls = <<>>
  PROVE  LET e == EndChunk(r)
         IN  /\ Steady(e) /\ ~e.starved /\ e.calls = <<>> /\ e.cursor <= Len(e.events)
             /\ Counted(e) = Counted(p)
             /\ e.status = "OK" /\ Healthy(p) => Healthy(e)
<1> DEFINE e == EndChunk(r)
<1>1. Steady(r) /\ ~r.starved /\ r.cursor = 0 /\ Counted(r) = Counted(p) /\ r \in EagerRecord
  BY DEF Parsed, Steady
<1>2. ChunkKept(r, e) /\ (e.status = "OK" => r.status = "OK" /\ EndedWell(r, e))
  BY <1>1, ChunkEnds
<1> HIDE DEF e
<1>3. Steady(e)
  BY <1>1, <1>2, KeptSteady
<1>4. ASSUME e.status = "OK", Healthy(p) PROVE Healthy(e)
  <2>1. r.stop_status = "NONE" /\ Matched(r) /\ DocLaw(r)
    BY <1>2, <1>4 DEF Parsed
  <2>2. e.calls = <<>> /\ e.events = r.events
    BY <1>2 DEF ChunkKept
  <2>3. Matched(e)
    BY <1>2, <1>4, <2>1, <2>2 DEF EndedWell, Matched
  <2>4. DocLaw(e)
    <3>1. Law(r, "NONE", 0)
      BY <2>1, LawHolds
    <3>2. Law(e, "NONE", 0)
      BY <1>2, <1>4, <2>2, <3>1 DEF EndedWell, Law, DocToken, Tok
    <3> QED BY <2>2, <3>2, LawHolds
  <2> QED BY <1>2, <1>4, <2>1, <2>2, <2>3, <2>4 DEF Healthy, EndedWell
<1>5. ~e.starved /\ e.calls = <<>> /\ e.cursor <= Len(e.events) /\ Counted(e) = Counted(p)
  BY <1>1, <1>2 DEF ChunkKept
<1> QED BY <1>3, <1>4, <1>5 DEF e

-----------------------------------------------------------------------------
(***************************************************************************)
(* The invariant of the whole parser.                                      *)
(***************************************************************************)

\* The text, the checkpoint and what was delivered.
History ==
  /\ text \in Seq(Lexeme)
  /\ saved \in [scanner : ScannerState, token : Token]
  /\ delivered \in Seq(Stream!Event)
  /\ errors \in Nat

\* The eager parser waits.  It is not used before the fallback; before the
\* first error it is healthy and has counted what was delivered; and one that
\* exceeded the limit of events has queued that many.
EagerWaits ==
  /\ AtRest(eager)
  /\ parser.incremental => eager = NewEager /\ Len(delivered) = parser.events_delivered
  /\ errors = 0 => Healthy(eager)
  /\ ~parser.incremental /\ errors = 0 =>
       /\ Len(delivered) = Counted(eager)
       /\ MaxEvents > 0 => Len(delivered) <= MaxEvents
  /\ ~parser.incremental /\ result = "ERR_LIMIT" /\ MaxDepth = 0 => OverLimit(eager)

WholeInv == Inv /\ CacheInv /\ History /\ EagerWaits

\* A new eager parser is a record of its type,
LEMMA NewEagerType == NewEager \in EagerRecord
<1>1. NewScanner \in ScannerState /\ TokenAt(NewScanner, "NONE") \in Token
  BY NewScannerType, TokenAtType DEF TokenType
<1>2. <<>> \in Seq(CallFrame) /\ <<>> \in Seq(EagerEvent) /\ <<>> \in Seq(Context)
  OBVIOUS
<1>3. <<>> \in Seq(Stream!Event) /\ None \in Property /\ "none" \in EagerMessage
  BY DEF Property, EagerMessage, Message
<1> DEFINE s == NewScanner
           t == TokenAt(NewScanner, "NONE")
<1> HIDE DEF s, t
<1>4. s \in ScannerState /\ t \in Token
  BY <1>1 DEF s, t
<1>5. [scanner |-> s, current |-> t, have_token |-> FALSE,
       calls |-> <<>>, events |-> <<>>, cursor |-> 0, contexts |-> <<>>,
       anchor |-> None, tag |-> None, props_line |-> 0, props_col |-> 0,
       close_line |-> 0, doc_open |-> FALSE, doc_start_line |-> 0,
       stream_started |-> FALSE, stream_ended |-> FALSE,
       stop_status |-> "NONE", error_msg |-> "none",
       evt_base |-> 0, skip_n |-> 0, skip_sig |-> <<>>, skip_got |-> <<>>,
       status |-> "OK", starved |-> FALSE] \in EagerRecord
  BY <1>2, <1>3, <1>4 DEF EagerRecord
<1> QED BY <1>5 DEF NewEager, s, t

\* and at rest.
LEMMA NewEagerWaits == AtRest(NewEager) /\ Healthy(NewEager) /\ Counted(NewEager) = 0
<1>1. /\ NewEager.calls = <<>> /\ NewEager.events = <<>> /\ NewEager.contexts = <<>>
      /\ NewEager.cursor = 0 /\ NewEager.status = "OK" /\ ~NewEager.starved
      /\ NewEager.stop_status = "NONE" /\ ~NewEager.doc_open
      /\ NewEager.evt_base = 0 /\ NewEager.skip_n = 0
  BY DEF NewEager
<1>2. MaxEvents > 0 => NewEager.evt_base <= MaxEvents
  BY <1>1, LimitsAssumption
<1>3. /\ AtRest(NewEager) /\ Healthy(NewEager)
      /\ Counted(NewEager) = NewEager.evt_base + NewEager.skip_n
  BY <1>1, <1>2, NewEagerType, FreshWaiting
<1> QED BY <1>1, <1>3

\* A parser that begins, or was asked for the eager one.
LEMMA WholeInitInv == WholeInit => WholeInv
<1> SUFFICES ASSUME WholeInit PROVE WholeInv
  OBVIOUS
<1>1. History
  <2>1. NewScanner \in ScannerState /\ TokenAt(NewScanner, "NONE") \in Token
    BY NewScannerType, TokenAtType DEF TokenType
  <2>2. <<>> \in Seq(Lexeme) /\ <<>> \in Seq(Stream!Event) /\ 0 \in Nat
    OBVIOUS
  <2> QED BY <2>1, <2>2 DEF WholeInit, History
<1>2. CASE parser = NewParser
  <2>1. Inv /\ CacheInv
    BY <1>2, InitInv, InitRecalls DEF WholeInit, Init
  <2>2. parser.events_delivered = 0 /\ parser.incremental
    BY <1>2 DEF NewParser
  <2>3. eager = NewEager /\ Len(delivered) = 0
    BY DEF WholeInit
  <2>4. EagerWaits
    BY <2>2, <2>3, NewEagerWaits DEF EagerWaits
  <2> QED BY <1>1, <2>1, <2>4 DEF WholeInv
<1>3. CASE parser = [NewParser EXCEPT !.incremental = FALSE]
  <2>1. Kept(NewParser)
    BY NewParserKept
  <2> DEFINE q == NewParser
  <2> HIDE DEF q
  <2>2. q \in ParserRecord /\ Limits(q) /\ TokenHeld(q) /\ ~q.starved
    BY <2>1 DEF Kept, q
  <2>3. parser = [q EXCEPT !.incremental = FALSE]
    BY <1>3 DEF q
  <2>4. /\ parser \in ParserRecord /\ ~parser.incremental
        /\ parser.events_delivered = q.events_delivered /\ parser.out_buf = q.out_buf
        /\ parser.frames = q.frames /\ parser.ckpt = q.ckpt /\ parser.state = q.state
        /\ parser.have_token = q.have_token /\ parser.scan_error = q.scan_error
        /\ parser.starved = q.starved
    BY <2>2, <2>3 DEF ParserRecord
  <2>5. Kept(parser)
    BY <2>2, <2>4 DEF Kept, Limits, TokenHeld
  <2>6. result = "READY" /\ result \in Result /\ open \in Seq(Stream!Level)
    BY DEF WholeInit, Result, Stream!Level
  <2>7. Inv /\ CacheInv
    BY <2>4, <2>5, <2>6 DEF Inv, CacheInv
  <2>8. eager = NewEager /\ Len(delivered) = 0
    BY DEF WholeInit
  <2>9. EagerWaits
    BY <2>4, <2>6, <2>8, NewEagerWaits, LimitsAssumption DEF EagerWaits
  <2> QED BY <1>1, <2>7, <2>9 DEF WholeInv
<1> QED BY <1>2, <1>3 DEF WholeInit

-----------------------------------------------------------------------------
(***************************************************************************)
(* The incremental parser's steps, and the fallback.                       *)
(***************************************************************************)

\* Errors are counted, and never forgotten.
LEMMA ErrorsCounted ==
  ASSUME errors \in Nat, CountError
  PROVE  errors' \in Nat /\ (errors' = 0 => errors = 0 /\ result' \notin Errors)
BY DEF CountError

\* A call of the caller's.
LEMMA WholeCallInv ==
  ASSUME WholeInv, WholeCall
  PROVE  WholeInv'
<1>1. /\ parser' = parser /\ result' = "BUSY" /\ Call
      /\ text' = text /\ saved' = saved /\ eager' = eager /\ delivered' = delivered
      /\ errors' = errors
  BY DEF WholeCall, Call
<1>2. Inv'
  <2>1. [Next]_vars
    BY <1>1 DEF Next
  <2> QED BY <2>1, NextInv DEF WholeInv
<1>3. CacheInv'
  BY <1>1 DEF WholeInv, CacheInv
<1>4. History'
  BY <1>1 DEF WholeInv, History
<1>5. EagerWaits'
  BY <1>1 DEF WholeInv, EagerWaits
<1> QED BY <1>2, <1>3, <1>4, <1>5 DEF WholeInv

\* A step delivers one event, or none.
LEMMA IncrementalCounts ==
  ASSUME WholeInv, IncrementalStep
  PROVE  /\ Inv' /\ CacheInv' /\ parser.incremental /\ parser'.incremental
         /\ \/ parser'.events_delivered = parser.events_delivered
            \/ /\ parser'.events_delivered = parser.events_delivered + 1
               /\ Deliver /\ parser.out_buf # <<>>
<1>1. parser \in ParserRecord /\ Inv /\ CacheInv
  BY DEF WholeInv, Inv, Kept
<1>2. Inv'
  <2>1. [Next]_vars
    BY DEF IncrementalStep, Next, Work
  <2> QED BY <1>1, <2>1, NextInv
<1>3. CASE Deliver
  <2>1. CacheInv'
    BY <1>1, <1>3, DeliverRecalls
  <2> DEFINE rest == Tail(parser.out_buf)
  <2>2. /\ parser' = [parser EXCEPT !.out_buf = rest, !.events_delivered = @ + 1]
        /\ parser.incremental /\ parser.out_buf # <<>>
    BY <1>3 DEF Deliver
  <2> HIDE DEF rest
  <2>3. /\ parser'.incremental = parser.incremental
        /\ parser'.events_delivered = parser.events_delivered + 1
    BY <1>1, <2>2 DEF ParserRecord
  <2> QED BY <1>2, <1>3, <2>1, <2>2, <2>3
<1>4. CASE ReturnNone \/ ReturnScanError \/ ReturnStopped
  <2>1. parser' = parser /\ parser.incremental
    BY <1>4 DEF ReturnNone, ReturnScanError, ReturnStopped, Return
  <2>2. CacheInv'
    BY <1>1, <2>1 DEF CacheInv
  <2> QED BY <1>2, <2>1, <2>2
<1>5. CASE DocumentStep \/ BlockStep \/ FlowStep
  <2>1. StepEnds
    BY <1>1, <1>5, DocumentStepRecalls, BlockStepRecalls, FlowStepRecalls
  <2>2. parser.incremental
    BY <2>1 DEF StepEnds, Stepping
  <2>3. CacheInv'
    BY <1>1, <1>5, StepKeepsCache
  <2>4. /\ parser'.events_delivered = parser.events_delivered
        /\ parser'.incremental = parser.incremental
    BY <1>1, <1>5, StepDeliversNothing
  <2> QED BY <1>2, <2>2, <2>3, <2>4
<1> QED BY <1>3, <1>4, <1>5 DEF IncrementalStep

\* A step of the incremental parser, before the fallback.
LEMMA IncrementalStepInv ==
  ASSUME WholeInv, IncrementalStep
  PROVE  WholeInv'
<1> DEFINE n == parser.events_delivered
<1>1. /\ Inv' /\ CacheInv' /\ parser.incremental /\ parser'.incremental
      /\ \/ parser'.events_delivered = n
         \/ parser'.events_delivered = n + 1 /\ parser.out_buf # <<>>
  BY IncrementalCounts
<1>2. /\ n \in Nat /\ parser.out_buf \in Seq(Stream!Event) /\ parser.scanner \in ScannerState
      /\ parser'.scanner \in ScannerState /\ parser'.current \in Token
  BY <1>1 DEF WholeInv, Inv, Kept, ParserRecord
<1>3. /\ History /\ eager = NewEager /\ Len(delivered) = n /\ eager' = eager
      /\ errors' \in Nat /\ (errors' = 0 => errors = 0)
  <2>1. History /\ eager = NewEager /\ Len(delivered) = n
    BY <1>1 DEF WholeInv, EagerWaits
  <2>2. errors' \in Nat /\ (errors' = 0 => errors = 0)
    BY <2>1, ErrorsCounted DEF IncrementalStep, History
  <2> QED BY <2>1, <2>2 DEF IncrementalStep
<1>4. text' \in Seq(Lexeme)
  <2> DEFINE old == parser.scanner.buf
             new == parser'.scanner.buf
  <2>1. old \in Seq(Lexeme) /\ new \in Seq(Lexeme) /\ text \in Seq(Lexeme)
    BY <1>2, <1>3 DEF ScannerState, History
  <2>2. text' = IF Len(new) > Len(old) THEN Append(text, Last(new)) ELSE text
    BY DEF IncrementalStep, KeepText
  <2> HIDE DEF old, new
  <2>3. Len(new) > Len(old) => Last(new) \in Lexeme
    BY <2>1 DEF Last
  <2> QED BY <2>1, <2>2, <2>3
<1>5. saved' \in [scanner : ScannerState, token : Token]
  <2> DEFINE s == parser'.scanner
             t == parser'.current
  <2>1. saved' = IF parser'.ckpt = parser.ckpt THEN saved
                 ELSE [scanner |-> [s EXCEPT !.buf = <<>>], token |-> t]
    BY DEF IncrementalStep, KeepCheckpoint
  <2>2. s \in ScannerState /\ t \in Token
    BY <1>2
  <2> HIDE DEF s, t
  <2>3. [s EXCEPT !.buf = <<>>] \in ScannerState
    <3> DEFINE none == <<>>
    <3>1. none \in Seq(Lexeme)
      OBVIOUS
    <3> HIDE DEF none
    <3>2. [s EXCEPT !.buf = none] \in ScannerState
      BY <2>2, <3>1 DEF ScannerState
    <3> QED BY <3>2 DEF none
  <2> QED BY <1>3, <2>1, <2>2, <2>3 DEF History
<1>6. delivered' \in Seq(Stream!Event) /\ Len(delivered') = parser'.events_delivered
  <2> DEFINE e == Head(parser.out_buf)
  <2>1. delivered' = IF parser'.events_delivered > n THEN Append(delivered, e) ELSE delivered
    BY DEF IncrementalStep, KeepDelivered
  <2>2. parser.out_buf # <<>> => e \in Stream!Event
    BY <1>2
  <2>3. delivered \in Seq(Stream!Event)
    BY <1>3 DEF History
  <2> HIDE DEF e, n
  <2> QED BY <1>1, <1>2, <1>3, <2>1, <2>2, <2>3 DEF n
<1>7. History'
  BY <1>3, <1>4, <1>5, <1>6 DEF History
<1>8. EagerWaits'
  BY <1>1, <1>3, <1>6, NewEagerWaits DEF EagerWaits
<1> QED BY <1>1, <1>7, <1>8 DEF WholeInv

\* The text known may be read again.
LEMMA RescanType ==
  ASSUME NEW from \in ScannerState, text \in Seq(Lexeme), parser.scanner \in ScannerState
  PROVE  Rescan(from) \in ScannerState
<1> DEFINE i == from.pos + 1
           m == Len(text)
           buf == SubSeq(text, i, m)
           last == parser.scanner.last
           depth == parser.scanner.depth
           ended == parser.scanner.text_ended
<1>1. i \in Nat \ {0} /\ m \in Nat
  <2>1. from.pos \in Nat
    BY DEF ScannerState
  <2>2. m \in Nat
    OBVIOUS
  <2> HIDE DEF m
  <2> QED BY <2>1, <2>2
<1>2. \A j \in i..m : j \in 1..m /\ text[j] \in Lexeme
  BY <1>1
<1>3. buf \in Seq(Lexeme)
  BY <1>1, <1>2
<1>4. [from EXCEPT !.last = last, !.depth = depth, !.text_ended = ended] \in ScannerState
  BY DEF ScannerState
<1>5. Rescan(from) = [from EXCEPT !.buf = buf, !.last = last, !.depth = depth,
                                  !.text_ended = ended]
  BY DEF Rescan
<1> HIDE DEF buf
<1> QED BY <1>3, <1>5 DEF ScannerState

\* A new eager parser that has k events to skip.
Fresh(base, k, sig, line) ==
  [NewEager EXCEPT !.evt_base = base, !.skip_n = k, !.skip_sig = sig, !.doc_start_line = line]

\* It is typed and new, but for what it counts.
IsFresh(q, base, k) ==
  /\ q \in EagerRecord /\ q.calls = <<>> /\ q.events = <<>> /\ q.contexts = <<>>
  /\ q.cursor = 0 /\ q.status = "OK" /\ ~q.starved /\ q.stop_status = "NONE"
  /\ ~q.doc_open /\ q.evt_base = base /\ q.skip_n = k

\* The eager parser that the fallback begins.
LEMMA FreshEager ==
  ASSUME NEW base \in Nat, NEW k \in Nat, NEW sig \in Seq(Stream!Event), NEW line \in Nat
  PROVE  IsFresh(Fresh(base, k, sig, line), base, k)
<1> DEFINE q == NewEager
           fresh == [q EXCEPT !.evt_base = base, !.skip_n = k, !.skip_sig = sig,
                              !.doc_start_line = line]
<1>1. /\ q \in EagerRecord /\ q.calls = <<>> /\ q.events = <<>> /\ q.contexts = <<>>
      /\ q.cursor = 0 /\ q.status = "OK" /\ ~q.starved /\ q.stop_status = "NONE"
      /\ ~q.doc_open
  BY NewEagerType DEF NewEager
<1>2. Fresh(base, k, sig, line) = fresh
  BY DEF Fresh
<1> HIDE DEF q
<1>3. fresh \in EagerRecord
  BY <1>1 DEF EagerRecord
<1>4. /\ fresh.calls = q.calls /\ fresh.events = q.events /\ fresh.contexts = q.contexts
      /\ fresh.cursor = q.cursor /\ fresh.status = q.status /\ fresh.starved = q.starved
      /\ fresh.stop_status = q.stop_status /\ fresh.doc_open = q.doc_open
      /\ fresh.evt_base = base /\ fresh.skip_n = k
  BY <1>1 DEF EagerRecord
<1> HIDE DEF fresh
<1> QED BY <1>1, <1>2, <1>3, <1>4 DEF IsFresh

\* It waits.
LEMMA FreshWaits ==
  ASSUME NEW q, NEW base \in Nat, NEW k \in Nat, IsFresh(q, base, k),
         MaxEvents > 0 => base <= MaxEvents
  PROVE  AtRest(q) /\ Healthy(q) /\ Counted(q) = base + k
BY FreshWaiting DEF IsFresh

\* The eager parser starts over where the checkpoint is; what it has to skip
\* is what was delivered since.
LEMMA EagerTakesOver ==
  ASSUME WholeInv, FallBackToEager
  PROVE  WholeInv'
<1> DEFINE n == parser.events_delivered
           base == IF parser.ckpt.set THEN parser.ckpt.delivered ELSE 0
           k == n - base
           sig == SubSeq(delivered, base + 1, Len(delivered))
           line == parser.doc_start_line
           fresh == Fresh(base, k, sig, line)
<1>1. /\ parser \in ParserRecord /\ Limits(parser) /\ FallBack
      /\ parser.incremental /\ result = "BUSY" /\ result' = "BUSY"
      /\ History /\ EagerWaits
  BY DEF WholeInv, Inv, Kept, FallBackToEager, FallBack, Stepping
<1>2. /\ n \in Nat /\ base \in Nat /\ base <= n /\ line \in Nat
      /\ MaxEvents > 0 => n <= MaxEvents
      /\ parser.scanner \in ScannerState
  <2>1. /\ n \in Nat /\ line \in Nat /\ parser.scanner \in ScannerState
        /\ parser.ckpt \in Checkpoint /\ parser.out_buf \in Seq(Stream!Event)
    BY <1>1 DEF ParserRecord
  <2>2. parser.ckpt.delivered \in Nat
    BY <2>1 DEF Checkpoint
  <2>3. Len(parser.out_buf) \in Nat
    BY <2>1
  <2>4. base \in Nat /\ base <= n
    BY <1>1, <2>1, <2>2 DEF Limits
  <2>5. MaxEvents > 0 => n <= MaxEvents
    BY <1>1, <2>1, <2>3, LimitsAssumption DEF Limits
  <2> QED BY <2>1, <2>4, <2>5
<1>3. Len(delivered) = n /\ delivered \in Seq(Stream!Event)
  BY <1>1 DEF EagerWaits, History
<1>4. sig \in Seq(Stream!Event) /\ k \in Nat /\ base + k = n
  <2>1. k \in Nat /\ base + k = n
    BY <1>2
  <2> HIDE DEF base, k
  <2>2. sig \in Seq(Stream!Event)
    BY <1>2, <1>3 DEF n
  <2> QED BY <2>1, <2>2
<1>5. eager' = Restarted(base)
  BY DEF FallBackToEager
<1>6. IsFresh(fresh, base, k) /\ (MaxEvents > 0 => base <= MaxEvents)
  <2>1. MaxEvents > 0 => base <= MaxEvents
    BY <1>2, LimitsAssumption
  <2> HIDE DEF base, k, sig, line
  <2> QED BY <1>2, <1>4, <2>1, FreshEager
<1>7. AtRest(eager') /\ Healthy(eager') /\ Counted(eager') = base + k
  <2>1. text \in Seq(Lexeme) /\ saved.scanner \in ScannerState /\ saved.token \in Token
    BY <1>1 DEF History
  <2>2. CASE parser.ckpt.set
    <3> DEFINE s == Rescan(saved.scanner)
               c == saved.token
               r == [fresh EXCEPT !.scanner = s, !.current = c, !.have_token = TRUE,
                                  !.stream_started = TRUE]
    <3>1. eager' = r
      BY <1>5, <2>2 DEF Restarted, Fresh
    <3>2. s \in ScannerState /\ c \in Token
      BY <1>2, <2>1, RescanType
    <3> HIDE DEF s, c, fresh
    <3>3. r \in EagerRecord
      BY <1>6, <3>2 DEF EagerRecord, IsFresh
    <3>4. /\ r.calls = fresh.calls /\ r.events = fresh.events /\ r.contexts = fresh.contexts
          /\ r.cursor = fresh.cursor /\ r.status = fresh.status /\ r.starved = fresh.starved
          /\ r.stop_status = fresh.stop_status /\ r.doc_open = fresh.doc_open
          /\ r.evt_base = fresh.evt_base /\ r.skip_n = fresh.skip_n
      BY <1>6 DEF EagerRecord, IsFresh
    <3> HIDE DEF r, base, k
    <3>5. IsFresh(r, base, k)
      BY <1>6, <3>3, <3>4 DEF IsFresh
    <3> QED BY <1>2, <1>4, <1>6, <3>1, <3>5, FreshWaits
  <2>3. CASE ~parser.ckpt.set
    <3> DEFINE s == Rescan(NewScanner)
               r == [fresh EXCEPT !.scanner = s]
    <3>1. eager' = r
      BY <1>5, <2>3 DEF Restarted, Fresh
    <3>2. s \in ScannerState
      BY <1>2, <2>1, NewScannerType, RescanType
    <3> HIDE DEF s, fresh
    <3>3. r \in EagerRecord
      BY <1>6, <3>2 DEF EagerRecord, IsFresh
    <3>4. /\ r.calls = fresh.calls /\ r.events = fresh.events /\ r.contexts = fresh.contexts
          /\ r.cursor = fresh.cursor /\ r.status = fresh.status /\ r.starved = fresh.starved
          /\ r.stop_status = fresh.stop_status /\ r.doc_open = fresh.doc_open
          /\ r.evt_base = fresh.evt_base /\ r.skip_n = fresh.skip_n
      BY <1>6 DEF EagerRecord, IsFresh
    <3> HIDE DEF r, base, k
    <3>5. IsFresh(r, base, k)
      BY <1>6, <3>3, <3>4 DEF IsFresh
    <3> QED BY <1>2, <1>4, <1>6, <3>1, <3>5, FreshWaits
  <2> QED BY <2>2, <2>3
<1>8. AtRest(eager') /\ Healthy(eager') /\ Counted(eager') = n
  BY <1>4, <1>7
<1>9. /\ delivered' = delivered /\ text' = text /\ saved' = saved /\ errors' = errors
      /\ ~parser'.incremental
  BY <1>1 DEF FallBackToEager, FallBack, ParserRecord
<1>10. Inv' /\ CacheInv'
  <2>1. [Next]_vars
    BY <1>1 DEF Next, Work
  <2>2. Inv'
    BY <2>1, NextInv DEF WholeInv
  <2> QED BY <1>9, <2>2 DEF CacheInv
<1>11. History'
  BY <1>1, <1>9 DEF History
<1>12. EagerWaits'
  <2> HIDE DEF n
  <2>1. MaxEvents > 0 => Len(delivered') <= MaxEvents
    BY <1>2, <1>3, <1>9
  <2>2. AtRest(eager)' /\ Healthy(eager)' /\ Counted(eager)' = Len(delivered)'
    BY <1>3, <1>8, <1>9
  <2> QED BY <1>1, <1>9, <2>1, <2>2 DEF EagerWaits
<1> QED BY <1>10, <1>11, <1>12 DEF WholeInv

-----------------------------------------------------------------------------
(***************************************************************************)
(* The eager parser's steps.                                               *)
(***************************************************************************)

\* An event of the eager parser's is handed out.
LEMMA EagerDeliverInv ==
  ASSUME WholeInv, EagerDeliver
  PROVE  WholeInv'
<1> DEFINE k == eager.cursor + 1
           e == eager.events[k].type
           r == [eager EXCEPT !.cursor = k]
<1>1. /\ result = "BUSY" /\ ~parser.incremental /\ eager.calls = <<>>
      /\ eager.cursor < Len(eager.events)
      /\ parser' = parser /\ open' = Stream!After(open, e) /\ eager' = r /\ result' = "OK"
      /\ text' = text /\ saved' = saved /\ errors' = errors
      /\ delivered' = Append(delivered, e)
  BY DEF EagerDeliver, EagerCalled, Between
<1>2. History /\ EagerWaits /\ Inv
  BY DEF WholeInv
<1>3. e \in Stream!Event
  <2>1. eager \in EagerRecord
    BY <1>2 DEF EagerWaits, AtRest, Steady
  <2>2. eager.events \in Seq(EagerEvent) /\ eager.cursor \in Nat
    BY <2>1 DEF EagerRecord
  <2>3. k \in 1..Len(eager.events)
    BY <1>1, <2>2
  <2> HIDE DEF k
  <2>4. eager.events[k] \in EagerEvent
    BY <2>2, <2>3
  <2> QED BY <2>4 DEF EagerEvent
<1>4. /\ AtRest(r) /\ (Healthy(eager) => Healthy(r)) /\ Counted(r) = Counted(eager) + 1
      /\ r.evt_base = eager.evt_base /\ r.events = eager.events
      /\ Healthy(eager) /\ MaxEvents > 0 => Counted(r) <= MaxEvents
  BY <1>1, <1>2, CursorWaiting DEF EagerWaits
<1> HIDE DEF r, e, k
<1>5. delivered' \in Seq(Stream!Event) /\ Len(delivered') = Len(delivered) + 1
  <2>1. delivered \in Seq(Stream!Event)
    BY <1>2 DEF History
  <2> QED BY <1>1, <1>3, <2>1
<1>6. History'
  BY <1>1, <1>2, <1>5 DEF History
<1>7. Inv'
  <2>1. open' \in Seq(Stream!Level)
    BY <1>1, <1>2, <1>3, AfterType DEF Inv
  <2> QED BY <1>1, <1>2, <2>1 DEF Inv, Result
<1>8. CacheInv'
  BY <1>1 DEF CacheInv
<1>9. EagerWaits'
  <2>1. errors' = 0 => /\ Healthy(eager') /\ Len(delivered') = Counted(eager')
                       /\ MaxEvents > 0 => Len(delivered') <= MaxEvents
    BY <1>1, <1>2, <1>4, <1>5 DEF EagerWaits
  <2> QED BY <1>1, <1>4, <2>1 DEF EagerWaits
<1> QED BY <1>6, <1>7, <1>8, <1>9 DEF WholeInv

\* The eager parser's last event has been handed out.
LEMMA EagerEndInv ==
  ASSUME WholeInv, EagerEnd
  PROVE  WholeInv'
<1>1. /\ ~parser.incremental /\ parser' = parser /\ open' = open /\ result' = "NONE"
      /\ text' = text /\ saved' = saved /\ eager' = eager /\ delivered' = delivered
      /\ errors' = errors
  BY DEF EagerEnd, EagerCalled
<1>2. Inv'
  BY <1>1 DEF WholeInv, Inv, Result
<1>3. CacheInv' /\ History'
  BY <1>1 DEF WholeInv, CacheInv, History
<1>4. EagerWaits'
  BY <1>1 DEF WholeInv, EagerWaits
<1> QED BY <1>2, <1>3, <1>4 DEF WholeInv

\* The text the step lacked.
LEMMA EagerMoreTextInv ==
  ASSUME WholeInv, EagerMoreText, ~parser.incremental, result = "BUSY"
  PROVE  WholeInv'
<1>1. /\ parser' = parser /\ open' = open /\ result' = result
      /\ text' = text /\ saved' = saved /\ delivered' = delivered /\ errors' = errors
  BY DEF EagerMoreText, vars
<1>2. AtRest(eager) /\ eager.scanner \in ScannerState
  <2>1. AtRest(eager)
    BY DEF WholeInv, EagerWaits
  <2>2. eager \in EagerRecord
    BY <2>1 DEF AtRest, Steady
  <2> QED BY <2>1, <2>2 DEF EagerRecord
<1>3. PICK s \in ScannerState : eager' = [eager EXCEPT !.scanner = s]
  <2>1. \A x \in Lexemes : AppendLexeme(eager.scanner, x) \in ScannerState
    BY <1>2, AppendLexemeType
  <2>2. EndText(eager.scanner) \in ScannerState
    BY <1>2, EndTextType
  <2> QED BY <2>1, <2>2 DEF EagerMoreText
<1> DEFINE r == [eager EXCEPT !.scanner = s]
<1>4. /\ AtRest(r) /\ (Healthy(eager) => Healthy(r)) /\ Counted(r) = Counted(eager)
  BY <1>2, TextWaiting
<1> HIDE DEF r
<1>5. eager' = r
  BY <1>3 DEF r
<1>6. Inv' /\ CacheInv' /\ History'
  BY <1>1 DEF WholeInv, Inv, CacheInv, History
<1>7. EagerWaits'
  <2>1. result' # "ERR_LIMIT"
    BY <1>1
  <2> QED BY <1>1, <1>4, <1>5, <2>1 DEF WholeInv, EagerWaits
<1> QED BY <1>6, <1>7 DEF WholeInv

\* A step of a document, and the end of the call with the last one.
LEMMA EagerDocumentInv ==
  ASSUME WholeInv, EagerDocument
  PROVE  WholeInv'
<1> DEFINE p == ChunkBegun(eager)
           r == EagerStep(p)
           e == ChunkEnded(r)
<1>1. /\ result = "BUSY" /\ ~parser.incremental /\ EagerFinish(e)
      /\ eager.calls = <<>> => eager.cursor = Len(eager.events)
  BY DEF EagerDocument, EagerCalled, Between
<1>2. History /\ EagerWaits /\ Inv
  BY DEF WholeInv
<1>3. /\ AtRest(p) /\ p.calls # <<>> /\ Counted(p) = Counted(eager)
      /\ Healthy(eager) => Healthy(p)
  <2>1. AtRest(eager)
    BY <1>2 DEF EagerWaits
  <2>2. CASE eager.calls = <<>>
    <3> DEFINE c == StartChunk(eager)
    <3>1. /\ AtRest(c) /\ c.calls # <<>> /\ Counted(c) = Counted(eager)
          /\ Healthy(eager) => Healthy(c)
      BY <1>1, <2>1, <2>2, StartWaiting
    <3>2. p = c
      BY <2>2 DEF ChunkBegun, Between
    <3> HIDE DEF p, c
    <3> QED BY <3>1, <3>2
  <2>3. CASE eager.calls # <<>>
    <3>1. p = eager
      BY <2>3 DEF ChunkBegun, Between
    <3> HIDE DEF p
    <3> QED BY <2>1, <2>3, <3>1
  <2> QED BY <2>2, <2>3
<1> HIDE DEF p
<1>4. CASE e.starved
  <2>1. EagerMoreText
    BY <1>1, <1>4 DEF EagerFinish
  <2> QED BY <1>1, <2>1, EagerMoreTextInv
<1>5. CASE ~e.starved
  <2> DEFINE q == Returned(e)
  <2>1. /\ eager' = q /\ result' = (IF e.status = "OK" THEN "BUSY" ELSE e.status) /\ CountError
        /\ parser' = parser /\ open' = open /\ text' = text /\ saved' = saved
        /\ delivered' = delivered
    BY <1>1, <1>5 DEF EagerFinish, Returned
  <2>2. ~r.starved
    <3>1. ASSUME r.starved PROVE FALSE
      <4>1. e = r \/ e = EndChunk(r)
        BY DEF ChunkEnded
      <4>2. EndChunk(r) = r
        BY <3>1 DEF EndChunk
      <4> QED BY <1>5, <3>1, <4>1, <4>2
    <3> QED BY <3>1
  <2>3. Parsed(p, r)
    BY <1>3, <2>2, ParsedStep
  <2> HIDE DEF r
  <2>4. /\ Steady(e) /\ e.cursor <= Len(e.events) /\ (e.calls # <<>> => e.cursor = 0)
        /\ Counted(e) = Counted(p) /\ (e.status = "OK" /\ Healthy(p) => Healthy(e))
    <3>1. CASE r.calls = <<>>
      <4> DEFINE d == EndChunk(r)
      <4>1. /\ Steady(d) /\ ~d.starved /\ d.calls = <<>> /\ d.cursor <= Len(d.events)
            /\ Counted(d) = Counted(p) /\ (d.status = "OK" /\ Healthy(p) => Healthy(d))
        BY <2>3, <3>1, CallEnds
      <4>2. e = d
        BY <3>1 DEF ChunkEnded, Between
      <4> HIDE DEF d, e
      <4> QED BY <4>1, <4>2
    <3>2. CASE r.calls # <<>>
      <4>1. e = r
        BY <3>2 DEF ChunkEnded, Between
      <4> HIDE DEF e
      <4>2. Len(r.events) \in Nat
        BY <2>3 DEF Parsed, Steady, EagerRecord
      <4>3. r.status = "OK" /\ Healthy(p) => Healthy(r)
        BY <2>3, <3>2 DEF Parsed, Healthy
      <4> QED BY <2>3, <3>2, <4>1, <4>2, <4>3 DEF Parsed
    <3> QED BY <3>1, <3>2
  <2> HIDE DEF e
  <2>5. /\ AtRest(q) /\ Counted(q) = Counted(e) /\ (Healthy(e) => Healthy(q))
        /\ OverLimit(e) => OverLimit(q)
    BY <1>5, <2>4, ReturnsAtRest
  <2> HIDE DEF q
  <2>6. /\ errors' \in Nat
        /\ errors' = 0 => errors = 0 /\ result' \notin Errors
    BY <1>2, <2>1, ErrorsCounted DEF History
  <2>7. e.status \in {"OK", "ERR_PARSE", "ERR_SCAN", "ERR_LIMIT"}
    BY <2>4 DEF Steady, EagerRecord
  <2>8. result' \in Result /\ (result' \notin Errors => e.status = "OK")
    BY <2>1, <2>7 DEF Result, Errors
  <2>9. Inv' /\ CacheInv' /\ History'
    <3>1. Inv'
      BY <1>2, <2>1, <2>8 DEF Inv
    <3>2. CacheInv'
      BY <1>1, <2>1 DEF CacheInv
    <3>3. History'
      BY <1>2, <2>1, <2>6 DEF History
    <3> QED BY <3>1, <3>2, <3>3
  <2>10. EagerWaits'
    <3>1. errors' = 0 => /\ Healthy(eager') /\ Len(delivered') = Counted(eager')
                         /\ MaxEvents > 0 => Len(delivered') <= MaxEvents
      BY <1>1, <1>2, <1>3, <2>1, <2>4, <2>5, <2>6, <2>8 DEF EagerWaits
    <3>2. result' = "ERR_LIMIT" /\ MaxDepth = 0 => OverLimit(eager')
      <4>1. result' = "ERR_LIMIT" => e.status = "ERR_LIMIT"
        BY <2>1
      <4>2. e.status = "ERR_LIMIT" /\ MaxDepth = 0 => OverLimit(e)
        BY <2>4 DEF Steady
      <4> QED BY <2>1, <2>5, <4>1, <4>2
    <3> QED BY <1>1, <2>1, <2>5, <3>1, <3>2 DEF EagerWaits
  <2> QED BY <2>9, <2>10 DEF WholeInv
<1> QED BY <1>4, <1>5

\* The invariant is kept by every step.
LEMMA WholeNextInv ==
  ASSUME WholeInv, [WholeNext]_wholeVars
  PROVE  WholeInv'
<1>1. CASE Abandon \/ UNCHANGED wholeVars
  <2>1. /\ parser' = parser /\ result' = result /\ open' = open
        /\ text' = text /\ saved' = saved /\ eager' = eager /\ delivered' = delivered
        /\ errors' = errors
    BY <1>1 DEF Abandon, wholeVars, vars
  <2> QED BY <2>1 DEF WholeInv, Inv, CacheInv, History, EagerWaits
<1> QED BY <1>1, WholeCallInv, IncrementalStepInv, EagerTakesOver, EagerDeliverInv,
           EagerEndInv, EagerDocumentInv
        DEF WholeNext

-----------------------------------------------------------------------------
(***************************************************************************)
(* The theorems.                                                           *)
(***************************************************************************)

\* Every state of the whole parser is typed (oyl_parser.c's struct, the
\* checkpoint and the text it scans): the incremental parser's record, the
\* eager one's and what the caller has seen.
WholeTyped ==
  /\ parser \in ParserRecord /\ result \in Result /\ open \in Seq(Stream!Level)
  /\ eager \in EagerRecord /\ text \in Seq(Lexeme)
  /\ saved \in [scanner : ScannerState, token : Token]
  /\ delivered \in Seq(Stream!Event) /\ errors \in Nat

\* The invariant holds whatever the caller does, errors included.
THEOREM WholeInvariance == WholeSpec => [](WholeInv /\ WholeTyped)
<1>1. WholeInv => WholeTyped
  BY DEF WholeInv, Inv, Kept, History, EagerWaits, AtRest, Steady, WholeTyped
<1>2. WholeInv /\ [WholeNext]_wholeVars => WholeInv'
  BY WholeNextInv
<1> QED BY <1>1, <1>2, WholeInitInv, PTL DEF WholeSpec

\* oyl.h's max_events counts events of both parsers, and of all documents, once
\* (EventsCountedOnce): what was delivered is what the eager parser has
\* counted of earlier documents, of this one and as still to be skipped.
THEOREM CountedOnce == WholeSpec => []EventsCountedOnce
<1>1. WholeInv => EventsCountedOnce
  BY DEF WholeInv, EagerWaits, EventsCountedOnce, Counted
<1> QED BY <1>1, WholeInvariance, PTL

\* max_events holds for the whole parser (WholeEventLimit): before the first
\* error no more events are delivered than it allows, whichever parser they
\* are from, and the eager parser does not say so too early.
THEOREM WholeLimit == WholeSpec => []WholeEventLimit
<1>1. WholeInv => WholeEventLimit
  <2> SUFFICES ASSUME WholeInv, MaxEvents > 0
               PROVE  /\ errors = 0 => Len(delivered) <= MaxEvents
                      /\ result = "ERR_LIMIT" /\ ~parser.incremental /\ MaxDepth = 0
                           => eager.evt_base + Len(eager.events) = MaxEvents
    BY DEF WholeEventLimit
  <2>1. CASE parser.incremental
    <3>1. /\ parser \in ParserRecord /\ Limits(parser)
          /\ Len(delivered) = parser.events_delivered
      BY <2>1 DEF WholeInv, Inv, Kept, EagerWaits
    <3>2. parser.events_delivered \in Nat /\ parser.out_buf \in Seq(Stream!Event)
      BY <3>1 DEF ParserRecord
    <3>3. Len(parser.out_buf) \in Nat
      BY <3>2
    <3> QED BY <2>1, <3>1, <3>2, <3>3, LimitsAssumption DEF Limits
  <2>2. CASE ~parser.incremental
    <3>1. errors = 0 => Len(delivered) <= MaxEvents
      BY <2>2 DEF WholeInv, EagerWaits
    <3>2. /\ eager \in EagerRecord
          /\ eager.evt_base + Len(eager.events) <= MaxEvents
      BY DEF WholeInv, EagerWaits, AtRest, Steady
    <3>3. OverLimit(eager) => eager.evt_base + Len(eager.events) >= MaxEvents
      BY DEF OverLimit
    <3>4. eager.evt_base \in Nat /\ Len(eager.events) \in Nat
      BY <3>2 DEF EagerRecord
    <3>5. result = "ERR_LIMIT" /\ MaxDepth = 0 => OverLimit(eager)
      BY <2>2 DEF WholeInv, EagerWaits
    <3> QED BY <3>1, <3>2, <3>3, <3>4, <3>5, LimitsAssumption
  <2> QED BY <2>1, <2>2
<1> QED BY <1>1, WholeInvariance, PTL

\* Between two documents the eager parser is clean (CleanBetweenChunks): its
\* contexts are those of the calls that run, so none is left, and it knows
\* whether the document it has queued events of is over.
THEOREM CleanBetween == WholeSpec => []CleanBetweenChunks
<1>1. WholeInv => CleanBetweenChunks
  <2> SUFFICES ASSUME WholeInv, errors = 0, eager.calls = <<>>
               PROVE  eager.contexts = <<>> /\ (eager.doc_open <=> DocIn(eager.events))
    BY DEF CleanBetweenChunks, Between, DocIn
  <2>1. eager \in EagerRecord /\ Healthy(eager)
    BY DEF WholeInv, EagerWaits, AtRest, Steady
  <2>2. Matched(eager) /\ DocLaw(eager)
    BY <2>1 DEF Healthy
  <2>3. eager.contexts = <<>>
    <3>1. Len(eager.contexts) = 0
      BY <2>2, NoContexts DEF Matched
    <3>2. eager.contexts \in Seq(Context)
      BY <2>1 DEF EagerRecord
    <3> QED BY <3>1, <3>2
  <2>4. Law(eager, "NONE", 0)
    BY <2>2, LawHolds
  <2> QED BY <2>3, <2>4 DEF Law
<1> QED BY <1>1, WholeInvariance, PTL

-----------------------------------------------------------------------------
(***************************************************************************)
(* Until it falls back, the whole parser is the incremental one.           *)
(***************************************************************************)

SteppedInv == WholeInv /\ (parser.incremental => StreamInv)

\* The two invariants hold together at first,
LEMMA SteppedInitInv == WholeInit => SteppedInv
<1> SUFFICES ASSUME WholeInit, parser.incremental PROVE StreamInv
  BY WholeInitInv DEF SteppedInv
<1>1. parser = NewParser
  <2>1. NewParser \in ParserRecord
    BY NewParserKept DEF Kept
  <2>2. ~[NewParser EXCEPT !.incremental = FALSE].incremental
    BY <2>1 DEF ParserRecord
  <2> QED BY <2>2 DEF WholeInit
<1> QED BY <1>1, InitOnWay DEF WholeInit, Init

\* A step of the parser that was not fallen back from is one of Next.
LEMMA SteppedNext ==
  ASSUME SteppedInv, [WholeNext]_wholeVars
  PROVE  /\ SteppedInv'
         /\ parser.incremental /\ delivered' # delivered
              => Last(delivered') \in Stream!Accepts(open)
<1>1. WholeInv /\ WholeInv'
  BY WholeNextInv DEF SteppedInv
<1>2. CASE ~parser.incremental
  <2>1. ~parser'.incremental
    <3>1. CASE IncrementalStep
      BY <1>1, <1>2, <3>1, IncrementalCounts
    <3>2. CASE FallBackToEager
      BY <1>2, <3>2 DEF FallBackToEager, FallBack, Stepping
    <3>3. CASE EagerDocument
      BY <1>2, <3>3 DEF EagerDocument, EagerFinish, EagerMoreText, vars
    <3>4. CASE WholeCall \/ Abandon \/ EagerDeliver \/ EagerEnd \/ UNCHANGED wholeVars
      BY <1>2, <3>4 DEF WholeCall, Call, Abandon, EagerDeliver, EagerEnd, wholeVars, vars
    <3> QED BY <3>1, <3>2, <3>3, <3>4 DEF WholeNext
  <2> QED BY <1>1, <1>2, <2>1 DEF SteppedInv
<1>3. CASE parser.incremental
  <2>1. StreamInv
    BY <1>3 DEF SteppedInv
  <2>2. CASE IncrementalStep
    <3>1. [Next]_vars
      BY <2>2 DEF IncrementalStep, Next, Work
    <3>2. StreamInv'
      BY <2>1, <3>1, NextOnWay
    <3>3. ASSUME delivered' # delivered
          PROVE  Last(delivered') \in Stream!Accepts(open)
      <4> DEFINE e == Head(parser.out_buf)
                 n == parser.events_delivered
      <4>1. \/ parser'.events_delivered = n
            \/ parser'.events_delivered = n + 1 /\ Deliver
        BY <1>1, <2>2, IncrementalCounts
      <4>2. delivered' = IF parser'.events_delivered > n THEN Append(delivered, e) ELSE delivered
        BY <2>2 DEF IncrementalStep, KeepDelivered
      <4>3. n \in Nat /\ delivered \in Seq(Stream!Event)
        BY <1>1 DEF WholeInv, Inv, Kept, ParserRecord, History
      <4> HIDE DEF n
      <4>4. Deliver /\ delivered' = Append(delivered, e)
        BY <3>3, <4>1, <4>2, <4>3
      <4>5. e \in Stream!Event /\ e \in Stream!Accepts(open)
        BY <2>1, <4>4, DeliverOnWay
      <4> HIDE DEF e
      <4>6. Last(Append(delivered, e)) = e
        BY <4>3, <4>5 DEF Last
      <4> QED BY <4>4, <4>5, <4>6
    <3> QED BY <1>1, <3>2, <3>3 DEF SteppedInv
  <2>3. CASE WholeCall
    <3>1. Call /\ delivered' = delivered
      BY <2>3 DEF WholeCall
    <3>2. StreamInv'
      BY <2>1, <3>1, NextOnWay DEF Next
    <3> QED BY <1>1, <3>1, <3>2 DEF SteppedInv
  <2>4. CASE FallBackToEager
    <3>1. parser \in ParserRecord /\ FallBack /\ delivered' = delivered
      BY <2>1, <2>4 DEF StreamInv, Inv, Kept, FallBackToEager
    <3>2. ~parser'.incremental
      BY <3>1 DEF FallBack, ParserRecord
    <3> QED BY <1>1, <3>1, <3>2 DEF SteppedInv
  <2>5. CASE Abandon \/ UNCHANGED wholeVars
    <3>1. /\ parser' = parser /\ result' = result /\ open' = open
          /\ delivered' = delivered
      BY <2>5 DEF Abandon, wholeVars, vars
    <3>2. StreamInv'
      BY <2>1, <3>1, NextOnWay DEF vars
    <3> QED BY <1>1, <3>1, <3>2 DEF SteppedInv
  <2>6. CASE EagerDeliver \/ EagerEnd \/ EagerDocument
    BY <1>3, <2>6 DEF EagerDeliver, EagerEnd, EagerDocument, EagerCalled
  <2> QED BY <2>2, <2>3, <2>4, <2>5, <2>6 DEF WholeNext
<1> QED BY <1>2, <1>3

\* oyl.h's well-formed stream (WholeWellFormed), for the events delivered until
\* the fallback and even after errors: the text, the checkpoint and the caller's
\* retries, which this composition adds to the incremental parser, change
\* nothing of what StreamWellFormed says of it alone.
THEOREM WellFormedUntilFallback ==
  WholeSpec =>
    [][ parser.incremental /\ delivered' # delivered
          => Last(delivered') \in Stream!Accepts(open) ]_wholeVars
<1>1. SteppedInv /\ [WholeNext]_wholeVars => SteppedInv'
  BY SteppedNext
<1>2. SteppedInv /\ [WholeNext]_wholeVars
        => [ parser.incremental /\ delivered' # delivered
               => Last(delivered') \in Stream!Accepts(open) ]_wholeVars
  BY SteppedNext
<1> QED BY <1>1, <1>2, SteppedInitInv, PTL DEF WholeSpec
=============================================================================
