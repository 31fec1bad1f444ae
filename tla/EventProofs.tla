---------------------------- MODULE EventProofs ----------------------------
(***************************************************************************)
(* Every state's handler goes on with a well-formed stream of events and   *)
(* leaves frames, state and return state that tell what is open in it: for *)
(* every vocabulary, text length, limit and spacing.                       *)
(***************************************************************************)
EXTENDS ParserProofs

-----------------------------------------------------------------------------
(***************************************************************************)
(* What the frames say is open.                                            *)
(***************************************************************************)

\* The function Levels defines: what is open below each frame.
IsLevels(frames, levels) ==
  levels = [i \in 0..Len(frames) |->
             IF i = 0 THEN <<"STREAM">> ELSE levels[i-1] \o Parents(frames[i].return_state)]

\* Its values, one after the other.
LEMMA LevelsEntries ==
  ASSUME NEW frames \in Seq(Frame), NEW levels, IsLevels(frames, levels)
  PROVE  /\ levels[0] = <<"STREAM">>
         /\ \A i \in 1..Len(frames) :
              i - 1 \in 0..Len(frames)
              /\ levels[i] = levels[i-1] \o Parents(frames[i].return_state)
<1> DEFINE n == Len(frames)
           v(i) == IF i = 0 THEN <<"STREAM">>
                   ELSE levels[i-1] \o Parents(frames[i].return_state)
<1>1. n \in Nat
  OBVIOUS
<1>2. levels = [i \in 0..n |-> v(i)]
  BY DEF IsLevels
<1>3. \A i \in 0..n : levels[i] = v(i)
  <2> HIDE DEF v, n
  <2> SUFFICES ASSUME NEW i \in 0..n PROVE levels[i] = v(i)
    OBVIOUS
  <2>1. [j \in 0..n |-> v(j)][i] = v(i)
    OBVIOUS
  <2> QED BY <1>2, <2>1
<1>4. levels[0] = <<"STREAM">>
  BY <1>1, <1>3
<1>5. ASSUME NEW i \in 1..n
      PROVE  i - 1 \in 0..n /\ levels[i] = levels[i-1] \o Parents(frames[i].return_state)
  <2>1. i \in 0..n /\ i # 0 /\ i - 1 \in 0..n
    BY <1>1
  <2> HIDE DEF n
  <2> QED BY <2>1, <1>3
<1> QED BY <1>4, <1>5

\* There is only one.
LEMMA LevelsUnique ==
  ASSUME NEW frames \in Seq(Frame), NEW levels, IsLevels(frames, levels),
         NEW other, IsLevels(frames, other)
  PROVE  \A i \in 0..Len(frames) : levels[i] = other[i]
<1> DEFINE n == Len(frames)
           T == {i \in 0..n : levels[i] # other[i]}
<1>0. n \in Nat
  OBVIOUS
<1>1. ASSUME T # {} PROVE FALSE
  <2>1. T \in SUBSET Nat
    BY <1>0
  <2>2. PICK i \in T : \A j \in T : i <= j
    <3> HIDE DEF T
    <3> QED BY <1>1, <2>1, NatMin
  <2>3. levels[0] = other[0]
    BY LevelsEntries
  <2>4. i \in 1..n /\ i - 1 \in 0..n /\ ~(i <= i - 1)
    BY <1>0, <2>2, <2>3
  <2>5. levels[i-1] = other[i-1]
    BY <2>2, <2>4
  <2>6. /\ levels[i] = levels[i-1] \o Parents(frames[i].return_state)
        /\ other[i] = other[i-1] \o Parents(frames[i].return_state)
    BY <2>4, LevelsEntries
  <2> QED BY <2>2, <2>5, <2>6
<1> QED BY <1>1

\* It exists for no frames, and with one more frame.
LEMMA LevelsExist ==
  ASSUME NEW frames \in Seq(Frame)
  PROVE  \E levels : IsLevels(frames, levels)
<1> DEFINE T == {n \in Nat : \E fs \in Seq(Frame) :
                               Len(fs) = n /\ ~\E levels : IsLevels(fs, levels)}
<1>1. ASSUME T # {} PROVE FALSE
  <2>1. PICK n \in T : \A m \in T : n <= m
    <3>1. T \in SUBSET Nat
      OBVIOUS
    <3> HIDE DEF T
    <3> QED BY <1>1, <3>1, NatMin
  <2>2. PICK fs \in Seq(Frame) : Len(fs) = n /\ ~\E levels : IsLevels(fs, levels)
    BY <2>1
  <2>3. CASE n = 0
    <3> DEFINE l == [i \in 0..Len(fs) |-> <<"STREAM">>]
    <3>1. \A i \in 0..Len(fs) : i = 0
      BY <2>2, <2>3
    <3>2. IsLevels(fs, l)
      BY <3>1 DEF IsLevels
    <3> QED BY <2>2, <3>2
  <2>4. CASE n # 0
    <3> DEFINE low == SubSeq(fs, 1, n - 1)
    <3>1. /\ n \in Nat /\ n - 1 \in Nat /\ low \in Seq(Frame) /\ Len(low) = n - 1
          /\ \A i \in 1..n-1 : low[i] = fs[i]
      BY <2>1, <2>2, <2>4
    <3>2. n - 1 \notin T
      BY <2>1, <3>1
    <3>3. PICK below : IsLevels(low, below)
      <4> HIDE DEF low
      <4> QED BY <3>1, <3>2
    <3> HIDE DEF low
    <3> DEFINE last == below[n-1] \o Parents(fs[n].return_state)
               l == [i \in 0..n |-> IF i = n THEN last ELSE below[i]]
    <3>4. (\A i \in 0..n-1 : l[i] = below[i]) /\ l[n] = last
      <4> HIDE DEF last
      <4> QED BY <2>4, <3>1
    <3>5. \A i \in 0..n : l[i] = IF i = 0 THEN <<"STREAM">>
                                 ELSE l[i-1] \o Parents(fs[i].return_state)
      <4> HIDE DEF l
      <4>0. below[0] = <<"STREAM">>
        BY <3>1, <3>3, LevelsEntries
      <4>1. l[0] = <<"STREAM">>
        BY <3>1, <3>4, <4>0
      <4>2. ASSUME NEW i \in 1..n-1
            PROVE  l[i] = l[i-1] \o Parents(fs[i].return_state)
        <5>1. l[i] = below[i] /\ l[i-1] = below[i-1] /\ low[i] = fs[i] /\ i \in 1..Len(low)
          BY <3>1, <3>4
        <5>2. below[i] = below[i-1] \o Parents(low[i].return_state)
          BY <3>1, <3>3, <5>1, LevelsEntries
        <5> QED BY <5>1, <5>2
      <4>3. n - 1 \in 0..n-1
        BY <3>1
      <4>4. l[n] = l[n-1] \o Parents(fs[n].return_state)
        BY <3>4, <4>3
      <4> HIDE DEF T
      <4> SUFFICES ASSUME NEW i \in 0..n
                   PROVE  l[i] = IF i = 0 THEN <<"STREAM">>
                                 ELSE l[i-1] \o Parents(fs[i].return_state)
        OBVIOUS
      <4>5. i = 0 \/ i \in 1..n-1 \/ (i = n /\ i # 0)
        BY <2>4, <3>1
      <4>6. i \in 1..n-1 => i # 0
        BY <3>1
      <4> QED BY <4>1, <4>2, <4>4, <4>5, <4>6
    <3>6. l = [i \in 0..n |-> l[i]]
      OBVIOUS
    <3> HIDE DEF l
    <3>7. IsLevels(fs, l)
      BY <2>2, <3>5, <3>6 DEF IsLevels
    <3> QED BY <2>2, <3>7
  <2> QED BY <2>3, <2>4
<1>2. Len(frames) \notin T
  BY <1>1
<1> QED BY <1>2

\* So its last value is what Levels says.
LEMMA LevelsIs ==
  ASSUME NEW frames \in Seq(Frame), NEW levels, IsLevels(frames, levels)
  PROVE  Levels(frames) = levels[Len(frames)]
<1> DEFINE chosen == CHOOSE l : IsLevels(frames, l)
<1>1. IsLevels(frames, chosen)
  OBVIOUS
<1>2. Levels(frames) = chosen[Len(frames)]
  BY DEF Levels, IsLevels
<1> HIDE DEF chosen
<1> QED BY <1>1, <1>2, LevelsUnique

\* Before the first frame the stream is open.
LEMMA LevelsEmpty == Levels(<<>>) = <<"STREAM">>
<1>0. <<>> \in Seq(Frame) /\ Len(<<>>) = 0
  OBVIOUS
<1>1. PICK levels : IsLevels(<<>>, levels)
  BY <1>0, LevelsExist
<1>2. levels[0] = <<"STREAM">>
  BY <1>0, <1>1, LevelsEntries
<1> QED BY <1>0, <1>1, <1>2, LevelsIs

\* A frame adds the levels of its parent.
LEMMA LevelsAppend ==
  ASSUME NEW frames \in Seq(Frame), NEW f \in Frame
  PROVE  Levels(Append(frames, f)) = Levels(frames) \o Parents(f.return_state)
<1> DEFINE more == Append(frames, f)
           n == Len(frames)
<1>2. /\ n \in Nat /\ more \in Seq(Frame) /\ Len(more) = n + 1 /\ more[n+1] = f
      /\ \A i \in 1..n : more[i] = frames[i]
  OBVIOUS
<1> HIDE DEF more
<1>1. PICK levels : IsLevels(more, levels)
  BY <1>2, LevelsExist
<1>3. levels[n+1] = levels[n] \o Parents(f.return_state)
  <2>2. \A i \in 1..Len(more) : levels[i] = levels[i-1] \o Parents(more[i].return_state)
    BY <1>1, <1>2, LevelsEntries
  <2>3. PICK k \in 1..Len(more) : k = n + 1 /\ k - 1 = n
    BY <1>2
  <2>4. levels[k] = levels[k-1] \o Parents(more[k].return_state)
    BY <2>2, <2>3
  <2> QED BY <1>2, <2>3, <2>4
<1> DEFINE low == [i \in 0..n |-> levels[i]]
<1>4. \A i \in 0..n : low[i] = IF i = 0 THEN <<"STREAM">>
                               ELSE low[i-1] \o Parents(frames[i].return_state)
  BY <1>1, <1>2, LevelsEntries
<1>5. low = [i \in 0..n |-> low[i]] /\ low[n] = levels[n]
  BY <1>2
<1> HIDE DEF low
<1>6. IsLevels(frames, low)
  BY <1>4, <1>5 DEF IsLevels
<1> HIDE DEF n
<1>7. Levels(frames) = levels[n]
  BY <1>5, <1>6, LevelsIs DEF n
<1>8. Levels(more) = levels[n+1]
  BY <1>1, <1>2, LevelsIs
<1> QED BY <1>3, <1>7, <1>8 DEF more

\* What is below the last frame, and what that frame adds.
LEMMA LevelsBelow ==
  ASSUME NEW frames \in Seq(Frame), frames # <<>>
  PROVE  /\ SubSeq(frames, 1, Len(frames) - 1) \in Seq(Frame)
         /\ Len(SubSeq(frames, 1, Len(frames) - 1)) = Len(frames) - 1
         /\ frames[Len(frames)] \in Frame
         /\ Levels(frames) = Levels(SubSeq(frames, 1, Len(frames) - 1))
                               \o Parents(frames[Len(frames)].return_state)
<1> DEFINE below == SubSeq(frames, 1, Len(frames) - 1)
           last == frames[Len(frames)]
<1>1. below \in Seq(Frame) /\ Len(below) = Len(frames) - 1 /\ last \in Frame
  <2> DEFINE n == Len(frames)
  <2>1. n \in Nat /\ n - 1 \in Nat /\ n \in 1..Len(frames)
    OBVIOUS
  <2>2. ASSUME NEW k \in Nat, k <= Len(frames)
        PROVE  SubSeq(frames, 1, k) \in Seq(Frame) /\ Len(SubSeq(frames, 1, k)) = k
    BY <2>2
  <2>3. frames[n] \in Frame
    BY <2>1
  <2>4. n - 1 <= Len(frames)
    BY <2>1
  <2> QED BY <2>1, <2>2, <2>3, <2>4
<1>2. frames = Append(below, last)
  <2> DEFINE n == Len(frames)
             more == Append(below, last)
  <2>1. n \in Nat /\ n > 0 /\ \A i \in 1..n-1 : below[i] = frames[i]
    OBVIOUS
  <2> HIDE DEF below, last
  <2>2. /\ more \in Seq(Frame) /\ Len(more) = n /\ more[n] = last
        /\ \A i \in 1..n-1 : more[i] = below[i]
    BY <1>1, <2>1
  <2>3. \A i \in 1..n : i \in 1..n-1 \/ i = n
    BY <2>1
  <2>4. \A i \in 1..n : frames[i] = more[i]
    BY <2>1, <2>2, <2>3 DEF last
  <2> HIDE DEF more
  <2>5. frames = more
    BY <2>2, <2>4, SeqEqual
  <2> QED BY <2>5 DEF more
<1> HIDE DEF below, last
<1>3. Levels(frames) = Levels(below) \o Parents(last.return_state)
  BY <1>1, <1>2, LevelsAppend
<1> QED BY <1>1, <1>3 DEF below, last

-----------------------------------------------------------------------------
(***************************************************************************)
(* The levels that may be open.  The stream's is below a document's, and   *)
(* the depth limit bounds the rest: each frame adds at most two levels,    *)
(* and a state knows of at most two more.                                  *)
(***************************************************************************)

Room ==
  {levels \in Seq(Stream!Level) :
     /\ levels # <<>>
     /\ levels[1] \in {"BEGIN", "STREAM", "END"}
     /\ Len(levels) >= 2 => levels[2] \in {"DOC", "DOC_DONE"}
     /\ MaxDepth > 0 => Len(levels) <= 2 * MaxDepth + 2}

\* Only the root's frame returns to the end of the document.
FramesPlaced(frames) ==
  \A i \in 1..Len(frames) :
    /\ frames[i].return_state # "STREAM_START"
    /\ (frames[i].return_state = "DOC_END_EXPLICIT") <=> (i = 1)

\* A frame adds one level or two.
LEMMA ParentsShape ==
  ASSUME NEW return_state \in ReturnState
  PROVE  /\ Parents(return_state) \in Seq(Stream!Level)
         /\ Len(Parents(return_state)) \in 0..2
         /\ return_state = "DOC_END_EXPLICIT" => Parents(return_state) = <<"DOC_DONE">>
<1>1. Parents(return_state) \in
        {<<>>, <<"DOC_DONE">>, <<"VALUE">>, <<"KEY">>, <<"SEQ">>, <<"SEQ", "KEY">>,
         <<"SEQ", "VALUE">>}
  BY DEF Parents
<1>2. return_state = "DOC_END_EXPLICIT" => Parents(return_state) = <<"DOC_DONE">>
  BY DEF Parents
<1>3. {"DOC_DONE", "VALUE", "KEY", "SEQ"} \subseteq Stream!Level
  BY DEF Stream!Level
<1>4. /\ <<>> \in Seq(Stream!Level) /\ Len(<<>>) \in 0..2
      /\ \A x \in Stream!Level : <<x>> \in Seq(Stream!Level) /\ Len(<<x>>) \in 0..2
      /\ \A x, y \in Stream!Level :
           <<x, y>> \in Seq(Stream!Level) /\ Len(<<x, y>>) \in 0..2
  OBVIOUS
<1> QED BY <1>1, <1>2, <1>3, <1>4

\* The levels of frames that are placed.
Shape(frames, levels) ==
  /\ levels \in Seq(Stream!Level)
  /\ Len(levels) >= 1 /\ levels[1] = "STREAM"
  /\ frames = <<>> => Len(levels) = 1
  /\ frames # <<>> => Len(levels) >= 2 /\ levels[2] = "DOC_DONE"
                      /\ Len(levels) <= 2 * Len(frames)

\* The stream's level is at the bottom and the root's above it, and no frame
\* adds more than two.
LEMMA LevelsShape ==
  ASSUME NEW frames \in Seq(Frame), FramesPlaced(frames)
  PROVE  Shape(frames, Levels(frames))
<1> DEFINE T == {n \in Nat : \E fs \in Seq(Frame) : /\ Len(fs) = n /\ FramesPlaced(fs)
                                                    /\ ~Shape(fs, Levels(fs))}
<1>1. ASSUME T # {} PROVE FALSE
  <2>1. PICK n \in T : \A m \in T : n <= m
    <3>1. T \in SUBSET Nat
      OBVIOUS
    <3> HIDE DEF T
    <3> QED BY <1>1, <3>1, NatMin
  <2>2. PICK fs \in Seq(Frame) : Len(fs) = n /\ FramesPlaced(fs) /\ ~Shape(fs, Levels(fs))
    BY <2>1
  <2>3. CASE fs = <<>>
    <3>1. Levels(fs) = <<"STREAM">>
      BY <2>3, LevelsEmpty
    <3>2. Shape(<<>>, <<"STREAM">>)
      BY DEF Shape, Stream!Level
    <3> QED BY <2>2, <2>3, <3>1, <3>2
  <2>4. CASE fs # <<>>
    <3> DEFINE low == SubSeq(fs, 1, n - 1)
               w == Parents(fs[n].return_state)
    <3>1. /\ n \in Nat /\ n > 0 /\ low \in Seq(Frame) /\ Len(low) = n - 1
          /\ \A i \in 1..n-1 : low[i] = fs[i]
          /\ fs[n] \in Frame
      BY <2>1, <2>2, <2>4
    <3>2. Levels(fs) = Levels(low) \o w
      BY <2>2, <2>4, LevelsBelow
    <3>3. FramesPlaced(low)
      BY <2>2, <3>1 DEF FramesPlaced
    <3>4. n - 1 \notin T /\ n - 1 \in Nat
      BY <2>1, <3>1
    <3>5. Shape(low, Levels(low))
      <4> HIDE DEF low
      <4> QED BY <3>1, <3>3, <3>4
    <3>6. /\ w \in Seq(Stream!Level) /\ Len(w) \in 0..2
          /\ n = 1 => w = <<"DOC_DONE">>
      <4>1. fs[n].return_state \in ReturnState
        BY <3>1 DEF Frame
      <4>2. n = 1 => fs[n].return_state = "DOC_END_EXPLICIT"
        BY <2>2, <3>1 DEF FramesPlaced
      <4> QED BY <4>1, <4>2, ParentsShape
    <3> HIDE DEF w, low
    <3> DEFINE l == Levels(low)
    <3>7. /\ l \in Seq(Stream!Level) /\ Len(l) \in Nat /\ Len(l) >= 1 /\ l[1] = "STREAM"
          /\ n = 1 => Len(l) = 1
          /\ n # 1 => Len(l) >= 2 /\ l[2] = "DOC_DONE" /\ Len(l) <= 2 * (n - 1)
      BY <3>1, <3>5 DEF Shape
    <3>8. Levels(fs) = l \o w
      BY <3>2
    <3> HIDE DEF l
    <3>9. /\ l \o w \in Seq(Stream!Level) /\ Len(l \o w) = Len(l) + Len(w)
          /\ (l \o w)[1] = "STREAM"
          /\ n = 1 => (l \o w)[2] = w[1]
          /\ n # 1 => (l \o w)[2] = l[2]
      BY <3>6, <3>7
    <3>10. n = 1 => w[1] = "DOC_DONE" /\ Len(w) = 1
      BY <3>6
    <3>11. ASSUME NEW x \in Nat, NEW y \in 0..2, x >= 1, n = 1 => x = 1 /\ y = 1,
                  n # 1 => x >= 2 /\ x <= 2 * (n - 1)
           PROVE  x + y >= 2 /\ x + y <= 2 * n
      BY <3>1, <3>11
    <3>12. Len(l) + Len(w) >= 2 /\ Len(l) + Len(w) <= 2 * n
      BY <3>6, <3>7, <3>10, <3>11
    <3>13. (l \o w)[2] = "DOC_DONE"
      BY <3>7, <3>9, <3>10
    <3>14. Len(l \o w) >= 1
      BY <3>1, <3>9, <3>12
    <3> QED BY <2>2, <2>4, <3>8, <3>9, <3>12, <3>13, <3>14 DEF Shape
  <2> QED BY <2>3, <2>4
<1>2. Len(frames) \notin T
  BY <1>1
<1> QED BY <1>2

\* What a state may know to be open beyond the frames.
Fits(frames, w) ==
  /\ w \in Seq(Stream!Level) /\ Len(w) <= 2
  /\ frames = <<>> /\ w # <<>> => w[1] \in {"DOC", "DOC_DONE"}

\* There is room for it.
LEMMA FitsRoom ==
  ASSUME NEW frames \in Seq(Frame), FramesPlaced(frames),
         MaxDepth > 0 => Len(frames) <= MaxDepth,
         NEW w, Fits(frames, w)
  PROVE  Levels(frames) \o w \in Room
<1> DEFINE l == Levels(frames)
<1>1. Shape(frames, l)
  BY LevelsShape
<1> HIDE DEF l
<1>2. l \in Seq(Stream!Level) /\ Len(l) \in Nat /\ Len(l) >= 1 /\ l[1] = "STREAM"
  BY <1>1 DEF Shape
<1>3. w \in Seq(Stream!Level) /\ Len(w) \in Nat /\ Len(w) <= 2
  BY DEF Fits
<1>4. /\ l \o w \in Seq(Stream!Level) /\ Len(l \o w) = Len(l) + Len(w)
      /\ (l \o w)[1] = "STREAM" /\ l \o w # <<>>
      /\ Len(l) = 1 /\ Len(l \o w) >= 2 => (l \o w)[2] = w[1] /\ w # <<>>
      /\ Len(l) >= 2 => (l \o w)[2] = l[2]
  BY <1>2, <1>3
<1>5. ASSUME NEW x \in Nat, NEW y \in Nat, y <= 2, NEW k \in Nat, x <= 2 * k \/ x = 1,
             MaxDepth > 0 => k <= MaxDepth
      PROVE  MaxDepth > 0 => x + y <= 2 * MaxDepth + 2
  BY <1>5, LimitsAssumption
<1>6. Len(l) <= 2 * Len(frames) \/ Len(l) = 1
  BY <1>1 DEF Shape
<1>7. MaxDepth > 0 => Len(l \o w) <= 2 * MaxDepth + 2
  <2>1. Len(frames) \in Nat
    OBVIOUS
  <2> QED BY <1>2, <1>3, <1>4, <1>5, <1>6, <2>1
<1>8. Len(l \o w) >= 2 => (l \o w)[2] \in {"DOC", "DOC_DONE"}
  <2>1. CASE frames = <<>>
    BY <1>1, <1>4, <2>1 DEF Shape, Fits
  <2>2. CASE frames # <<>>
    BY <1>1, <1>4, <2>2 DEF Shape
  <2> QED BY <2>1, <2>2
<1> QED BY <1>4, <1>7, <1>8 DEF Room, l

-----------------------------------------------------------------------------
(***************************************************************************)
(* Ways from what is open to what is open after some events, each of them  *)
(* accepted on the way.                                                    *)
(***************************************************************************)

Accepted(path, out) ==
  \A i \in 1..Len(out) :
    /\ out[i] \in Stream!Accepts(path[i-1])
    /\ path[i] = Stream!After(path[i-1], out[i])

Path(a, out, b) ==
  \E path \in [0..Len(out) -> Room] :
    path[0] = a /\ path[Len(out)] = b /\ Accepted(path, out)

\* No event changes nothing.
LEMMA PathNone ==
  ASSUME NEW a \in Room
  PROVE  Path(a, <<>>, a)
<1> DEFINE path == [i \in 0..Len(<<>>) |-> a]
<1>1. path \in [0..Len(<<>>) -> Room] /\ path[0] = a /\ path[Len(<<>>)] = a
  OBVIOUS
<1>2. Accepted(path, <<>>)
  BY DEF Accepted
<1> HIDE DEF path
<1> QED BY <1>1, <1>2 DEF Path

\* Both ends are levels there is room for.
LEMMA PathEnds ==
  ASSUME NEW out \in Seq(Stream!Event), NEW a, NEW b, Path(a, out, b)
  PROVE  a \in Room /\ b \in Room /\ (out = <<>> => b = a)
<1>1. PICK path \in [0..Len(out) -> Room] : path[0] = a /\ path[Len(out)] = b
  BY DEF Path
<1>2. 0 \in 0..Len(out) /\ Len(out) \in 0..Len(out)
  OBVIOUS
<1>3. out = <<>> => Len(out) = 0
  OBVIOUS
<1> QED BY <1>1, <1>2, <1>3

\* An accepted event goes on.
LEMMA PathAppend ==
  ASSUME NEW out \in Seq(Stream!Event), NEW a, NEW b, Path(a, out, b),
         NEW e \in Stream!Event, e \in Stream!Accepts(b), Stream!After(b, e) \in Room
  PROVE  Path(a, Append(out, e), Stream!After(b, e))
<1> DEFINE n == Len(out)
           more == Append(out, e)
           c == Stream!After(b, e)
<1>1. PICK path \in [0..n -> Room] : path[0] = a /\ path[n] = b /\ Accepted(path, out)
  BY DEF Path
<1>2. /\ n \in Nat /\ Len(more) = n + 1 /\ more[n+1] = e
      /\ \A i \in 1..n : more[i] = out[i]
  OBVIOUS
<1> HIDE DEF more, c
<1> DEFINE longer == [i \in 0..n+1 |-> IF i <= n THEN path[i] ELSE c]
<1>3. c \in Room
  BY DEF c
<1>4. longer \in [0..n+1 -> Room]
  BY <1>1, <1>2, <1>3
<1>5. longer[n+1] = c /\ \A i \in 0..n : longer[i] = path[i]
  BY <1>2
<1> HIDE DEF longer
<1>6. longer[0] = a /\ longer[n] = b
  BY <1>1, <1>2, <1>5
<1>7. ASSUME NEW i \in 1..n+1
      PROVE  more[i] \in Stream!Accepts(longer[i-1]) /\ longer[i] = Stream!After(longer[i-1], more[i])
  <2>1. CASE i \in 1..n
    <3>1. more[i] = out[i] /\ longer[i] = path[i] /\ longer[i-1] = path[i-1]
      BY <1>2, <1>5, <2>1
    <3> QED BY <1>1, <2>1, <3>1 DEF Accepted
  <2>2. CASE i = n + 1
    <3>1. more[i] = e /\ longer[i] = c /\ longer[i-1] = b
      BY <1>2, <1>5, <1>6, <2>2
    <3> QED BY <3>1 DEF c
  <2> QED BY <1>2, <2>1, <2>2
<1>8. Accepted(longer, more)
  BY <1>2, <1>7 DEF Accepted
<1> HIDE DEF n
<1>9. Path(a, more, c)
  BY <1>2, <1>4, <1>5, <1>6, <1>8 DEF Path
<1> QED BY <1>9 DEF more, c

\* The first of the events go part of the way.
LEMMA PathPrefix ==
  ASSUME NEW out \in Seq(Stream!Event), NEW a, NEW b, Path(a, out, b),
         NEW k \in Nat, k <= Len(out)
  PROVE  \E c : Path(a, SubSeq(out, 1, k), c)
<1> DEFINE n == Len(out)
           fewer == SubSeq(out, 1, k)
<1>1. PICK path \in [0..n -> Room] : path[0] = a /\ Accepted(path, out)
  BY DEF Path
<1>2. n \in Nat /\ Len(fewer) = k /\ \A i \in 1..k : fewer[i] = out[i]
  OBVIOUS
<1> DEFINE shorter == [i \in 0..k |-> path[i]]
<1> HIDE DEF n, fewer
<1>3. shorter \in [0..k -> Room]
  BY <1>1, <1>2 DEF n
<1>4. \A i \in 0..k : shorter[i] = path[i]
  OBVIOUS
<1> HIDE DEF shorter
<1>5. shorter[0] = a
  BY <1>1, <1>4
<1>6. Accepted(shorter, fewer)
  <2> SUFFICES ASSUME NEW i \in 1..Len(fewer)
               PROVE  /\ fewer[i] \in Stream!Accepts(shorter[i-1])
                      /\ shorter[i] = Stream!After(shorter[i-1], fewer[i])
    BY DEF Accepted
  <2>1. i \in 1..Len(out) /\ i \in 1..k /\ i \in 0..k /\ i - 1 \in 0..k
    BY <1>2 DEF n
  <2>2. fewer[i] = out[i] /\ shorter[i] = path[i] /\ shorter[i-1] = path[i-1]
    BY <1>2, <1>4, <2>1
  <2> QED BY <1>1, <2>1, <2>2 DEF Accepted
<1>7. Path(a, fewer, shorter[k])
  BY <1>2, <1>3, <1>5, <1>6 DEF Path
<1> QED BY <1>7 DEF fewer

\* The first event is accepted where the way starts, and the rest goes on.
LEMMA PathTail ==
  ASSUME NEW out \in Seq(Stream!Event), NEW a, NEW b, Path(a, out, b), out # <<>>
  PROVE  /\ Head(out) \in Stream!Accepts(a)
         /\ Path(Stream!After(a, Head(out)), Tail(out), b)
<1> DEFINE n == Len(out)
           rest == Tail(out)
           c == Stream!After(a, Head(out))
<1>1. PICK path \in [0..n -> Room] : path[0] = a /\ path[n] = b /\ Accepted(path, out)
  BY DEF Path
<1>2. /\ n \in Nat /\ n > 0 /\ Len(rest) = n - 1 /\ Head(out) = out[1]
      /\ \A i \in 1..n-1 : rest[i] = out[i+1]
  OBVIOUS
<1>3. out[1] \in Stream!Accepts(a) /\ path[1] = c
  <2>1. 1 \in 1..Len(out) /\ 1 - 1 = 0
    BY <1>2
  <2>2. out[1] \in Stream!Accepts(path[0]) /\ path[1] = Stream!After(path[0], out[1])
    BY <1>1, <2>1 DEF Accepted
  <2> QED BY <1>1, <1>2, <2>2
<1> HIDE DEF n, rest, c
<1> DEFINE later == [i \in 0..n-1 |-> path[i+1]]
<1>4. later \in [0..n-1 -> Room]
  BY <1>1, <1>2
<1>5. \A i \in 0..n-1 : later[i] = path[i+1]
  OBVIOUS
<1> HIDE DEF later
<1>6. later[0] = c /\ later[n-1] = b
  BY <1>1, <1>2, <1>3, <1>5
<1>7. Accepted(later, rest)
  <2> SUFFICES ASSUME NEW i \in 1..Len(rest)
               PROVE  /\ rest[i] \in Stream!Accepts(later[i-1])
                      /\ later[i] = Stream!After(later[i-1], rest[i])
    BY DEF Accepted
  <2>1. PICK j \in 1..Len(out) : j = i + 1 /\ j - 1 = i /\ i \in 1..n-1 /\ i \in 0..n-1
                                 /\ i - 1 \in 0..n-1 /\ i - 1 + 1 = i
    BY <1>2 DEF n
  <2>2. rest[i] = out[j] /\ later[i] = path[j] /\ later[i-1] = path[j-1]
    <3>1. later[i-1] = path[i]
      BY <1>5, <2>1
    <3> QED BY <1>2, <1>5, <2>1, <3>1
  <2> QED BY <1>1, <2>1, <2>2 DEF Accepted
<1>8. Path(c, rest, b)
  BY <1>2, <1>4, <1>6, <1>7 DEF Path
<1> QED BY <1>2, <1>3, <1>8 DEF rest, c

\* The function AfterAll defines.
IsAfter(start, out, levels) ==
  levels = [i \in 0..Len(out) |->
             IF i = 0 THEN start ELSE Stream!After(levels[i-1], out[i])]

\* A way ends at what is open after its events.
LEMMA PathAfter ==
  ASSUME NEW out \in Seq(Stream!Event), NEW a, NEW b, Path(a, out, b)
  PROVE  AfterAll(a, out) = b
<1> DEFINE n == Len(out)
<1>0. n \in Nat
  OBVIOUS
<1>1. PICK path \in [0..n -> Room] : path[0] = a /\ path[n] = b /\ Accepted(path, out)
  BY DEF Path
<1>2. IsAfter(a, out, path)
  <2>1. \A i \in 0..n : path[i] = IF i = 0 THEN a ELSE Stream!After(path[i-1], out[i])
    <3> SUFFICES ASSUME NEW i \in 0..n, i # 0 PROVE path[i] = Stream!After(path[i-1], out[i])
      BY <1>1
    <3>1. i \in 1..Len(out)
      BY <1>0
    <3> QED BY <1>1, <3>1 DEF Accepted
  <2>2. path = [i \in 0..n |-> path[i]]
    BY <1>1
  <2> QED BY <2>1, <2>2 DEF IsAfter
<1> DEFINE chosen == CHOOSE levels : IsAfter(a, out, levels)
<1>3. IsAfter(a, out, chosen)
  BY <1>2
<1>4. AfterAll(a, out) = chosen[n]
  BY DEF AfterAll, IsAfter
<1> HIDE DEF chosen
<1>5. chosen[0] = a /\ \A i \in 1..n : chosen[i] = Stream!After(chosen[i-1], out[i])
  <2> DEFINE v(i) == IF i = 0 THEN a ELSE Stream!After(chosen[i-1], out[i])
  <2>1. chosen = [i \in 0..n |-> v(i)]
    BY <1>3 DEF IsAfter
  <2>2. \A i \in 0..n : chosen[i] = v(i)
    <3> HIDE DEF v, n
    <3> SUFFICES ASSUME NEW i \in 0..n PROVE chosen[i] = v(i)
      OBVIOUS
    <3>1. [j \in 0..n |-> v(j)][i] = v(i)
      OBVIOUS
    <3> QED BY <2>1, <3>1
  <2>3. chosen[0] = a
    BY <1>0, <2>2
  <2>4. ASSUME NEW i \in 1..n PROVE chosen[i] = Stream!After(chosen[i-1], out[i])
    <3>1. i \in 0..n /\ i # 0
      BY <1>0
    <3> QED BY <2>2, <3>1
  <2> QED BY <2>3, <2>4
<1> DEFINE T == {i \in 0..n : chosen[i] # path[i]}
<1>6. ASSUME T # {} PROVE FALSE
  <2>1. T \in SUBSET Nat
    BY <1>0
  <2>2. PICK i \in T : \A j \in T : i <= j
    <3> HIDE DEF T
    <3> QED BY <1>6, <2>1, NatMin
  <2>3. i \in 1..n /\ i - 1 \in 0..n /\ ~(i <= i - 1)
    BY <1>0, <1>1, <1>5, <2>2
  <2>4. chosen[i-1] = path[i-1]
    BY <2>2, <2>3
  <2>5. /\ chosen[i] = Stream!After(chosen[i-1], out[i])
        /\ path[i] = Stream!After(path[i-1], out[i])
    BY <1>1, <1>5, <2>3 DEF Accepted
  <2> QED BY <2>2, <2>4, <2>5
<1>7. chosen[n] = path[n]
  BY <1>0, <1>6
<1> QED BY <1>1, <1>4, <1>7

-----------------------------------------------------------------------------
(***************************************************************************)
(* What single events do to the levels.                                    *)
(***************************************************************************)

\* The levels a node may start at.
Waiting == {"DOC", "SEQ", "KEY", "VALUE"}

\* An event only looks at the last level.
LEMMA LastLevel ==
  ASSUME NEW l \in Seq(Stream!Level), NEW x \in Stream!Level
  PROVE  /\ Stream!Top(Append(l, x)) = x
         /\ Stream!Below(Append(l, x)) = l
         /\ [Append(l, x) EXCEPT ![Len(Append(l, x))] = Stream!AfterNode(@)]
              = Append(l, Stream!AfterNode(x))
<1> DEFINE n == Len(l)
           m == Append(l, x)
           y == Stream!AfterNode(x)
<1>1. /\ n \in Nat /\ m \in Seq(Stream!Level) /\ Len(m) = n + 1 /\ m[n+1] = x
      /\ \A i \in 1..n : m[i] = l[i]
  OBVIOUS
<1>2. y \in Stream!Level
  BY DEF Stream!AfterNode, Stream!Level
<1> HIDE DEF m, y
<1>3. Stream!Top(m) = x
  BY <1>1 DEF Stream!Top
<1>4. SubSeq(m, 1, n) = l
  <2>1. /\ SubSeq(m, 1, n) \in Seq(Stream!Level) /\ Len(SubSeq(m, 1, n)) = n
        /\ \A i \in 1..n : SubSeq(m, 1, n)[i] = m[i]
    BY <1>1
  <2>2. \A i \in 1..n : SubSeq(m, 1, n)[i] = l[i]
    BY <1>1, <2>1
  <2> DEFINE s == SubSeq(m, 1, n)
  <2> HIDE DEF s
  <2>3. s = l
    BY <1>1, <2>1, <2>2, SeqEqual DEF s
  <2> QED BY <2>3 DEF s
<1>5. Stream!Below(m) = l
  BY <1>1, <1>4 DEF Stream!Below
<1>6. [m EXCEPT ![n+1] = y] = Append(l, y)
  <2> DEFINE s == [m EXCEPT ![n+1] = y]
             t == Append(l, y)
  <2>1. n + 1 \in 1..Len(m)
    BY <1>1
  <2>2. /\ s \in Seq(Stream!Level) /\ Len(s) = n + 1
        /\ \A i \in 1..n+1 : s[i] = IF i = n + 1 THEN y ELSE m[i]
    BY <1>1, <1>2, <2>1, ExceptSeq
  <2>3. /\ t \in Seq(Stream!Level) /\ Len(t) = n + 1 /\ t[n+1] = y
        /\ \A i \in 1..n : t[i] = l[i]
    BY <1>1, <1>2
  <2> HIDE DEF s, t
  <2>4. \A i \in 1..n+1 : i = n + 1 \/ i \in 1..n
    BY <1>1
  <2>5. \A i \in 1..n+1 : s[i] = t[i]
    BY <1>1, <2>2, <2>3, <2>4
  <2>6. s = t
    BY <2>2, <2>3, <2>5, SeqEqual
  <2> QED BY <2>6 DEF s, t
<1>7. [m EXCEPT ![Len(m)] = Stream!AfterNode(@)] = Append(l, y)
  BY <1>1, <1>6 DEF y
<1> QED BY <1>3, <1>5, <1>7 DEF m, y

\* A scalar or an alias, and a collection's start, are a node of the last level.
LEMMA NodeStep ==
  ASSUME NEW l \in Seq(Stream!Level), NEW x \in Waiting
  PROVE  /\ \A e \in Stream!Leaf :
              /\ e \in Stream!Accepts(Append(l, x))
              /\ Stream!After(Append(l, x), e) = Append(l, Stream!AfterNode(x))
         /\ "SEQUENCE_START" \in Stream!Accepts(Append(l, x))
         /\ "MAPPING_START" \in Stream!Accepts(Append(l, x))
         /\ Stream!After(Append(l, x), "SEQUENCE_START")
              = Append(Append(l, Stream!AfterNode(x)), "SEQ")
         /\ Stream!After(Append(l, x), "MAPPING_START")
              = Append(Append(l, Stream!AfterNode(x)), "KEY")
<1> DEFINE m == Append(l, x)
           t == Append(l, Stream!AfterNode(x))
<1>1. Stream!Top(m) = x /\ [m EXCEPT ![Len(m)] = Stream!AfterNode(@)] = t
  BY LastLevel DEF Waiting, Stream!Level
<1>2. Stream!NodeStart \subseteq Stream!Accepts(m)
  BY <1>1 DEF Stream!Accepts, Waiting
<1>3. \A e \in Stream!Leaf : Stream!After(m, e) = t
  BY <1>1 DEF Stream!After, Stream!Leaf
<1>4. /\ Stream!After(m, "SEQUENCE_START") = Append(t, "SEQ")
      /\ Stream!After(m, "MAPPING_START") = Append(t, "KEY")
  <2> HIDE DEF m, t
  <2> QED BY <1>1 DEF Stream!After, Stream!Leaf
<1> HIDE DEF m, t
<1>5. /\ \A e \in Stream!Leaf : e \in Stream!Accepts(m) /\ Stream!After(m, e) = t
      /\ "SEQUENCE_START" \in Stream!Accepts(m) /\ "MAPPING_START" \in Stream!Accepts(m)
  BY <1>2, <1>3 DEF Stream!NodeStart
<1> QED BY <1>4, <1>5 DEF m, t

\* A collection's end, and a document's, close the last level.
LEMMA EndStep ==
  ASSUME NEW l \in Seq(Stream!Level)
  PROVE  /\ "SEQUENCE_END" \in Stream!Accepts(Append(l, "SEQ"))
         /\ Stream!After(Append(l, "SEQ"), "SEQUENCE_END") = l
         /\ "MAPPING_END" \in Stream!Accepts(Append(l, "KEY"))
         /\ Stream!After(Append(l, "KEY"), "MAPPING_END") = l
         /\ "DOC_END" \in Stream!Accepts(Append(l, "DOC_DONE"))
         /\ Stream!After(Append(l, "DOC_DONE"), "DOC_END") = l
<1>1. \A x \in {"SEQ", "KEY", "DOC_DONE"} :
        Stream!Top(Append(l, x)) = x /\ Stream!Below(Append(l, x)) = l
  BY LastLevel DEF Stream!Level
<1>2. ASSUME NEW e \in {"SEQUENCE_END", "MAPPING_END", "DOC_END"}, NEW m
      PROVE  Stream!After(m, e) = Stream!Below(m)
  <2>1. /\ e \notin {"STREAM_START", "STREAM_END", "DOC_START", "SEQUENCE_START",
                    "MAPPING_START"}
        /\ e \notin Stream!Leaf
    BY <1>2 DEF Stream!Leaf
  <2> QED BY <2>1 DEF Stream!After
<1>3. /\ "SEQUENCE_END" \in Stream!Accepts(Append(l, "SEQ"))
      /\ "MAPPING_END" \in Stream!Accepts(Append(l, "KEY"))
      /\ "DOC_END" \in Stream!Accepts(Append(l, "DOC_DONE"))
  BY <1>1 DEF Stream!Accepts
<1> QED BY <1>1, <1>2, <1>3

\* What is open beyond the frames before a node and after it.
Advanced(w, v) ==
  \/ \E x \in Waiting : w = <<x>> /\ v = <<Stream!AfterNode(x)>>
  \/ \E x \in Waiting : w = <<"SEQ", x>> /\ v = <<"SEQ", Stream!AfterNode(x)>>

\* Every value it takes.
LEMMA Advances ==
  /\ Advanced(<<"DOC">>, <<"DOC_DONE">>) /\ Advanced(<<"SEQ">>, <<"SEQ">>)
  /\ Advanced(<<"KEY">>, <<"VALUE">>) /\ Advanced(<<"VALUE">>, <<"KEY">>)
  /\ Advanced(<<"SEQ", "KEY">>, <<"SEQ", "VALUE">>)
  /\ Advanced(<<"SEQ", "VALUE">>, <<"SEQ", "KEY">>)
<1>1. /\ Stream!AfterNode("DOC") = "DOC_DONE" /\ Stream!AfterNode("SEQ") = "SEQ"
      /\ Stream!AfterNode("KEY") = "VALUE" /\ Stream!AfterNode("VALUE") = "KEY"
  BY DEF Stream!AfterNode
<1>2. {"DOC", "SEQ", "KEY", "VALUE"} \subseteq Waiting
  BY DEF Waiting
<1>3. \A x \in Waiting : /\ Advanced(<<x>>, <<Stream!AfterNode(x)>>)
                         /\ Advanced(<<"SEQ", x>>, <<"SEQ", Stream!AfterNode(x)>>)
  BY DEF Advanced
<1> QED BY <1>1, <1>2, <1>3

\* A node's start advances what awaited it to what its frame stands for.
LEMMA AwaitingAdvances ==
  ASSUME NEW return_state \in ReturnState, return_state # "STREAM_START"
  PROVE  Advanced(Awaiting(return_state), Parents(return_state))
<1>1. \/ Awaiting(return_state) = <<"DOC">> /\ Parents(return_state) = <<"DOC_DONE">>
      \/ Awaiting(return_state) = <<"SEQ">> /\ Parents(return_state) = <<"SEQ">>
      \/ Awaiting(return_state) = <<"KEY">> /\ Parents(return_state) = <<"VALUE">>
      \/ Awaiting(return_state) = <<"VALUE">> /\ Parents(return_state) = <<"KEY">>
      \/ Awaiting(return_state) = <<"SEQ", "KEY">>
         /\ Parents(return_state) = <<"SEQ", "VALUE">>
      \/ Awaiting(return_state) = <<"SEQ", "VALUE">>
         /\ Parents(return_state) = <<"SEQ", "KEY">>
  BY DEF Awaiting, Parents, ReturnState
<1> QED BY <1>1, Advances

\* Words of levels beyond the frames.
LEMMA Words ==
  ASSUME NEW l \in Seq(Stream!Level), NEW x \in Stream!Level, NEW y \in Stream!Level
  PROVE  /\ l \o <<x>> \in Seq(Stream!Level) /\ l \o <<x>> = Append(l, x)
         /\ l \o <<x, y>> = Append(Append(l, x), y)
         /\ l \o <<>> = l
         /\ Append(l, x) \in Seq(Stream!Level)
<1>1. l \o <<x>> = Append(l, x)
  BY AppendIsConcat
<1>2. l \o <<x, y>> = Append(Append(l, x), y)
  <2> DEFINE n == Len(l)
             s == l \o <<x, y>>
             t == Append(Append(l, x), y)
  <2>1. /\ n \in Nat /\ s \in Seq(Stream!Level) /\ Len(s) = n + 2
        /\ s[n+1] = x /\ s[n+2] = y /\ \A i \in 1..n : s[i] = l[i]
    OBVIOUS
  <2>2. /\ t \in Seq(Stream!Level) /\ Len(t) = n + 2
        /\ t[n+1] = x /\ t[n+2] = y /\ \A i \in 1..n : t[i] = l[i]
    OBVIOUS
  <2> HIDE DEF s, t
  <2>3. \A i \in 1..n+2 : i \in 1..n \/ i = n + 1 \/ i = n + 2
    BY <2>1
  <2>4. \A i \in 1..n+2 : s[i] = t[i]
    BY <2>1, <2>2, <2>3
  <2>5. s = t
    BY <2>1, <2>2, <2>4, SeqEqual
  <2> QED BY <2>5 DEF s, t
<1>3. l \o <<>> = l
  BY ConcatEmptySeq
<1> QED BY <1>1, <1>2, <1>3

\* A scalar or an alias advances them; a collection's start does, and opens
\* one more.
LEMMA AdvancedStep ==
  ASSUME NEW l \in Seq(Stream!Level), NEW w, NEW v, Advanced(w, v)
  PROVE  /\ l \o v \in Seq(Stream!Level)
         /\ \A e \in Stream!Leaf :
              e \in Stream!Accepts(l \o w) /\ Stream!After(l \o w, e) = l \o v
         /\ "SEQUENCE_START" \in Stream!Accepts(l \o w)
         /\ "MAPPING_START" \in Stream!Accepts(l \o w)
         /\ Stream!After(l \o w, "SEQUENCE_START") = Append(l \o v, "SEQ")
         /\ Stream!After(l \o w, "MAPPING_START") = Append(l \o v, "KEY")
<1>1. PICK base \in Seq(Stream!Level), x \in Waiting :
        l \o w = Append(base, x) /\ l \o v = Append(base, Stream!AfterNode(x))
  <2>1. \A x \in Waiting : x \in Stream!Level /\ Stream!AfterNode(x) \in Stream!Level
    BY DEF Waiting, Stream!Level, Stream!AfterNode
  <2>2. "SEQ" \in Stream!Level
    BY DEF Stream!Level
  <2>3. CASE \E x \in Waiting : w = <<x>> /\ v = <<Stream!AfterNode(x)>>
    <3>1. PICK x \in Waiting : w = <<x>> /\ v = <<Stream!AfterNode(x)>>
      BY <2>3
    <3>2. l \o w = Append(l, x) /\ l \o v = Append(l, Stream!AfterNode(x))
      BY <2>1, <3>1, Words
    <3> QED BY <3>2
  <2>4. CASE \E x \in Waiting : w = <<"SEQ", x>> /\ v = <<"SEQ", Stream!AfterNode(x)>>
    <3>1. PICK x \in Waiting : w = <<"SEQ", x>> /\ v = <<"SEQ", Stream!AfterNode(x)>>
      BY <2>4
    <3>2. /\ l \o w = Append(Append(l, "SEQ"), x)
          /\ l \o v = Append(Append(l, "SEQ"), Stream!AfterNode(x))
      BY <2>1, <2>2, <3>1, Words
    <3>3. Append(l, "SEQ") \in Seq(Stream!Level)
      BY <2>2, Words
    <3> QED BY <3>2, <3>3
  <2> QED BY <2>3, <2>4 DEF Advanced
<1>2. Stream!AfterNode(x) \in Stream!Level
  BY DEF Waiting, Stream!Level, Stream!AfterNode
<1>3. l \o v \in Seq(Stream!Level)
  BY <1>1, <1>2, Words
<1> QED BY <1>1, <1>3, NodeStep

\* What fits beyond the frames still does after a node, and between a pair's
\* key and its end.
LEMMA AdvancedFits ==
  ASSUME NEW frames, NEW w, NEW v, Advanced(w, v), Fits(frames, w)
  PROVE  Fits(frames, v)
<1>1. \A x \in Waiting : x \in Stream!Level /\ Stream!AfterNode(x) \in Stream!Level
  BY DEF Waiting, Stream!Level, Stream!AfterNode
<1>2. CASE \E x \in Waiting : w = <<x>> /\ v = <<Stream!AfterNode(x)>>
  <2>1. PICK x \in Waiting : w = <<x>> /\ v = <<Stream!AfterNode(x)>>
    BY <1>2
  <2>2. w[1] = x /\ w # <<>> /\ v[1] = Stream!AfterNode(x)
    BY <2>1
  <2>3. v \in Seq(Stream!Level) /\ Len(v) <= 2
    BY <1>1, <2>1
  <2>4. frames = <<>> => v[1] \in {"DOC", "DOC_DONE"}
    BY <2>2 DEF Fits, Waiting, Stream!AfterNode
  <2> QED BY <2>3, <2>4 DEF Fits
<1>3. CASE \E x \in Waiting : w = <<"SEQ", x>> /\ v = <<"SEQ", Stream!AfterNode(x)>>
  <2>1. PICK x \in Waiting : w = <<"SEQ", x>> /\ v = <<"SEQ", Stream!AfterNode(x)>>
    BY <1>3
  <2>2. w[1] = "SEQ" /\ w # <<>>
    BY <2>1
  <2>3. "SEQ" \in Stream!Level
    BY DEF Stream!Level
  <2>4. v \in Seq(Stream!Level) /\ Len(v) <= 2
    BY <1>1, <2>1, <2>3
  <2>5. frames # <<>>
    BY <2>2 DEF Fits
  <2> QED BY <2>4, <2>5 DEF Fits
<1> QED BY <1>2, <1>3 DEF Advanced

-----------------------------------------------------------------------------
(***************************************************************************)
(* The record in the middle of a step.                                     *)
(***************************************************************************)

Bare(q) == ~q.has_anchor /\ ~q.has_tag

\* No properties are pending, if the parser goes on.
Clear(q) == q.stop_status = "NONE" => Bare(q)

\* Fields that only events and frames change.
Quiet(q, r) ==
  /\ r.frames = q.frames /\ r.state = q.state /\ r.node_return = q.node_return
  /\ r.doc_open = q.doc_open /\ r.out_buf = q.out_buf
  /\ r.stop_status = q.stop_status /\ r.events_delivered = q.events_delivered

\* q is the record q0 some way into the step, after at most n events.  w is
\* open beyond the frames, or the event limit has stopped the parser.
Way(a, q0, q, w, n) ==
  /\ Good(q) /\ FramesPlaced(q.frames)
  /\ q.frames = q0.frames /\ q.state = q0.state /\ q.node_return = q0.node_return
  /\ q.doc_open = q0.doc_open
  /\ Len(q.out_buf) <= n
  /\ \/ q.stop_status = "NONE" /\ Path(a, q.out_buf, Levels(q.frames) \o w)
     \/ /\ q.stop_status = "ERR_LIMIT" /\ AtEventLimit(q)
        /\ \E b : Path(a, q.out_buf, b)

\* What a step leaves alone on the way.
LEMMA WayFields ==
  ASSUME NEW a, NEW q0, NEW q, NEW w, NEW n, Way(a, q0, q, w, n)
  PROVE  /\ Good(q) /\ FramesPlaced(q.frames)
         /\ q.frames = q0.frames /\ q.state = q0.state /\ q.node_return = q0.node_return
         /\ q.doc_open = q0.doc_open
BY DEF Way

\* What changes neither frames nor events.
LEMMA QuietWay ==
  ASSUME NEW a, NEW q0, NEW q, NEW w, NEW n, Way(a, q0, q, w, n),
         NEW r, Good(r), Quiet(q, r)
  PROVE  Way(a, q0, r, w, n)
BY DEF Way, Quiet, AtEventLimit

\* A step may be looked at from any of its records on.
LEMMA Rebase ==
  ASSUME NEW a, NEW q0, NEW q, NEW w, NEW n, Way(a, q0, q, w, n), NEW r, Good(r),
         r.frames = q.frames, r.out_buf = q.out_buf, r.stop_status = q.stop_status,
         r.events_delivered = q.events_delivered
  PROVE  Way(a, r, r, w, n)
BY DEF Way, AtEventLimit

\* A peek.
LEMMA PeekQuiet ==
  ASSUME NEW q, Good(q)
  PROVE  /\ Quiet(q, Peek(q))
         /\ Peek(q).has_anchor = q.has_anchor /\ Peek(q).has_tag = q.has_tag
         /\ Peek(q).status = q.status
<1> DEFINE r == Scan(q.scanner)
<1>1. r.res \in {"OK", "ERROR", "STARVED"}
  <2>1. r \in ScanResult
    BY FieldTypes, ScanType
  <2> QED BY <2>1 DEF ScanResult
<1> HIDE DEF r
<1> QED BY <1>1 DEF Peek, Peeked, r, Good, ParserRecord, Quiet

\* It leaves the way as it was.
LEMMA PeekWay ==
  ASSUME NEW a, NEW q0, NEW q, NEW w, NEW n, Way(a, q0, q, w, n)
  PROVE  /\ Way(a, q0, Peek(q), w, n) /\ Good(Peek(q)) /\ Held(Peek(q))
         /\ Clear(q) => Clear(Peek(q))
<1>1. Good(q)
  BY DEF Way
<1>2. Good(Peek(q)) /\ Held(Peek(q)) /\ Quiet(q, Peek(q))
  BY <1>1, PeekGood, PeekQuiet
<1>3. Clear(q) => Clear(Peek(q))
  BY <1>1, PeekQuiet DEF Clear, Bare, Quiet
<1> QED BY <1>2, <1>3, QuietWay

\* Consuming the token.
LEMMA ConsumeWay ==
  ASSUME NEW a, NEW q0, NEW q, NEW w, NEW n, Way(a, q0, q, w, n)
  PROVE  /\ Way(a, q0, Consume(q), w, n)
         /\ Clear(q) => Clear(Consume(q))
<1>1. Good(q)
  BY DEF Way
<1>2. Quiet(q, Consume(q)) /\ (Clear(q) => Clear(Consume(q)))
  BY <1>1 DEF Consume, Good, ParserRecord, Quiet, Clear, Bare
<1> QED BY <1>1, <1>2, QuietWay, ConsumeGood

\* Attaching the properties to an event.
LEMMA AttachWay ==
  ASSUME NEW a, NEW q0, NEW q, NEW w, NEW n, Way(a, q0, q, w, n)
  PROVE  Way(a, q0, AttachProps(q), w, n) /\ Clear(AttachProps(q))
<1>1. Good(q)
  BY DEF Way
<1>2. Quiet(q, AttachProps(q)) /\ Clear(AttachProps(q))
  BY <1>1 DEF AttachProps, Good, ParserRecord, Quiet, Clear, Bare
<1> QED BY <1>1, <1>2, QuietWay, AttachPropsGood

\* A parse error.
LEMMA ParseErrorWay ==
  ASSUME NEW a, NEW q0, NEW q, NEW w, NEW n, Way(a, q0, q, w, n)
  PROVE  /\ Way(a, q0, ParseError(q), w, n)
         /\ Clear(q) => Clear(ParseError(q))
<1>1. Good(q)
  BY DEF Way
<1>2. Quiet(q, ParseError(q)) /\ (Clear(q) => Clear(ParseError(q)))
  BY <1>1 DEF ParseError, Good, ParserRecord, Quiet, Clear, Bare
<1> QED BY <1>1, <1>2, QuietWay, ParseErrorGood

\* Queuing an event.
LEMMA EmitQuiet ==
  ASSUME NEW q, Good(q), NEW e \in Stream!Event
  PROVE  LET r == Emit(q, e)
         IN  /\ r.frames = q.frames /\ r.state = q.state /\ r.node_return = q.node_return
             /\ r.doc_open = q.doc_open /\ r.events_delivered = q.events_delivered
             /\ r.has_anchor = q.has_anchor /\ r.has_tag = q.has_tag
             /\ r.stop_status = "NONE" => q.stop_status = "NONE"
BY DEF Emit, StopWith, Good, ParserRecord

\* An event that is accepted goes on, up to the event limit.
LEMMA EmitWay ==
  ASSUME NEW a, NEW q0, NEW q, NEW w, NEW n \in Nat, Way(a, q0, q, w, n), n < OutSize,
         NEW e \in Stream!Event, NEW v,
         e \in Stream!Accepts(Levels(q.frames) \o w),
         Stream!After(Levels(q.frames) \o w, e) = Levels(q.frames) \o v,
         Levels(q.frames) \o v \in Room
  PROVE  /\ Way(a, q0, Emit(q, e), v, n + 1)
         /\ Clear(q) => Clear(Emit(q, e))
<1> DEFINE r == Emit(q, e)
<1>1. Good(q) /\ Good(r) /\ q.out_buf \in Seq(Stream!Event) /\ Len(q.out_buf) \in Nat
      /\ Len(q.out_buf) <= n
  BY EmitGood, FieldTypes DEF Way
<1>2. /\ r.frames = q.frames /\ r.state = q.state /\ r.node_return = q.node_return
      /\ r.doc_open = q.doc_open /\ r.events_delivered = q.events_delivered
      /\ Clear(q) => Clear(r)
  BY <1>1, EmitQuiet DEF Clear, Bare
<1>3. CASE AtEventLimit(q)
  <2>1. r.stop_status = "ERR_LIMIT" /\ r.out_buf = q.out_buf
    BY <1>1, <1>3 DEF Emit, StopWith, Good, ParserRecord, Way
  <2>2. \E b : Path(a, q.out_buf, b)
    BY DEF Way
  <2>3. AtEventLimit(r) /\ Len(r.out_buf) <= n + 1
    BY <1>1, <1>2, <1>3, <2>1 DEF AtEventLimit
  <2> HIDE DEF r
  <2> QED BY <1>1, <1>2, <2>1, <2>2, <2>3 DEF Way, r
<1>4. CASE ~AtEventLimit(q)
  <2>1. q.stop_status = "NONE" /\ Path(a, q.out_buf, Levels(q.frames) \o w)
    BY <1>4 DEF Way
  <2>2. r = [q EXCEPT !.out_buf = Append(@, e)]
    BY <1>1, <1>4 DEF Emit, OutSize
  <2>3. r.stop_status = "NONE" /\ r.out_buf = Append(q.out_buf, e)
    BY <1>1, <2>1, <2>2 DEF Good, ParserRecord
  <2>4. Len(Append(q.out_buf, e)) <= n + 1
    BY <1>1
  <2>5. Path(a, Append(q.out_buf, e), Levels(q.frames) \o v)
    BY <1>1, <2>1, PathAppend
  <2> HIDE DEF r
  <2> QED BY <1>1, <1>2, <2>3, <2>4, <2>5 DEF Way, r
<1> QED BY <1>3, <1>4

\* The types a step's record keeps.
LEMMA WayTypes ==
  ASSUME NEW a, NEW q0, NEW q, NEW w, NEW n, Way(a, q0, q, w, n)
  PROVE  /\ Good(q) /\ q.frames \in Seq(Frame) /\ FramesPlaced(q.frames)
         /\ MaxDepth > 0 => Len(q.frames) <= MaxDepth
         /\ Levels(q.frames) \in Seq(Stream!Level)
<1>1. Good(q) /\ q.frames \in Seq(Frame) /\ FramesPlaced(q.frames)
      /\ (MaxDepth > 0 => Len(q.frames) <= MaxDepth)
  BY FieldTypes DEF Way, Good, Bounds
<1> QED BY <1>1, LevelsShape DEF Shape

\* The event of a scalar or an alias.
LEMMA LeafWay ==
  ASSUME NEW a, NEW q0, NEW q, NEW w, NEW n \in 0..7, Way(a, q0, q, w, n),
         NEW v, Advanced(w, v), Fits(q.frames, w), NEW e \in Stream!Leaf
  PROVE  /\ Way(a, q0, Emit(q, e), v, n + 1) /\ Fits(q.frames, v)
         /\ Clear(q) => Clear(Emit(q, e))
<1>1. /\ q.frames \in Seq(Frame) /\ FramesPlaced(q.frames)
      /\ MaxDepth > 0 => Len(q.frames) <= MaxDepth
      /\ Levels(q.frames) \in Seq(Stream!Level)
  BY WayTypes
<1>2. Fits(q.frames, v)
  BY AdvancedFits
<1>3. Levels(q.frames) \o v \in Room
  BY <1>1, <1>2, FitsRoom
<1>4. /\ e \in Stream!Accepts(Levels(q.frames) \o w)
      /\ Stream!After(Levels(q.frames) \o w, e) = Levels(q.frames) \o v
  BY <1>1, AdvancedStep
<1>5. e \in Stream!Event /\ n \in Nat /\ n < OutSize
  BY DEF Stream!Leaf, Stream!Event, OutSize
<1> QED BY <1>2, <1>3, <1>4, <1>5, EmitWay

\* The start of a pair in a flow sequence, and its end.
LEMMA PairWay ==
  ASSUME NEW a, NEW q0, NEW q, NEW n \in 0..7, q.frames # <<>>
  PROVE  /\ Way(a, q0, q, <<"SEQ">>, n) =>
              /\ Way(a, q0, Emit(q, "MAPPING_START"), <<"SEQ", "KEY">>, n + 1)
              /\ Clear(q) => Clear(Emit(q, "MAPPING_START"))
         /\ Way(a, q0, q, <<"SEQ", "KEY">>, n) =>
              /\ Way(a, q0, Emit(q, "MAPPING_END"), <<"SEQ">>, n + 1)
              /\ Clear(q) => Clear(Emit(q, "MAPPING_END"))
<1>0. /\ "SEQ" \in Stream!Level /\ "KEY" \in Stream!Level
      /\ "MAPPING_START" \in Stream!Event /\ "MAPPING_END" \in Stream!Event
      /\ n \in Nat /\ n < OutSize
  BY DEF Stream!Level, Stream!Event, OutSize
<1>1. Fits(q.frames, <<"SEQ">>) /\ Fits(q.frames, <<"SEQ", "KEY">>)
  BY <1>0 DEF Fits
<1> DEFINE l == Levels(q.frames)
<1>2. ASSUME l \in Seq(Stream!Level)
      PROVE  /\ "MAPPING_START" \in Stream!Accepts(l \o <<"SEQ">>)
             /\ Stream!After(l \o <<"SEQ">>, "MAPPING_START") = l \o <<"SEQ", "KEY">>
             /\ "MAPPING_END" \in Stream!Accepts(l \o <<"SEQ", "KEY">>)
             /\ Stream!After(l \o <<"SEQ", "KEY">>, "MAPPING_END") = l \o <<"SEQ">>
  <2> HIDE DEF l
  <2>1. /\ l \o <<"SEQ">> = Append(l, "SEQ") /\ Append(l, "SEQ") \in Seq(Stream!Level)
        /\ l \o <<"SEQ", "KEY">> = Append(Append(l, "SEQ"), "KEY")
    BY <1>0, <1>2, Words
  <2>2. /\ "MAPPING_START" \in Stream!Accepts(l \o <<"SEQ">>)
        /\ Stream!After(l \o <<"SEQ">>, "MAPPING_START") = Append(l \o <<"SEQ">>, "KEY")
    BY <1>2, Advances, AdvancedStep
  <2> QED BY <2>1, <2>2, EndStep
<1>3. ASSUME Way(a, q0, q, <<"SEQ">>, n)
      PROVE  /\ Way(a, q0, Emit(q, "MAPPING_START"), <<"SEQ", "KEY">>, n + 1)
             /\ Clear(q) => Clear(Emit(q, "MAPPING_START"))
  <2>1. l \in Seq(Stream!Level) /\ l \o <<"SEQ", "KEY">> \in Room
    BY <1>1, <1>3, WayTypes, FitsRoom
  <2> QED BY <1>0, <1>2, <1>3, <2>1, EmitWay
<1>4. ASSUME Way(a, q0, q, <<"SEQ", "KEY">>, n)
      PROVE  /\ Way(a, q0, Emit(q, "MAPPING_END"), <<"SEQ">>, n + 1)
             /\ Clear(q) => Clear(Emit(q, "MAPPING_END"))
  <2>1. l \in Seq(Stream!Level) /\ l \o <<"SEQ">> \in Room
    BY <1>1, <1>4, WayTypes, FitsRoom
  <2> QED BY <1>0, <1>2, <1>4, <2>1, EmitWay
<1> QED BY <1>3, <1>4

-----------------------------------------------------------------------------
(***************************************************************************)
(* The record at the end of a step.                                        *)
(***************************************************************************)

RootStates == BetweenDocuments \cup {"STREAM_START", "DOC_CONTENT", "DOC_END_EXPLICIT"}
AwayStates == {"EAGER_DRAIN", "DONE"}
InnerStates == State \ (RootStates \cup NodeStates \cup AwayStates)

\* Where a block node may return to: its parent is one level.
BlockReturns == {"DOC_END_EXPLICIT", "BLOCK_MAP_POST_KEY", "BLOCK_MAP_LOOP", "BLOCK_SEQ_LOOP"}

NodePlaced(q) ==
  /\ q.node_return # "STREAM_START"
  /\ (q.node_return = "DOC_END_EXPLICIT") <=> (q.frames = <<>>)
  /\ q.state # "FLOW_NODE" => q.node_return \in BlockReturns

\* The state goes with the frames, the return state and the document.
StatePlaced(q) ==
  /\ q.state \in RootStates => q.frames = <<>>
  /\ q.state \in BetweenDocuments \cup {"STREAM_START"} => ~q.doc_open
  /\ q.state \in InnerStates => q.frames # <<>>
  /\ q.state \in NodeStates => NodePlaced(q)

\* Pending properties wait for a node, and a token that is one or leads to it.
PropsPlaced(q) ==
  \/ Bare(q)
  \/ q.state = "FLOW_SEQ_LOOP" /\ q.have_token /\ Tok(q) \notin PairEnds
  \/ q.state \in {"FLOW_NODE", "EAGER_DRAIN"}

Placed(q) == FramesPlaced(q.frames) /\ StatePlaced(q) /\ PropsPlaced(q)

\* What is open when the record's events are delivered.
Expected(q) ==
  IF q.state = "STREAM_START" THEN <<"BEGIN">> ELSE Levels(q.frames) \o OpenAt(q)

\* A limit that has stopped the parser is reached.
Reached(q) == AtEventLimit(q) \/ (MaxDepth > 0 /\ Len(q.frames) >= MaxDepth)

\* The step has gone on with the stream, stopped only at a limit or a nested
\* "---" line, and its record tells what is open if the parser goes on.
Done(a, r) ==
  /\ Good(r)
  /\ \E b : Path(a, r.out_buf, b)
  /\ r.stop_status = "ERR_LIMIT" => Reached(r)
  /\ r.stop_status = "NONE" /\ ~r.scan_error /\ ~r.starved =>
       /\ Placed(r)
       /\ r.state \notin AwayStates => Path(a, r.out_buf, Expected(r))

\* Leaving a step with the same frames and events.
LEMMA WayDone ==
  ASSUME NEW a, NEW q0, NEW q, NEW w, NEW n, Way(a, q0, q, w, n),
         NEW r, Good(r), r.frames = q.frames, r.out_buf = q.out_buf,
         r.stop_status = q.stop_status, r.events_delivered = q.events_delivered,
         r.stop_status = "NONE" /\ ~r.scan_error /\ ~r.starved =>
           /\ StatePlaced(r) /\ PropsPlaced(r) /\ r.state # "STREAM_START"
           /\ r.state \notin AwayStates => w = OpenAt(r)
  PROVE  Done(a, r)
<1>1. \E b : Path(a, r.out_buf, b)
  BY DEF Way
<1>2. r.stop_status = "ERR_LIMIT" => Reached(r)
  BY DEF Way, Reached, AtEventLimit
<1>3. ASSUME r.stop_status = "NONE", ~r.scan_error, ~r.starved
      PROVE  Placed(r) /\ (r.state \notin AwayStates => Path(a, r.out_buf, Expected(r)))
  BY <1>3 DEF Way, Placed, Expected
<1> QED BY <1>1, <1>2, <1>3 DEF Done

\* Going to a state keeps the other fields.
LEMMA GotoFields ==
  ASSUME NEW q, Good(q), NEW t \in State
  PROVE  LET r == Goto(q, t)
         IN  /\ Good(r) /\ r.state = t
             /\ r.frames = q.frames /\ r.node_return = q.node_return
             /\ r.doc_open = q.doc_open /\ r.out_buf = q.out_buf
             /\ r.stop_status = q.stop_status /\ r.events_delivered = q.events_delivered
             /\ r.has_anchor = q.has_anchor /\ r.has_tag = q.has_tag
             /\ r.scan_error = q.scan_error /\ r.starved = q.starved
             /\ r.have_token = q.have_token /\ r.current = q.current
BY GotoGood DEF Goto, Good, ParserRecord

\* So does going to a node's state.
LEMMA GotoNodeFields ==
  ASSUME NEW q, Good(q), NEW t \in State, NEW node_return \in ReturnState
  PROVE  LET r == GotoNode(q, t, node_return)
         IN  /\ Good(r) /\ r.state = t /\ r.node_return = node_return
             /\ r.frames = q.frames
             /\ r.doc_open = q.doc_open /\ r.out_buf = q.out_buf
             /\ r.stop_status = q.stop_status /\ r.events_delivered = q.events_delivered
             /\ r.has_anchor = q.has_anchor /\ r.has_tag = q.has_tag
<1>1. GotoNode(q, t, node_return) \in ParserRecord
  BY DEF Good, GotoNode, ParserRecord
<1>2. Bounds(GotoNode(q, t, node_return))
  BY DEF Good, GotoNode, ParserRecord, Bounds
<1> QED BY <1>1, <1>2 DEF GotoNode, Good, ParserRecord

\* On to a state of the collection on top.
LEMMA InnerDone ==
  ASSUME NEW a, NEW q0, NEW q, NEW w, NEW n, Way(a, q0, q, w, n), Clear(q),
         q.frames # <<>>, NEW t \in InnerStates, w = OpenIn(t)
  PROVE  Done(a, Goto(q, t))
<1> DEFINE r == Goto(q, t)
<1>1. /\ t \in State /\ t \notin RootStates /\ t \notin NodeStates /\ t # "STREAM_START"
      /\ t \notin BetweenDocuments
  BY DEF InnerStates, RootStates
<1>2. Good(q)
  BY DEF Way
<1>3. /\ Good(r) /\ r.state = t /\ r.frames = q.frames /\ r.out_buf = q.out_buf
      /\ r.stop_status = q.stop_status /\ r.events_delivered = q.events_delivered
      /\ r.has_anchor = q.has_anchor /\ r.has_tag = q.has_tag
  BY <1>1, <1>2, GotoFields
<1> HIDE DEF r
<1>4. r.stop_status = "NONE" => PropsPlaced(r)
  BY <1>3 DEF Clear, Bare, PropsPlaced
<1>5. StatePlaced(r)
  BY <1>1, <1>3 DEF StatePlaced
<1>6. OpenAt(r) = w
  BY <1>1, <1>3 DEF OpenAt
<1>7. Done(a, r)
  BY <1>1, <1>3, <1>4, <1>5, <1>6, WayDone
<1> QED BY <1>7 DEF r

\* On to a state outside of all collections.
LEMMA RootDone ==
  ASSUME NEW a, NEW q0, NEW q, NEW w, NEW n, Way(a, q0, q, w, n), Clear(q),
         q.frames = <<>>, NEW t \in RootStates, t # "STREAM_START",
         t \in BetweenDocuments => ~q.doc_open, w = OpenIn(t)
  PROVE  Done(a, Goto(q, t))
<1> DEFINE r == Goto(q, t)
<1>1. /\ t \in State /\ t \notin InnerStates /\ t \notin NodeStates
  BY DEF InnerStates, RootStates, BetweenDocuments, NodeStates, State, BlockStates
<1>2. Good(q)
  BY DEF Way
<1>3. /\ Good(r) /\ r.state = t /\ r.frames = q.frames /\ r.out_buf = q.out_buf
      /\ r.stop_status = q.stop_status /\ r.events_delivered = q.events_delivered
      /\ r.has_anchor = q.has_anchor /\ r.has_tag = q.has_tag /\ r.doc_open = q.doc_open
  BY <1>1, <1>2, GotoFields
<1> HIDE DEF r
<1>4. r.stop_status = "NONE" => PropsPlaced(r)
  BY <1>3 DEF Clear, Bare, PropsPlaced
<1>5. StatePlaced(r)
  BY <1>1, <1>3 DEF StatePlaced
<1>6. OpenAt(r) = w
  BY <1>1, <1>3 DEF OpenAt
<1>7. Done(a, r)
  BY <1>3, <1>4, <1>5, <1>6, WayDone
<1> QED BY <1>7 DEF r

\* On to the fallback or to the end.
LEMMA AwayDone ==
  ASSUME NEW a, NEW q0, NEW q, NEW w, NEW n, Way(a, q0, q, w, n),
         NEW t \in AwayStates, t = "DONE" => Clear(q)
  PROVE  Done(a, Goto(q, t))
<1> DEFINE r == Goto(q, t)
<1>1. /\ t \in State /\ t \notin InnerStates /\ t \notin NodeStates /\ t \notin RootStates
      /\ t # "STREAM_START" /\ t \notin BetweenDocuments
  BY DEF InnerStates, RootStates, BetweenDocuments, NodeStates, State, AwayStates
<1>2. Good(q)
  BY DEF Way
<1>3. /\ Good(r) /\ r.state = t /\ r.frames = q.frames /\ r.out_buf = q.out_buf
      /\ r.stop_status = q.stop_status /\ r.events_delivered = q.events_delivered
      /\ r.has_anchor = q.has_anchor /\ r.has_tag = q.has_tag
  BY <1>1, <1>2, GotoFields
<1> HIDE DEF r
<1>4. r.stop_status = "NONE" => PropsPlaced(r)
  BY <1>3 DEF Clear, Bare, PropsPlaced, AwayStates
<1>5. StatePlaced(r)
  BY <1>1, <1>3 DEF StatePlaced
<1>6. r.state \in AwayStates
  BY <1>3
<1>7. Done(a, r)
  BY <1>1, <1>3, <1>4, <1>5, <1>6, WayDone
<1> QED BY <1>7 DEF r

\* On to a node.
LEMMA NodeDone ==
  ASSUME NEW a, NEW q0, NEW q, NEW w, NEW n, Way(a, q0, q, w, n),
         NEW r, Good(r), r.frames = q.frames, r.out_buf = q.out_buf,
         r.stop_status = q.stop_status, r.events_delivered = q.events_delivered,
         r.has_anchor = q.has_anchor, r.has_tag = q.has_tag,
         r.state \in NodeStates, r.state = "FLOW_NODE" \/ Clear(q),
         NodePlaced(r), w = Awaiting(r.node_return)
  PROVE  Done(a, r)
<1>1. /\ r.state \notin RootStates /\ r.state \notin InnerStates
      /\ r.state \notin BetweenDocuments /\ r.state # "STREAM_START"
  BY DEF InnerStates, RootStates, BetweenDocuments, NodeStates
<1>2. r.stop_status = "NONE" => PropsPlaced(r)
  BY DEF Clear, Bare, PropsPlaced
<1>3. StatePlaced(r)
  BY <1>1 DEF StatePlaced
<1>4. OpenAt(r) = w
  BY DEF OpenAt
<1> QED BY <1>1, <1>2, <1>3, <1>4, WayDone

\* After a node, on to the state it returns to.
LEMMA ReturnDone ==
  ASSUME NEW a, NEW q0, NEW q, NEW w, NEW n, Way(a, q0, q, w, n), Clear(q),
         NEW t \in ReturnState, t # "STREAM_START",
         (t = "DOC_END_EXPLICIT") <=> (q.frames = <<>>), w = Parents(t)
  PROVE  Done(a, Goto(q, t))
<1>1. OpenIn(t) = Parents(t)
  BY DEF OpenIn, ReturnState
<1>2. CASE t = "DOC_END_EXPLICIT"
  <2>1. t \in RootStates /\ t \notin BetweenDocuments
    BY <1>2 DEF RootStates, BetweenDocuments
  <2> QED BY <1>1, <1>2, <2>1, RootDone
<1>3. CASE t # "DOC_END_EXPLICIT"
  <2>1. t \in InnerStates
    BY <1>3 DEF ReturnState, InnerStates, State, BlockStates, FlowStates, RootStates,
                BetweenDocuments, NodeStates, AwayStates
  <2> QED BY <1>1, <1>3, <2>1, InnerDone
<1> QED BY <1>2, <1>3

\* A step that ends in an error or starves.
LEMMA HaltDone ==
  ASSUME NEW a, NEW q0, NEW q, NEW w, NEW n, Way(a, q0, q, w, n), q.scan_error \/ q.starved
  PROVE  Done(a, q)
BY WayDone DEF Way

\* A step that stays in its state.
LEMMA StayDone ==
  ASSUME NEW a, NEW q0, NEW q, NEW w, NEW n, Way(a, q0, q, w, n),
         StatePlaced(q0), q0.state \notin AwayStates \cup {"STREAM_START"}, w = OpenAt(q0),
         Clear(q) \/ PropsPlaced(q)
  PROVE  Done(a, q)
<1>1. /\ Good(q) /\ q.frames = q0.frames /\ q.state = q0.state
      /\ q.node_return = q0.node_return /\ q.doc_open = q0.doc_open
  BY DEF Way
<1>2. StatePlaced(q)
  BY <1>1 DEF StatePlaced, NodePlaced
<1>3. q.stop_status = "NONE" => PropsPlaced(q)
  BY DEF Clear, PropsPlaced
<1>4. OpenAt(q) = w
  BY <1>1 DEF OpenAt
<1> QED BY <1>1, <1>2, <1>3, <1>4, WayDone

-----------------------------------------------------------------------------
(***************************************************************************)
(* The record at the start of a step.                                      *)
(***************************************************************************)

AtStart(a, q) ==
  /\ Good(q) /\ Placed(q) /\ a = Expected(q)
  /\ ~q.scan_error /\ q.stop_status = "NONE" /\ q.status = "OK" /\ q.out_buf = <<>>
  /\ q.state \in TokenStates => q.have_token

\* What a state knows to be open fits.
LEMMA OpenFits ==
  ASSUME NEW q, Good(q), StatePlaced(q), q.state \notin AwayStates
  PROVE  Fits(q.frames, OpenAt(q))
<1>1. q.state \in State /\ q.node_return \in ReturnState
  BY FieldTypes
<1>2. ASSUME NEW w \in {<<>>, <<"DOC">>, <<"DOC_DONE">>, <<"KEY">>, <<"VALUE">>, <<"SEQ">>,
                        <<"SEQ", "KEY">>, <<"SEQ", "VALUE">>}
      PROVE  w \in Seq(Stream!Level) /\ Len(w) <= 2
  <2>1. {"DOC", "DOC_DONE", "KEY", "VALUE", "SEQ"} \subseteq Stream!Level
    BY DEF Stream!Level
  <2>2. /\ <<>> \in Seq(Stream!Level) /\ Len(<<>>) <= 2
        /\ \A x \in Stream!Level : <<x>> \in Seq(Stream!Level) /\ Len(<<x>>) <= 2
        /\ \A x, y \in Stream!Level : <<x, y>> \in Seq(Stream!Level) /\ Len(<<x, y>>) <= 2
    OBVIOUS
  <2> QED BY <1>2, <2>1, <2>2
<1>3. CASE q.state \in NodeStates
  <2>1. OpenAt(q) = Awaiting(q.node_return) /\ NodePlaced(q)
    BY <1>3 DEF OpenAt, StatePlaced
  <2>2. Awaiting(q.node_return) \in
          {<<>>, <<"DOC">>, <<"KEY">>, <<"VALUE">>, <<"SEQ">>, <<"SEQ", "KEY">>,
           <<"SEQ", "VALUE">>}
    BY <1>1 DEF Awaiting, Parents, ReturnState
  <2>3. q.frames = <<>> => Awaiting(q.node_return) = <<"DOC">>
    BY <2>1 DEF NodePlaced, Awaiting
  <2>4. <<"DOC">>[1] = "DOC"
    OBVIOUS
  <2> QED BY <1>2, <2>1, <2>2, <2>3, <2>4 DEF Fits
<1>4. CASE q.state \notin NodeStates
  <2>1. OpenAt(q) = OpenIn(q.state)
    BY <1>4 DEF OpenAt
  <2>2. OpenIn(q.state) \in
          {<<>>, <<"DOC">>, <<"DOC_DONE">>, <<"KEY">>, <<"VALUE">>, <<"SEQ">>,
           <<"SEQ", "KEY">>, <<"SEQ", "VALUE">>}
    BY <1>1 DEF OpenIn, Parents
  <2>3. q.frames = <<>> => q.state \in RootStates
    BY <1>1, <1>4 DEF StatePlaced, InnerStates
  <2>4. q.state \in RootStates => OpenIn(q.state) \in {<<>>, <<"DOC">>, <<"DOC_DONE">>}
    BY DEF RootStates, BetweenDocuments, OpenIn, Parents
  <2>5. <<"DOC">>[1] = "DOC" /\ <<"DOC_DONE">>[1] = "DOC_DONE"
    OBVIOUS
  <2> QED BY <1>2, <2>1, <2>2, <2>3, <2>4, <2>5 DEF Fits
<1> QED BY <1>3, <1>4

\* The step starts on its way.
LEMMA StartWay ==
  ASSUME NEW a, NEW q, AtStart(a, q), q.state \notin AwayStates \cup {"STREAM_START"}
  PROVE  /\ Way(a, q, q, OpenAt(q), 0) /\ Fits(q.frames, OpenAt(q))
         /\ q.state \notin {"FLOW_SEQ_LOOP", "FLOW_NODE"} => Clear(q)
<1>1. /\ Good(q) /\ FramesPlaced(q.frames) /\ StatePlaced(q) /\ PropsPlaced(q)
      /\ a = Levels(q.frames) \o OpenAt(q)
      /\ q.stop_status = "NONE" /\ q.out_buf = <<>>
  BY DEF AtStart, Placed, Expected
<1>2. q.frames \in Seq(Frame) /\ (MaxDepth > 0 => Len(q.frames) <= MaxDepth)
  BY <1>1, FieldTypes DEF Good, Bounds
<1>3. Fits(q.frames, OpenAt(q))
  BY <1>1, OpenFits
<1>4. a \in Room
  BY <1>1, <1>2, <1>3, FitsRoom
<1>5. Path(a, q.out_buf, a) /\ Len(q.out_buf) <= 0
  BY <1>1, <1>4, PathNone
<1>6. q.state \notin {"FLOW_SEQ_LOOP", "FLOW_NODE"} => Clear(q)
  BY <1>1 DEF PropsPlaced, Clear, AwayStates
<1> QED BY <1>1, <1>3, <1>5, <1>6 DEF Way

-----------------------------------------------------------------------------
(***************************************************************************)
(* The stream and its documents.                                           *)
(***************************************************************************)

\* Queuing one event of the stream's own.
LEMMA EmitPath ==
  ASSUME NEW a, NEW l \in Room, NEW q, Good(q), q.stop_status = "NONE",
         Path(a, q.out_buf, l), Len(q.out_buf) < OutSize,
         NEW e \in Stream!Event, e \in Stream!Accepts(l), Stream!After(l, e) \in Room
  PROVE  LET r == Emit(q, e)
         IN  \/ r.stop_status = "NONE" /\ Path(a, r.out_buf, Stream!After(l, e))
             \/ /\ r.stop_status = "ERR_LIMIT" /\ AtEventLimit(r)
                /\ r.out_buf = q.out_buf
<1>1. CASE AtEventLimit(q)
  BY <1>1 DEF Emit, StopWith, Good, ParserRecord, AtEventLimit
<1>2. CASE ~AtEventLimit(q)
  <2>1. Emit(q, e) = [q EXCEPT !.out_buf = Append(@, e)]
    BY <1>2 DEF Emit
  <2>2. Path(a, Append(q.out_buf, e), Stream!After(l, e))
    BY FieldTypes, PathAppend
  <2> QED BY <2>1, <2>2 DEF Good, ParserRecord
<1> QED BY <1>1, <1>2

\* The levels of the stream between documents.
LEMMA StreamLevels ==
  /\ Levels(<<>>) \o <<>> = <<"STREAM">>
  /\ Levels(<<>>) \o <<"DOC">> = <<"STREAM", "DOC">>
  /\ <<"STREAM">> \in Room /\ <<"END">> \in Room /\ <<"BEGIN">> \in Room
  /\ <<"STREAM", "DOC">> \in Room
<1>1. Levels(<<>>) = <<"STREAM">>
  BY LevelsEmpty
<1>2. {"STREAM", "DOC", "BEGIN", "END"} \subseteq Stream!Level
  BY DEF Stream!Level
<1>3. /\ <<"STREAM">> \o <<>> = <<"STREAM">>
      /\ <<"STREAM">> \o <<"DOC">> = <<"STREAM", "DOC">>
  <2>1. <<"STREAM">> \in Seq(Stream!Level)
    BY <1>2
  <2> DEFINE l == <<"STREAM">>
             m == Append(l, "DOC")
             d == <<"STREAM", "DOC">>
  <2>2. /\ m \in Seq(Stream!Level) /\ Len(m) = 2 /\ m[1] = "STREAM" /\ m[2] = "DOC"
        /\ d \in Seq(Stream!Level) /\ Len(d) = 2 /\ d[1] = "STREAM" /\ d[2] = "DOC"
    BY <1>2
  <2>3. l \o <<>> = l /\ l \o <<"DOC">> = m
    BY <1>2, <2>1, Words
  <2> HIDE DEF m, d
  <2>4. m = d
    <3>1. \A i \in 1..2 : i = 1 \/ i = 2
      OBVIOUS
    <3>2. \A i \in 1..Len(m) : m[i] = d[i]
      BY <2>2, <3>1
    <3> QED BY <2>2, <3>2, SeqEqual
  <2> QED BY <2>3, <2>4 DEF d
<1>4. ASSUME NEW x \in {"STREAM", "END", "BEGIN"} PROVE <<x>> \in Room
  BY <1>2, LimitsAssumption DEF Room
<1>5. <<"STREAM", "DOC">> \in Room
  BY <1>2, LimitsAssumption DEF Room
<1> QED BY <1>1, <1>3, <1>4, <1>5

\* The stream's own events.
LEMMA StreamSteps ==
  /\ "STREAM_START" \in Stream!Accepts(<<"BEGIN">>)
  /\ Stream!After(<<"BEGIN">>, "STREAM_START") = <<"STREAM">>
  /\ "DOC_START" \in Stream!Accepts(<<"STREAM">>)
  /\ Stream!After(<<"STREAM">>, "DOC_START") = <<"STREAM", "DOC">>
  /\ "STREAM_END" \in Stream!Accepts(<<"STREAM">>)
  /\ Stream!After(<<"STREAM">>, "STREAM_END") = <<"END">>
<1>1. Stream!Top(<<"BEGIN">>) = "BEGIN" /\ Stream!Top(<<"STREAM">>) = "STREAM"
  BY DEF Stream!Top
<1>2. /\ "STREAM_START" \in Stream!Accepts(<<"BEGIN">>)
      /\ "DOC_START" \in Stream!Accepts(<<"STREAM">>)
      /\ "STREAM_END" \in Stream!Accepts(<<"STREAM">>)
  BY <1>1 DEF Stream!Accepts
<1>3. Append(<<"STREAM">>, "DOC") = <<"STREAM", "DOC">>
  <2>1. <<"STREAM">> \in Seq(Stream!Level) /\ "DOC" \in Stream!Level
    BY DEF Stream!Level
  <2>2. <<"STREAM">> \o <<"DOC">> = Append(<<"STREAM">>, "DOC")
    BY <2>1, Words
  <2>3. Levels(<<>>) \o <<"DOC">> = <<"STREAM", "DOC">> /\ Levels(<<>>) = <<"STREAM">>
    BY StreamLevels, LevelsEmpty
  <2> QED BY <2>2, <2>3
<1>4. ASSUME NEW l
      PROVE  /\ Stream!After(l, "STREAM_START") = <<"STREAM">>
             /\ Stream!After(l, "STREAM_END") = <<"END">>
             /\ Stream!After(l, "DOC_START") = Append(l, "DOC")
  <2>1. Stream!After(l, "STREAM_START") = <<"STREAM">>
    BY DEF Stream!After, Stream!Leaf
  <2>2. Stream!After(l, "STREAM_END") = <<"END">>
    BY DEF Stream!After, Stream!Leaf
  <2>3. Stream!After(l, "DOC_START") = Append(l, "DOC")
    BY DEF Stream!After, Stream!Leaf
  <2> QED BY <2>1, <2>2, <2>3
<1> QED BY <1>2, <1>3, <1>4

\* ST_STREAM_START.
LEMMA StreamStartDone ==
  ASSUME NEW a, NEW q, AtStart(a, q), q.state = "STREAM_START"
  PROVE  Done(a, StreamStart(q))
<1> DEFINE p == Peek(q)
           c == Consume(p)
           r == Emit(c, "STREAM_START")
<1>1. /\ Good(q) /\ q.frames = <<>> /\ ~q.doc_open /\ Bare(q) /\ a = <<"BEGIN">>
      /\ q.stop_status = "NONE" /\ q.out_buf = <<>> /\ FramesPlaced(q.frames)
  BY DEF AtStart, Placed, Expected, StatePlaced, PropsPlaced, RootStates
<1>2. Good(p) /\ Quiet(q, p) /\ Bare(p)
  BY <1>1, PeekGood, PeekQuiet DEF Bare
<1>3. Good(c) /\ Quiet(q, c) /\ Bare(c)
  <2> HIDE DEF p
  <2>1. Good(c)
    BY <1>2, ConsumeGood
  <2> QED BY <1>2, <2>1 DEF Consume, Good, ParserRecord, Quiet, Bare
<1> HIDE DEF p, c
<1>4. "STREAM_START" \in Stream!Event
  BY DEF Stream!Event
<1>5. /\ "STREAM_START" \in Stream!Accepts(<<"BEGIN">>)
      /\ Stream!After(<<"BEGIN">>, "STREAM_START") = <<"STREAM">>
  BY StreamSteps
<1>6. Path(a, c.out_buf, <<"BEGIN">>) /\ Len(c.out_buf) < OutSize /\ c.stop_status = "NONE"
      /\ c.out_buf = <<>>
  BY <1>1, <1>3, PathNone, StreamLevels DEF Quiet, OutSize
<1>7. \/ r.stop_status = "NONE" /\ Path(a, r.out_buf, <<"STREAM">>)
      \/ /\ r.stop_status = "ERR_LIMIT" /\ AtEventLimit(r)
         /\ r.out_buf = c.out_buf
  <2> DEFINE l == <<"BEGIN">>
             next == <<"STREAM">>
             e == "STREAM_START"
  <2>1. /\ l \in Room /\ next \in Room /\ e \in Stream!Event /\ e \in Stream!Accepts(l)
        /\ Stream!After(l, e) = next /\ Path(a, c.out_buf, l)
    BY <1>4, <1>5, <1>6, StreamLevels
  <2>2. r = Emit(c, e)
    OBVIOUS
  <2> HIDE DEF r, l, next, e
  <2>3. \/ r.stop_status = "NONE" /\ Path(a, r.out_buf, Stream!After(l, e))
        \/ /\ r.stop_status = "ERR_LIMIT" /\ AtEventLimit(r)
           /\ r.out_buf = c.out_buf
    BY <1>3, <1>6, <2>1, <2>2, EmitPath
  <2> QED BY <2>1, <2>3 DEF next
<1>8. /\ Good(r) /\ r.frames = <<>> /\ ~r.doc_open /\ Clear(r)
  BY <1>1, <1>3, <1>4, EmitGood, EmitQuiet DEF Quiet, Clear, Bare
<1> HIDE DEF r
<1>9. Way(a, r, r, <<>>, Len(r.out_buf))
  <2>1. Len(r.out_buf) <= Len(r.out_buf)
    BY <1>8, FieldTypes
  <2>2. FramesPlaced(r.frames)
    BY <1>1, <1>8
  <2> QED BY <1>6, <1>7, <1>8, <2>1, <2>2, StreamLevels DEF Way
<1>10. "STREAM_DOC_LOOP" \in RootStates /\ OpenIn("STREAM_DOC_LOOP") = <<>>
  BY DEF RootStates, BetweenDocuments, OpenIn, Parents
<1>11. Done(a, Goto(r, "STREAM_DOC_LOOP"))
  BY <1>8, <1>9, <1>10, RootDone
<1> QED BY <1>11 DEF StreamStart, r, c, p

\* What a step in a state outside of all collections starts from.
LEMMA RootStart ==
  ASSUME NEW a, NEW q, AtStart(a, q), q.state \in RootStates, q.state # "STREAM_START"
  PROVE  /\ Way(a, q, q, OpenIn(q.state), 0) /\ Clear(q) /\ q.frames = <<>>
         /\ Fits(q.frames, OpenIn(q.state))
         /\ q.state \in BetweenDocuments => ~q.doc_open
<1>1. /\ q.state \notin AwayStates \cup {"STREAM_START", "FLOW_SEQ_LOOP", "FLOW_NODE"}
      /\ q.state \notin NodeStates
  BY DEF RootStates, BetweenDocuments, AwayStates, NodeStates
<1>2. OpenAt(q) = OpenIn(q.state)
  BY <1>1 DEF OpenAt
<1>3. q.frames = <<>> /\ (q.state \in BetweenDocuments => ~q.doc_open)
  BY DEF AtStart, Placed, StatePlaced
<1> QED BY <1>1, <1>2, <1>3, StartWay

\* The states' levels.
LEMMA RootLevels ==
  /\ \A t \in BetweenDocuments : OpenIn(t) = <<>>
  /\ OpenIn("DOC_CONTENT") = <<"DOC">> /\ OpenIn("DOC_END_EXPLICIT") = <<"DOC_DONE">>
  /\ BetweenDocuments \cup {"DOC_CONTENT", "DOC_END_EXPLICIT"} \subseteq RootStates
BY DEF BetweenDocuments, OpenIn, Parents, RootStates

\* ST_STREAM_DOC_LOOP.
LEMMA StreamDocLoopDone ==
  ASSUME NEW a, NEW q, AtStart(a, q), q.state = "STREAM_DOC_LOOP"
  PROVE  Done(a, StreamDocLoop(q))
<1> DEFINE p == Peek(q)
<1>1. q.state \in BetweenDocuments /\ q.state \in RootStates /\ q.state # "STREAM_START"
  BY RootLevels DEF BetweenDocuments
<1>2. /\ Way(a, q, q, <<>>, 0) /\ Clear(q) /\ q.frames = <<>> /\ ~q.doc_open
  BY <1>1, RootStart, RootLevels
<1>3. Way(a, q, p, <<>>, 0) /\ Clear(p) /\ p.frames = <<>> /\ ~p.doc_open
  <2>1. Way(a, q, p, <<>>, 0) /\ Clear(p)
    BY <1>2, PeekWay
  <2> QED BY <1>2, <2>1, WayFields
<1> HIDE DEF p
<1>4. ASSUME NEW t \in {"STREAM_END", "DOC_DIRECTIVES"} PROVE Done(a, Goto(p, t))
  <2>1. t \in BetweenDocuments /\ t \in RootStates /\ t # "STREAM_START" /\ OpenIn(t) = <<>>
    BY RootLevels DEF BetweenDocuments
  <2> QED BY <1>3, <2>1, RootDone
<1>5. StreamDocLoop(q) = Goto(p, IF Tok(p) = "STREAM_END" THEN "STREAM_END" ELSE "DOC_DIRECTIVES")
  BY DEF StreamDocLoop, p
<1> QED BY <1>4, <1>5

\* ST_STREAM_END.
LEMMA StreamEndDone ==
  ASSUME NEW a, NEW q, AtStart(a, q), q.state = "STREAM_END"
  PROVE  Done(a, StreamEnd(q))
<1> DEFINE p == Peek(q)
           c == Consume(p)
           e == Emit(c, "STREAM_END")
           r == Goto(e, "DONE")
<1>1. q.state \in BetweenDocuments /\ q.state \in RootStates /\ q.state # "STREAM_START"
  BY RootLevels DEF BetweenDocuments
<1>2. /\ Way(a, q, q, <<>>, 0) /\ Clear(q) /\ q.frames = <<>> /\ q.stop_status = "NONE"
  BY <1>1, RootStart, RootLevels DEF AtStart
<1>3. /\ Way(a, q, p, <<>>, 0) /\ Clear(p) /\ Good(p) /\ p.stop_status = "NONE"
  BY <1>2, PeekWay, PeekQuiet DEF Way, Quiet
<1>4. Way(a, q, c, <<>>, 0) /\ Clear(c) /\ c.stop_status = "NONE"
  <2> HIDE DEF p
  <2>1. Way(a, q, c, <<>>, 0) /\ Clear(c)
    BY <1>3, ConsumeWay
  <2> QED BY <1>3, <2>1 DEF Consume, Good, ParserRecord
<1> HIDE DEF p, c
<1>5. /\ Good(c) /\ c.frames = <<>> /\ Path(a, c.out_buf, <<"STREAM">>)
      /\ Len(c.out_buf) < OutSize
  <2>1. Len(c.out_buf) \in Nat
    BY <1>4, FieldTypes DEF Way
  <2> QED BY <1>2, <1>4, <2>1, StreamLevels DEF Way, OutSize
<1>6. "STREAM_END" \in Stream!Event
  BY DEF Stream!Event
<1>7. \/ e.stop_status = "NONE" /\ Path(a, e.out_buf, <<"END">>)
      \/ /\ e.stop_status = "ERR_LIMIT" /\ AtEventLimit(e) /\ e.out_buf = c.out_buf
  BY <1>4, <1>5, <1>6, StreamLevels, StreamSteps, EmitPath
<1>8. Good(e) /\ e.frames = <<>> /\ Clear(e)
  BY <1>4, <1>5, <1>6, EmitGood, EmitQuiet DEF Clear, Bare
<1> HIDE DEF e
<1>9. /\ "DONE" \in State /\ "DONE" \in AwayStates
      /\ "DONE" \notin RootStates \cup BetweenDocuments \cup NodeStates \cup InnerStates
      /\ "DONE" # "STREAM_START"
  BY DEF State, AwayStates, RootStates, BetweenDocuments, NodeStates, InnerStates
<1>10. /\ Good(r) /\ r.state = "DONE" /\ r.frames = <<>> /\ r.out_buf = e.out_buf
       /\ r.stop_status = e.stop_status /\ r.events_delivered = e.events_delivered
       /\ r.has_anchor = e.has_anchor /\ r.has_tag = e.has_tag
  BY <1>8, <1>9, GotoFields
<1> HIDE DEF r
<1>11. r.stop_status = "NONE" => Placed(r)
  BY <1>8, <1>9, <1>10 DEF Placed, FramesPlaced, StatePlaced, PropsPlaced, Clear, Bare
<1>12. r.stop_status = "ERR_LIMIT" => Reached(r)
  BY <1>7, <1>10 DEF Reached, AtEventLimit
<1>13. \E b : Path(a, r.out_buf, b)
  BY <1>5, <1>7, <1>10
<1>14. Done(a, r)
  BY <1>9, <1>10, <1>11, <1>12, <1>13 DEF Done
<1> QED BY <1>14 DEF StreamEnd, r, e, c, p

\* ST_DOC_DIRECTIVES.
LEMMA DocDirectivesDone ==
  ASSUME NEW a, NEW q, AtStart(a, q), q.state = "DOC_DIRECTIVES"
  PROVE  Done(a, DocDirectives(q))
<1> DEFINE p == Peek(q)
           c == TakeCheckpoint(p)
<1>1. q.state \in BetweenDocuments /\ q.state \in RootStates /\ q.state # "STREAM_START"
  BY RootLevels DEF BetweenDocuments
<1>2. /\ Way(a, q, q, <<>>, 0) /\ Clear(q) /\ q.frames = <<>> /\ ~q.doc_open
  BY <1>1, RootStart, RootLevels
<1>3. Way(a, q, p, <<>>, 0) /\ Clear(p) /\ Good(p)
  BY <1>2, PeekWay
<1> HIDE DEF p
<1>4. Way(a, q, c, <<>>, 0) /\ Clear(c)
  <2>1. Quiet(p, c) /\ (Clear(p) => Clear(c))
    BY <1>3 DEF TakeCheckpoint, Good, ParserRecord, Quiet, Clear, Bare
  <2>2. Good(c)
    BY <1>3, TakeCheckpointGood
  <2> QED BY <1>3, <2>1, <2>2, QuietWay
<1> HIDE DEF c
<1>5. c.frames = <<>> /\ ~c.doc_open
  BY <1>2, <1>4 DEF Way
<1>6. ASSUME NEW t \in BetweenDocuments PROVE Done(a, Goto(c, t)) /\ Done(a, Goto(Consume(c), t))
  <2>1. t \in RootStates /\ t # "STREAM_START" /\ OpenIn(t) = <<>>
    BY RootLevels DEF BetweenDocuments
  <2>2. Way(a, q, Consume(c), <<>>, 0) /\ Clear(Consume(c))
    BY <1>4, ConsumeWay
  <2>3. Consume(c).frames = <<>> /\ ~Consume(c).doc_open
    BY <1>2, <2>2 DEF Way
  <2>4. Done(a, Goto(c, t))
    BY <1>4, <1>5, <2>1, RootDone
  <2>5. Done(a, Goto(Consume(c), t))
    BY <2>1, <2>2, <2>3, RootDone
  <2> QED BY <2>4, <2>5
<1>7. Done(a, Goto(c, "EAGER_DRAIN"))
  BY <1>4, AwayDone DEF AwayStates
<1>8. {"DOC_START_EXPLICIT", "STREAM_DOC_LOOP", "STREAM_END", "DOC_START_IMPLICIT"}
        \subseteq BetweenDocuments
  BY DEF BetweenDocuments
<1>9. DocDirectives(q) \in {Goto(c, "EAGER_DRAIN"), Goto(c, "DOC_START_EXPLICIT"),
                            Goto(Consume(c), "STREAM_DOC_LOOP"), Goto(c, "STREAM_END"),
                            Goto(c, "DOC_START_IMPLICIT")}
  BY DEF DocDirectives, c, p
<1> QED BY <1>6, <1>7, <1>8, <1>9

\* DOC_START, at an explicit "---" or at the first node.
LEMMA DocStartDone ==
  ASSUME NEW a, NEW q0, NEW q, Way(a, q0, q, <<>>, 0), Clear(q), q.frames = <<>>,
         NEW line \in Nat
  PROVE  Done(a, DocStart(q, line))
<1> DEFINE e == Emit(q, "DOC_START")
           r == [e EXCEPT !.doc_start_line = line, !.doc_open = TRUE]
<1>1. "DOC_START" \in Stream!Event /\ 0 \in Nat /\ 0 < OutSize
  BY DEF Stream!Event, OutSize
<1>2. /\ "DOC_START" \in Stream!Accepts(Levels(q.frames) \o <<>>)
      /\ Stream!After(Levels(q.frames) \o <<>>, "DOC_START") = Levels(q.frames) \o <<"DOC">>
      /\ Levels(q.frames) \o <<"DOC">> \in Room
  BY StreamLevels, StreamSteps
<1>3. Way(a, q0, e, <<"DOC">>, 0 + 1) /\ Clear(e)
  BY <1>1, <1>2, EmitWay
<1> HIDE DEF e
<1>4. Good(e) /\ e.frames = <<>>
  BY <1>3 DEF Way
<1>5. /\ Good(r) /\ r.frames = e.frames /\ r.out_buf = e.out_buf
      /\ r.stop_status = e.stop_status /\ r.events_delivered = e.events_delivered
      /\ Clear(r)
  <2>1. r \in ParserRecord
    BY <1>4 DEF Good, ParserRecord
  <2>2. Bounds(r)
    BY <1>4 DEF Good, ParserRecord, Bounds
  <2> QED BY <1>3, <1>4, <2>1, <2>2 DEF Good, ParserRecord, Clear, Bare
<1> HIDE DEF r
<1>6. Way(a, r, r, <<"DOC">>, 0 + 1)
  BY <1>3, <1>5, Rebase
<1>7. "DOC_CONTENT" \in RootStates /\ "DOC_CONTENT" \notin BetweenDocuments
  BY RootLevels DEF BetweenDocuments
<1>8. r.frames = <<>>
  BY <1>4, <1>5
<1>9. Done(a, Goto(r, "DOC_CONTENT"))
  BY <1>5, <1>6, <1>7, <1>8, RootLevels, RootDone
<1> QED BY <1>9 DEF DocStart, r, e

\* ST_DOC_START_EXPLICIT.
LEMMA DocStartExplicitDone ==
  ASSUME NEW a, NEW q, AtStart(a, q), q.state = "DOC_START_EXPLICIT"
  PROVE  Done(a, DocStartExplicit(q))
<1> DEFINE p == Peek(q)
<1>1. q.state \in BetweenDocuments /\ q.state \in RootStates /\ q.state # "STREAM_START"
  BY RootLevels DEF BetweenDocuments
<1>2. /\ Way(a, q, q, <<>>, 0) /\ Clear(q) /\ q.frames = <<>>
  BY <1>1, RootStart, RootLevels
<1>3. Way(a, q, p, <<>>, 0) /\ Clear(p) /\ Good(p)
  BY <1>2, PeekWay
<1> HIDE DEF p
<1>4. Way(a, q, Consume(p), <<>>, 0) /\ Clear(Consume(p)) /\ Consume(p).frames = <<>>
  <2>1. Way(a, q, Consume(p), <<>>, 0) /\ Clear(Consume(p))
    BY <1>3, ConsumeWay
  <2> QED BY <1>2, <2>1, WayFields
<1>5. p.current.line \in Nat
  BY <1>3, FieldTypes
<1>6. Done(a, DocStart(Consume(p), p.current.line))
  BY <1>4, <1>5, DocStartDone
<1> QED BY <1>6 DEF DocStartExplicit, p

\* ST_DOC_START_IMPLICIT.
LEMMA DocStartImplicitDone ==
  ASSUME NEW a, NEW q, AtStart(a, q), q.state = "DOC_START_IMPLICIT"
  PROVE  Done(a, DocStartImplicit(q))
<1> DEFINE p == Peek(q)
<1>1. q.state \in BetweenDocuments /\ q.state \in RootStates /\ q.state # "STREAM_START"
  BY RootLevels DEF BetweenDocuments
<1>2. /\ Way(a, q, q, <<>>, 0) /\ Clear(q) /\ q.frames = <<>>
  BY <1>1, RootStart, RootLevels
<1>3. Way(a, q, p, <<>>, 0) /\ Clear(p) /\ p.frames = <<>>
  <2>1. Way(a, q, p, <<>>, 0) /\ Clear(p)
    BY <1>2, PeekWay
  <2> QED BY <1>2, <2>1, WayFields
<1> HIDE DEF p
<1>4. Done(a, DocStart(p, 0))
  BY <1>3, DocStartDone
<1> QED BY <1>4 DEF DocStartImplicit, p

\* DOC_END closes the document.
LEMMA CloseDone ==
  ASSUME NEW a, NEW q0, NEW q, NEW n \in 0..7, Way(a, q0, q, <<"DOC_DONE">>, n), Clear(q),
         q.frames = <<>>, NEW t \in {"STREAM_DOC_LOOP", "STREAM_END"}
  PROVE  Done(a, Goto([Emit(q, "DOC_END") EXCEPT !.doc_open = FALSE], t))
<1> DEFINE e == Emit(q, "DOC_END")
           r == [e EXCEPT !.doc_open = FALSE]
<1>1. /\ "DOC_END" \in Stream!Event /\ n \in Nat /\ n < OutSize
      /\ "DOC_DONE" \in Stream!Level /\ "STREAM" \in Stream!Level
  BY DEF Stream!Event, OutSize, Stream!Level
<1>2. /\ "DOC_END" \in Stream!Accepts(Levels(q.frames) \o <<"DOC_DONE">>)
      /\ Stream!After(Levels(q.frames) \o <<"DOC_DONE">>, "DOC_END") = Levels(q.frames) \o <<>>
      /\ Levels(q.frames) \o <<>> \in Room
  <2>1. Levels(q.frames) = <<"STREAM">> /\ <<"STREAM">> \in Seq(Stream!Level)
    BY <1>1, LevelsEmpty
  <2>2. Levels(q.frames) \o <<"DOC_DONE">> = Append(<<"STREAM">>, "DOC_DONE")
    BY <1>1, <2>1, Words
  <2>3. Levels(q.frames) \o <<>> = <<"STREAM">>
    BY StreamLevels
  <2> QED BY <2>1, <2>2, <2>3, EndStep, StreamLevels
<1>3. Way(a, q0, e, <<>>, n + 1) /\ Clear(e)
  BY <1>1, <1>2, EmitWay
<1> HIDE DEF e
<1>4. Good(e) /\ e.frames = <<>>
  <2>1. e.frames = q0.frames /\ q.frames = q0.frames /\ Good(e)
    BY <1>3 DEF Way
  <2> QED BY <2>1
<1>5. /\ Good(r) /\ r.frames = e.frames /\ r.out_buf = e.out_buf
      /\ r.stop_status = e.stop_status /\ r.events_delivered = e.events_delivered
      /\ Clear(r) /\ ~r.doc_open
  <2>1. r \in ParserRecord
    BY <1>4 DEF Good, ParserRecord
  <2>2. Bounds(r)
    BY <1>4 DEF Good, ParserRecord, Bounds
  <2> QED BY <1>3, <1>4, <2>1, <2>2 DEF Good, ParserRecord, Clear, Bare
<1> HIDE DEF r
<1>6. Way(a, r, r, <<>>, n + 1)
  BY <1>3, <1>5, Rebase
<1>7. t \in RootStates /\ t \in BetweenDocuments /\ OpenIn(t) = <<>> /\ t # "STREAM_START"
  BY RootLevels DEF BetweenDocuments
<1>8. r.frames = <<>>
  BY <1>4, <1>5
<1>9. Done(a, Goto(r, t))
  BY <1>5, <1>6, <1>7, <1>8, RootDone
<1> QED BY <1>9 DEF r, e

\* ST_DOC_CONTENT.
LEMMA DocContentDone ==
  ASSUME NEW a, NEW q, AtStart(a, q), q.state = "DOC_CONTENT"
  PROVE  Done(a, DocContent(q))
<1> DEFINE p == Peek(q)
           e == Emit(p, "SCALAR")
           r == GotoNode(p, "BLOCK_NODE", "DOC_END_EXPLICIT")
<1>1. /\ q.state \in RootStates /\ q.state # "STREAM_START" /\ OpenIn(q.state) = <<"DOC">>
  BY RootLevels
<1>2. /\ Way(a, q, q, <<"DOC">>, 0) /\ Clear(q) /\ q.frames = <<>> /\ Fits(<<>>, <<"DOC">>)
  BY <1>1, RootStart
<1>3. Way(a, q, p, <<"DOC">>, 0) /\ Clear(p) /\ Good(p) /\ p.frames = <<>>
  <2>1. Way(a, q, p, <<"DOC">>, 0) /\ Clear(p) /\ Good(p)
    BY <1>2, PeekWay
  <2> QED BY <1>2, <2>1, WayFields
<1> HIDE DEF p
<1>4. Way(a, q, e, <<"DOC_DONE">>, 0 + 1) /\ Clear(e) /\ e.frames = <<>>
  <2>1. "SCALAR" \in Stream!Leaf
    BY DEF Stream!Leaf
  <2>2. Way(a, q, e, <<"DOC_DONE">>, 0 + 1) /\ Clear(e)
    BY <1>2, <1>3, <2>1, Advances, LeafWay
  <2> QED BY <1>2, <2>2 DEF Way
<1> HIDE DEF e
<1>5. Done(a, Goto(e, "DOC_END_EXPLICIT"))
  <2>1. /\ "DOC_END_EXPLICIT" \in RootStates /\ "DOC_END_EXPLICIT" \notin BetweenDocuments
        /\ OpenIn("DOC_END_EXPLICIT") = <<"DOC_DONE">>
    BY RootLevels DEF BetweenDocuments
  <2> QED BY <1>4, <2>1, RootDone
<1>6. ASSUME NEW t \in {"STREAM_DOC_LOOP", "STREAM_END"} PROVE Done(a, EmptyDocument(p, t))
  <2>1. Done(a, Goto([Emit(e, "DOC_END") EXCEPT !.doc_open = FALSE], t))
    <3>1. 0 + 1 \in 0..7
      OBVIOUS
    <3> QED BY <1>4, <3>1, CloseDone
  <2> QED BY <2>1 DEF EmptyDocument, e
<1>7. Done(a, r)
  <2>1. "BLOCK_NODE" \in State /\ "DOC_END_EXPLICIT" \in ReturnState /\ "BLOCK_NODE" \in NodeStates
    BY DEF State, BlockStates, ReturnState, NodeStates
  <2>2. /\ Good(r) /\ r.state = "BLOCK_NODE" /\ r.node_return = "DOC_END_EXPLICIT"
        /\ r.frames = p.frames /\ r.out_buf = p.out_buf
        /\ r.stop_status = p.stop_status /\ r.events_delivered = p.events_delivered
        /\ r.has_anchor = p.has_anchor /\ r.has_tag = p.has_tag
    BY <1>3, <2>1, GotoNodeFields
  <2> HIDE DEF r
  <2>3. NodePlaced(r)
    BY <1>3, <2>2 DEF NodePlaced, BlockReturns
  <2>4. <<"DOC">> = Awaiting(r.node_return)
    BY <2>2 DEF Awaiting
  <2> QED BY <1>3, <2>1, <2>2, <2>3, <2>4, NodeDone
<1>8. DocContent(q) \in {Goto(e, "DOC_END_EXPLICIT"), EmptyDocument(p, "STREAM_DOC_LOOP"),
                         EmptyDocument(p, "STREAM_END"), r}
  <2> HIDE DEF r
  <2> QED BY DEF DocContent, p, e, r
<1> QED BY <1>5, <1>6, <1>7, <1>8

\* inc_end_document, at any point of a step.
LEMMA EndDocumentWay ==
  ASSUME NEW a, NEW q0, NEW q, NEW n \in 0..7, Way(a, q0, q, <<"DOC_DONE">>, n), Clear(q),
         q.frames = <<>>, q.state = "DOC_END_EXPLICIT"
  PROVE  Done(a, EndDocument(q))
<1> DEFINE p == Peek(q)
           r == IF Tok(p) = "DOC_END" THEN Consume(p) ELSE p
           e == ParseError(p)
<1>1. Way(a, q0, p, <<"DOC_DONE">>, n) /\ Clear(p) /\ Good(p) /\ Held(p)
      /\ p.frames = <<>> /\ p.state = "DOC_END_EXPLICIT"
  <2>1. Way(a, q0, p, <<"DOC_DONE">>, n) /\ Clear(p) /\ Good(p) /\ Held(p)
    BY PeekWay
  <2> QED BY <2>1 DEF Way
<1> HIDE DEF p
<1>2. CASE ~p.have_token
  <2>1. Done(a, p)
    BY <1>1, <1>2, HaltDone DEF Held
  <2> QED BY <1>2, <2>1 DEF EndDocument, p
<1>3. Done(a, e)
  <2>1. Way(a, q0, e, <<"DOC_DONE">>, n) /\ Clear(e)
    BY <1>1, ParseErrorWay
  <2>2. e.frames = <<>> /\ e.state = "DOC_END_EXPLICIT" /\ Good(e)
    BY <1>1, <2>1 DEF Way
  <2> HIDE DEF e
  <2>3. Way(a, e, e, <<"DOC_DONE">>, n)
    BY <2>1, <2>2, Rebase
  <2>4. /\ "DOC_END_EXPLICIT" \notin BetweenDocuments \cup {"STREAM_START"} \cup InnerStates
                                     \cup NodeStates \cup AwayStates
    BY RootLevels DEF BetweenDocuments, InnerStates, NodeStates, AwayStates
  <2>5. StatePlaced(e)
    BY <2>2, <2>4 DEF StatePlaced
  <2>6. OpenAt(e) = <<"DOC_DONE">>
    BY <2>2, <2>4, RootLevels DEF OpenAt
  <2> QED BY <2>1, <2>2, <2>3, <2>4, <2>5, <2>6, StayDone
<1>4. Done(a, Goto([Emit(r, "DOC_END") EXCEPT !.doc_open = FALSE], "STREAM_DOC_LOOP"))
  <2>1. Way(a, q0, Consume(p), <<"DOC_DONE">>, n) /\ Clear(Consume(p))
    BY <1>1, ConsumeWay
  <2>2. Consume(p).frames = <<>>
    BY <1>1, <2>1 DEF Way
  <2>3. Way(a, q0, r, <<"DOC_DONE">>, n) /\ Clear(r) /\ r.frames = <<>>
    BY <1>1, <2>1, <2>2
  <2> HIDE DEF r
  <2> QED BY <2>3, CloseDone
<1>5. CASE p.have_token
  <2>1. EndDocument(q) = e
        \/ EndDocument(q) = Goto([Emit(r, "DOC_END") EXCEPT !.doc_open = FALSE], "STREAM_DOC_LOOP")
    <3> HIDE DEF r, e
    <3> QED BY <1>5 DEF EndDocument, p, e, r
  <2> QED BY <1>3, <1>4, <2>1
<1> QED BY <1>2, <1>5

\* ST_DOC_END_EXPLICIT.
LEMMA DocEndDone ==
  ASSUME NEW a, NEW q, AtStart(a, q), q.state = "DOC_END_EXPLICIT"
  PROVE  Done(a, EndDocument(q))
<1>1. q.state \in RootStates /\ q.state # "STREAM_START"
      /\ OpenIn(q.state) = <<"DOC_DONE">>
  BY RootLevels
<1>2. 0 \in 0..7
  OBVIOUS
<1> QED BY <1>1, <1>2, RootStart, EndDocumentWay

-----------------------------------------------------------------------------
(***************************************************************************)
(* What a step inside a document starts from, and how it may end.          *)
(***************************************************************************)

\* In a state of the collection on top.
LEMMA InnerStart ==
  ASSUME NEW a, NEW q, AtStart(a, q), q.state \in InnerStates
  PROVE  /\ Way(a, q, q, OpenIn(q.state), 0) /\ q.frames # <<>> /\ StatePlaced(q)
         /\ Fits(q.frames, OpenIn(q.state)) /\ OpenAt(q) = OpenIn(q.state)
         /\ q.state \notin AwayStates \cup {"STREAM_START"}
         /\ q.state # "FLOW_SEQ_LOOP" => Clear(q)
<1>1. /\ q.state \notin AwayStates \cup {"STREAM_START", "FLOW_NODE"}
      /\ q.state \notin NodeStates
  BY DEF InnerStates, RootStates, NodeStates
<1>2. OpenAt(q) = OpenIn(q.state)
  BY <1>1 DEF OpenAt
<1>3. q.frames # <<>> /\ StatePlaced(q)
  BY DEF AtStart, Placed, StatePlaced
<1> QED BY <1>1, <1>2, <1>3, StartWay

\* In a node.
LEMMA NodeBegin ==
  ASSUME NEW a, NEW q, AtStart(a, q), q.state \in NodeStates
  PROVE  /\ Way(a, q, q, Awaiting(q.node_return), 0) /\ NodePlaced(q) /\ StatePlaced(q)
         /\ Fits(q.frames, Awaiting(q.node_return)) /\ OpenAt(q) = Awaiting(q.node_return)
         /\ q.state \notin AwayStates \cup {"STREAM_START"}
         /\ q.state # "FLOW_NODE" => Clear(q)
         /\ q.node_return \in ReturnState /\ Good(q)
<1>1. /\ q.state \notin AwayStates \cup {"STREAM_START", "FLOW_SEQ_LOOP"}
  BY DEF NodeStates, AwayStates
<1>2. OpenAt(q) = Awaiting(q.node_return)
  BY DEF OpenAt
<1>3. NodePlaced(q) /\ StatePlaced(q) /\ Good(q)
  BY DEF AtStart, Placed, StatePlaced
<1> QED BY <1>1, <1>2, <1>3, StartWay, FieldTypes

\* A parse error leaves the state as it was.
LEMMA ErrorDone ==
  ASSUME NEW a, NEW q0, NEW q, NEW w, NEW n, Way(a, q0, q, w, n),
         StatePlaced(q0), q0.state \notin AwayStates \cup {"STREAM_START"}, w = OpenAt(q0),
         Clear(q)
  PROVE  Done(a, ParseError(q))
BY ParseErrorWay, StayDone

\* An empty node, a scalar or an alias, and on in the collection.
LEMMA LeafInnerDone ==
  ASSUME NEW a, NEW q0, NEW q, NEW w, NEW n \in 0..7, Way(a, q0, q, w, n), Clear(q),
         q.frames # <<>>, Fits(q.frames, w), NEW e \in Stream!Leaf,
         NEW t \in InnerStates, Advanced(w, OpenIn(t))
  PROVE  Done(a, Goto(Emit(q, e), t))
<1>1. Way(a, q0, Emit(q, e), OpenIn(t), n + 1) /\ Clear(Emit(q, e))
  BY LeafWay
<1>2. Emit(q, e).frames # <<>>
  BY <1>1, WayFields
<1> QED BY <1>1, <1>2, InnerDone

\* A scalar or an alias, and back to where the node returns.
LEMMA LeafReturnDone ==
  ASSUME NEW a, NEW q0, NEW q, NEW t \in ReturnState, NEW n \in 0..7,
         Way(a, q0, q, Awaiting(t), n), Clear(q), t # "STREAM_START",
         (t = "DOC_END_EXPLICIT") <=> (q.frames = <<>>),
         Fits(q.frames, Awaiting(t)), NEW e \in Stream!Leaf
  PROVE  Done(a, Goto(Emit(q, e), t))
<1>1. Advanced(Awaiting(t), Parents(t))
  BY AwaitingAdvances
<1>2. Way(a, q0, Emit(q, e), Parents(t), n + 1) /\ Clear(Emit(q, e))
  BY <1>1, LeafWay
<1>3. Emit(q, e).frames = q.frames
  BY <1>2, WayFields
<1> QED BY <1>2, <1>3, ReturnDone

\* On to a node of the collection on top.
LEMMA EntryDone ==
  ASSUME NEW a, NEW q0, NEW q, NEW w, NEW n, Way(a, q0, q, w, n), q.frames # <<>>,
         NEW t \in {"BLOCK_NODE", "FLOW_NODE"},
         NEW rs \in ReturnState \ {"STREAM_START", "DOC_END_EXPLICIT"},
         t = "BLOCK_NODE" => rs \in BlockReturns /\ Clear(q), w = Awaiting(rs)
  PROVE  Done(a, GotoNode(q, t, rs))
<1> DEFINE r == GotoNode(q, t, rs)
<1>1. t \in State /\ t \in NodeStates
  BY DEF State, BlockStates, FlowStates, NodeStates
<1>2. Good(q)
  BY WayFields
<1>3. /\ Good(r) /\ r.state = t /\ r.node_return = rs
      /\ r.frames = q.frames /\ r.out_buf = q.out_buf
      /\ r.stop_status = q.stop_status /\ r.events_delivered = q.events_delivered
      /\ r.has_anchor = q.has_anchor /\ r.has_tag = q.has_tag
  BY <1>1, <1>2, GotoNodeFields
<1> HIDE DEF r
<1>4. NodePlaced(r)
  BY <1>3 DEF NodePlaced
<1>5. Done(a, r)
  BY <1>1, <1>3, <1>4, NodeDone
<1> QED BY <1>5 DEF r

\* On to another state of the same node.
LEMMA SameNodeDone ==
  ASSUME NEW a, NEW q0, NEW q, NEW n, Way(a, q0, q, Awaiting(q0.node_return), n), Clear(q),
         NodePlaced(q0), q0.node_return \in BlockReturns, NEW t \in NodeStates
  PROVE  Done(a, Goto(q, t))
<1> DEFINE r == Goto(q, t)
<1>1. t \in State
  BY DEF State, BlockStates, FlowStates, NodeStates
<1>2. Good(q) /\ q.frames = q0.frames /\ q.node_return = q0.node_return
  BY WayFields
<1>3. /\ Good(r) /\ r.state = t /\ r.node_return = q.node_return
      /\ r.frames = q.frames /\ r.out_buf = q.out_buf
      /\ r.stop_status = q.stop_status /\ r.events_delivered = q.events_delivered
      /\ r.has_anchor = q.has_anchor /\ r.has_tag = q.has_tag
  BY <1>1, <1>2, GotoFields
<1> HIDE DEF r
<1>4. NodePlaced(r)
  BY <1>2, <1>3 DEF NodePlaced
<1>5. Done(a, r)
  BY <1>2, <1>3, <1>4, NodeDone
<1> QED BY <1>5 DEF r

\* The lookahead changes no frame and no event.
LEMMA LookAheadWay ==
  ASSUME NEW a, NEW q0, NEW q, NEW w, NEW n, Way(a, q0, q, w, n)
  PROVE  /\ Way(a, q0, LookAhead(q, q.current.pos), w, n)
         /\ Clear(q) => Clear(LookAhead(q, q.current.pos))
<1> DEFINE r == LookAhead(q, q.current.pos)
<1>1. Good(q)
  BY WayFields
<1>2. Good(r)
  BY <1>1, LookAheadGood
<1>3. Quiet(q, r) /\ (Clear(q) => Clear(r))
  BY <1>1 DEF LookAhead, Good, ParserRecord, Quiet, Clear, Bare
<1> HIDE DEF r
<1>4. Way(a, q0, r, w, n)
  BY <1>2, <1>3, QuietWay
<1> QED BY <1>3, <1>4 DEF r

\* A token, the next one read.
LEMMA NextWay ==
  ASSUME NEW a, NEW q0, NEW q, NEW w, NEW n, Way(a, q0, q, w, n), Clear(q)
  PROVE  Way(a, q0, Peek(Consume(q)), w, n) /\ Clear(Peek(Consume(q)))
<1> DEFINE c == Consume(q)
<1>1. Way(a, q0, c, w, n) /\ Clear(c)
  BY ConsumeWay
<1> HIDE DEF c
<1>2. Way(a, q0, Peek(c), w, n) /\ Clear(Peek(c))
  BY <1>1, PeekWay
<1> QED BY <1>2 DEF c

-----------------------------------------------------------------------------
(***************************************************************************)
(* Block nodes.                                                            *)
(***************************************************************************)

\* ST_BLOCK_NODE.
LEMMA BlockNodeDone ==
  ASSUME NEW a, NEW q, AtStart(a, q), q.state = "BLOCK_NODE"
  PROVE  Done(a, BlockNode(q))
<1> DEFINE p == Peek(q)
           ahead == LookAhead(p, p.current.pos)
           w == Awaiting(q.node_return)
           e == ParseError(p)
<1>1. q.state \in NodeStates /\ q.state # "FLOW_NODE"
  BY DEF NodeStates
<1>2. /\ Way(a, q, q, w, 0) /\ Clear(q) /\ NodePlaced(q) /\ StatePlaced(q)
      /\ w = OpenAt(q) /\ q.state \notin AwayStates \cup {"STREAM_START"}
      /\ q.node_return \in BlockReturns
  BY <1>1, NodeBegin DEF NodePlaced
<1>3. Way(a, q, p, w, 0) /\ Clear(p)
  BY <1>2, PeekWay
<1> HIDE DEF p
<1>4. Way(a, q, ahead, w, 0) /\ Clear(ahead)
  BY <1>3, LookAheadWay
<1> HIDE DEF ahead, w
<1>5. Done(a, e)
  BY <1>2, <1>3, ErrorDone
<1> HIDE DEF e
<1>6. ASSUME NEW t \in NodeStates PROVE Done(a, Goto(p, t)) /\ Done(a, Goto(ahead, t))
  BY <1>2, <1>3, <1>4, SameNodeDone DEF w
<1>7. Done(a, Goto(p, "EAGER_DRAIN")) /\ Done(a, Goto(ahead, "EAGER_DRAIN"))
  <2>1. "EAGER_DRAIN" \in AwayStates /\ "EAGER_DRAIN" # "DONE"
    BY DEF AwayStates
  <2> QED BY <1>3, <1>4, <2>1, AwayDone
<1>8. BlockNodeFlow(p) \in {Goto(p, "FLOW_NODE"), Goto(ahead, "EAGER_DRAIN"),
                            Goto(ahead, "FLOW_NODE")}
  BY DEF BlockNodeFlow, ahead
<1>9. BlockNode(q) \in {Goto(p, "EAGER_DRAIN"), Goto(p, "BLOCK_NODE_ALIAS"),
                        Goto(p, "BLOCK_NODE_SEQ"), Goto(p, "BLOCK_NODE_EXPLICIT_KEY"),
                        Goto(p, "BLOCK_NODE_BARE_VALUE"), BlockNodeFlow(p),
                        Goto(p, "BLOCK_NODE_SCALAR"), e, Goto(p, "BLOCK_NODE_EMPTY")}
  BY DEF BlockNode, p, e
<1>10. {"BLOCK_NODE_ALIAS", "BLOCK_NODE_SEQ", "BLOCK_NODE_EXPLICIT_KEY",
        "BLOCK_NODE_BARE_VALUE", "BLOCK_NODE_SCALAR", "BLOCK_NODE_EMPTY", "FLOW_NODE"}
          \subseteq NodeStates
  BY DEF NodeStates
<1> QED BY <1>5, <1>6, <1>7, <1>8, <1>9, <1>10

\* ST_BLOCK_NODE_SCALAR and ST_BLOCK_NODE_ALIAS.
LEMMA BlockNodeLeafDone ==
  ASSUME NEW a, NEW q, AtStart(a, q), q.state \in {"BLOCK_NODE_SCALAR", "BLOCK_NODE_ALIAS"},
         NEW e \in Stream!Leaf, NEW t \in {"BLOCK_NODE_SCALAR_KEY", "BLOCK_NODE_ALIAS_KEY"}
  PROVE  Done(a, BlockNodeLeaf(q, e, t))
<1> DEFINE p == Peek(q)
           c == Peek(Consume(p))
           col == Col(p)
           r == [c EXCEPT !.saved_node = e, !.saved_node_col = col]
           w == Awaiting(q.node_return)
<1>1. q.state \in NodeStates /\ q.state # "FLOW_NODE" /\ t \in NodeStates
  BY DEF NodeStates
<1>2. /\ Way(a, q, q, w, 0) /\ Clear(q) /\ NodePlaced(q) /\ Fits(q.frames, w)
      /\ q.node_return \in BlockReturns /\ q.node_return \in ReturnState
  BY <1>1, NodeBegin DEF NodePlaced
<1>3. Way(a, q, p, w, 0) /\ Clear(p) /\ Good(p)
  BY <1>2, PeekWay
<1>4. col \in Nat
  BY <1>3, FieldTypes
<1> HIDE DEF p, col
<1>5. Way(a, q, c, w, 0) /\ Clear(c)
  BY <1>3, NextWay
<1> HIDE DEF c
<1>6. Good(c) /\ c.frames = q.frames /\ c.node_return = q.node_return
  BY <1>5, WayFields
<1>7. Done(a, Goto(r, t))
  <2>1. r \in ParserRecord
    BY <1>4, <1>6 DEF Good, ParserRecord
  <2>2. Bounds(r)
    BY <1>6 DEF Good, ParserRecord, Bounds
  <2>3. Quiet(c, r) /\ (Clear(c) => Clear(r)) /\ Good(r)
    BY <1>6, <2>1, <2>2 DEF Good, ParserRecord, Quiet, Clear, Bare
  <2> HIDE DEF r
  <2>4. Way(a, q, r, w, 0) /\ Clear(r)
    BY <1>5, <2>3, QuietWay
  <2> QED BY <1>1, <1>2, <2>4, SameNodeDone
<1>8. Done(a, Goto(Emit(c, e), c.node_return))
  <2>1. 0 \in 0..7
    OBVIOUS
  <2>2. /\ (c.node_return = "DOC_END_EXPLICIT") <=> (c.frames = <<>>)
        /\ c.node_return # "STREAM_START"
    BY <1>2, <1>6 DEF NodePlaced
  <2> QED BY <1>2, <1>5, <1>6, <2>1, <2>2, LeafReturnDone
<1>9. BlockNodeLeaf(q, e, t) \in {Goto(r, t), Goto(Emit(c, e), c.node_return)}
  BY DEF BlockNodeLeaf, p, c, r, col
<1> QED BY <1>7, <1>8, <1>9

\* A block node's parent is one level.
LEMMA BlockParents ==
  ASSUME NEW rs \in BlockReturns
  PROVE  /\ rs \in ReturnState /\ rs # "STREAM_START"
         /\ \E x \in Stream!Level : Parents(rs) = <<x>>
<1>1. \/ Parents(rs) = <<"DOC_DONE">> \/ Parents(rs) = <<"VALUE">>
      \/ Parents(rs) = <<"KEY">> \/ Parents(rs) = <<"SEQ">>
  BY DEF BlockReturns, Parents
<1>2. {"DOC_DONE", "VALUE", "KEY", "SEQ"} \subseteq Stream!Level
  BY DEF Stream!Level
<1> QED BY <1>1, <1>2 DEF BlockReturns, ReturnState

\* The event that starts a block collection.
LEMMA BlockStartWay ==
  ASSUME NEW a, NEW q0, NEW q, NEW rs \in BlockReturns, NEW n \in 0..7,
         Way(a, q0, q, Awaiting(rs), n), Fits(q.frames, Awaiting(rs)),
         NEW x \in Stream!Level, Parents(rs) = <<x>>,
         NEW e, NEW y, \/ e = "MAPPING_START" /\ y = "KEY"
                       \/ e = "SEQUENCE_START" /\ y = "SEQ"
  PROVE  /\ Way(a, q0, Emit(q, e), <<x, y>>, n + 1) /\ Fits(q.frames, <<x, y>>)
         /\ Clear(q) => Clear(Emit(q, e))
<1> DEFINE l == Levels(q.frames)
           w == Awaiting(rs)
<1>1. /\ q.frames \in Seq(Frame) /\ FramesPlaced(q.frames) /\ l \in Seq(Stream!Level)
      /\ MaxDepth > 0 => Len(q.frames) <= MaxDepth
  BY WayTypes
<1>2. Advanced(w, <<x>>)
  BY BlockParents, AwaitingAdvances
<1>3. y \in Stream!Level /\ e \in Stream!Event /\ n \in Nat /\ n < OutSize
  BY DEF Stream!Level, Stream!Event, OutSize
<1>4. Fits(q.frames, <<x, y>>)
  <2>1. Fits(q.frames, <<x>>)
    BY <1>2, AdvancedFits
  <2>2. <<x>> # <<>> /\ <<x>>[1] = x /\ <<x, y>>[1] = x
    OBVIOUS
  <2>3. <<x, y>> \in Seq(Stream!Level) /\ Len(<<x, y>>) <= 2
    BY <1>3
  <2> QED BY <2>1, <2>2, <2>3 DEF Fits
<1>5. l \o <<x, y>> \in Room
  BY <1>1, <1>4, FitsRoom
<1> HIDE DEF l, w
<1>6. e \in Stream!Accepts(l \o w) /\ Stream!After(l \o w, e) = l \o <<x, y>>
  <2>1. l \o <<x>> = Append(l, x) /\ l \o <<x, y>> = Append(Append(l, x), y)
    BY <1>1, <1>3, Words
  <2> QED BY <1>1, <1>2, <2>1, AdvancedStep
<1>7. Way(a, q0, Emit(q, e), <<x, y>>, n + 1) /\ (Clear(q) => Clear(Emit(q, e)))
  BY <1>3, <1>5, <1>6, EmitWay DEF l, w
<1> QED BY <1>4, <1>7

\* A mapping's first key, its frame not pushed yet.
LEMMA BlockKeyWay ==
  ASSUME NEW a, NEW q0, NEW q, NEW n \in 0..7, NEW x \in Stream!Level,
         Way(a, q0, q, <<x, "KEY">>, n), Fits(q.frames, <<x, "KEY">>), NEW e \in Stream!Leaf
  PROVE  /\ Way(a, q0, Emit(q, e), <<x, "VALUE">>, n + 1)
         /\ Clear(q) => Clear(Emit(q, e))
<1> DEFINE l == Levels(q.frames)
<1>1. /\ q.frames \in Seq(Frame) /\ FramesPlaced(q.frames) /\ l \in Seq(Stream!Level)
      /\ MaxDepth > 0 => Len(q.frames) <= MaxDepth
  BY WayTypes
<1>2. /\ "KEY" \in Stream!Level /\ "VALUE" \in Stream!Level /\ "KEY" \in Waiting
      /\ e \in Stream!Event /\ n \in Nat /\ n < OutSize /\ Stream!AfterNode("KEY") = "VALUE"
  BY DEF Stream!Level, Stream!Leaf, Stream!Event, OutSize, Waiting, Stream!AfterNode
<1>3. Fits(q.frames, <<x, "VALUE">>)
  <2>1. <<x, "KEY">> # <<>> /\ <<x, "KEY">>[1] = x /\ <<x, "VALUE">>[1] = x
    OBVIOUS
  <2>2. <<x, "VALUE">> \in Seq(Stream!Level) /\ Len(<<x, "VALUE">>) <= 2
    BY <1>2
  <2> QED BY <2>1, <2>2 DEF Fits
<1>4. l \o <<x, "VALUE">> \in Room
  BY <1>1, <1>3, FitsRoom
<1> HIDE DEF l
<1>5. /\ e \in Stream!Accepts(l \o <<x, "KEY">>)
      /\ Stream!After(l \o <<x, "KEY">>, e) = l \o <<x, "VALUE">>
  <2>1. /\ l \o <<x, "KEY">> = Append(Append(l, x), "KEY")
        /\ l \o <<x, "VALUE">> = Append(Append(l, x), "VALUE")
        /\ Append(l, x) \in Seq(Stream!Level)
    BY <1>1, <1>2, Words
  <2> QED BY <1>2, <2>1, NodeStep
<1> QED BY <1>2, <1>4, <1>5, EmitWay DEF l

\* A frame on top of placed ones.
LEMMA PushPlaced ==
  ASSUME NEW frames \in Seq(Frame), FramesPlaced(frames), NEW f \in Frame,
         f.return_state # "STREAM_START",
         (f.return_state = "DOC_END_EXPLICIT") <=> (frames = <<>>)
  PROVE  FramesPlaced(Append(frames, f)) /\ Append(frames, f) # <<>>
<1> DEFINE n == Len(frames)
           more == Append(frames, f)
<1>1. /\ n \in Nat /\ Len(more) = n + 1 /\ more[n+1] = f /\ more # <<>>
      /\ \A i \in 1..n : more[i] = frames[i]
      /\ (frames = <<>>) <=> (n = 0)
  OBVIOUS
<1> HIDE DEF more
<1>2. ASSUME NEW i \in 1..n+1
      PROVE  /\ more[i].return_state # "STREAM_START"
             /\ (more[i].return_state = "DOC_END_EXPLICIT") <=> (i = 1)
  <2>1. CASE i \in 1..n
    BY <1>1, <2>1 DEF FramesPlaced
  <2>2. CASE i = n + 1
    <3>1. i = 1 <=> n = 0
      BY <1>1, <2>2
    <3> QED BY <1>1, <2>2, <3>1
  <2> QED BY <1>1, <2>1, <2>2
<1>3. FramesPlaced(more)
  BY <1>1, <1>2 DEF FramesPlaced
<1> QED BY <1>1, <1>3 DEF more

\* The parser stopped in the middle of a step, with part of its events.
Halted(a, r) ==
  /\ r.stop_status # "NONE"
  /\ r.stop_status = "ERR_LIMIT" => Reached(r)
  /\ \E b : Path(a, r.out_buf, b)

\* Such a step may end in any state.
LEMMA HaltedDone ==
  ASSUME NEW a, NEW r, Good(r), Halted(a, r), NEW t \in State
  PROVE  Done(a, Goto(r, t))
<1> DEFINE g == Goto(r, t)
<1>1. /\ Good(g) /\ g.frames = r.frames /\ g.out_buf = r.out_buf
      /\ g.stop_status = r.stop_status /\ g.events_delivered = r.events_delivered
  BY GotoFields
<1> HIDE DEF g
<1>2. Done(a, g)
  BY <1>1 DEF Done, Halted, Reached, AtEventLimit
<1> QED BY <1>2 DEF g

\* Events withheld: those before are still on their way.
LEMMA WithholdPath ==
  ASSUME NEW a, NEW out \in Seq(Stream!Event), NEW b, Path(a, out, b)
  PROVE  \E c : Path(a, Withhold(out), c)
<1> DEFINE starts == {k \in 1..Len(out) : out[k] \in CollectionStarts}
           last == CHOOSE k \in starts : \A j \in starts : j <= k
<1>1. CASE starts = {}
  BY <1>1 DEF Withhold
<1>2. CASE starts # {}
  <2>1. starts \in SUBSET (1..Len(out)) /\ Len(out) \in Nat
    OBVIOUS
  <2>2. last \in starts
    <3>1. \E k \in starts : \A j \in starts : j <= k
      <4> HIDE DEF starts
      <4> QED BY <1>2, <2>1, BoundedMax
    <3> QED BY <3>1
  <2>3. last \in 1..Len(out)
    BY <2>1, <2>2
  <2>4. Withhold(out) = SubSeq(out, 1, last - 1)
    BY <1>2 DEF Withhold
  <2> HIDE DEF last
  <2>5. last - 1 \in Nat /\ last - 1 <= Len(out)
    BY <2>1, <2>3
  <2>6. \E c : Path(a, SubSeq(out, 1, last - 1), c)
    BY <2>5, PathPrefix
  <2> QED BY <2>4, <2>6
<1> QED BY <1>1, <1>2

\* What a push of a frame after q leaves in r, from where y is still to be read.
Pushes(a, q, r, y, n) ==
  /\ Good(r) /\ (Clear(q) => Clear(r))
  /\ \/ Way(a, r, r, <<y>>, n) /\ r.frames # <<>>
     \/ /\ Halted(a, r) /\ r.frames = q.frames
        /\ r.events_delivered = q.events_delivered
        /\ r.out_buf \in {q.out_buf, Withhold(q.out_buf)}

\* Pushing the frame of a block collection whose start has been queued.
LEMMA BlockPushWay ==
  ASSUME NEW a, NEW q0, NEW q, NEW n, NEW x \in Stream!Level, NEW y \in Stream!Level,
         Way(a, q0, q, <<x, y>>, n), ~q.scan_error,
         NEW rs \in BlockReturns, Parents(rs) = <<x>>,
         (rs = "DOC_END_EXPLICIT") <=> (q.frames = <<>>),
         NEW type \in BlockContext, NEW indent \in Nat
  PROVE  Pushes(a, q, PushFrame(q, type, indent, rs), y, n)
<1> DEFINE r == PushFrame(q, type, indent, rs)
           f == [type |-> type, indent |-> indent, return_state |-> rs]
           l == Levels(q.frames)
           more == Append(q.frames, f)
           less == Withhold(q.out_buf)
<1> SUFFICES /\ Good(r) /\ (Clear(q) => Clear(r))
             /\ \/ Way(a, r, r, <<y>>, n) /\ r.frames # <<>>
                \/ /\ Halted(a, r) /\ r.frames = q.frames
                   /\ r.events_delivered = q.events_delivered
                   /\ r.out_buf \in {q.out_buf, Withhold(q.out_buf)}
  BY DEF Pushes
<1>1. /\ Good(q) /\ q.frames \in Seq(Frame) /\ FramesPlaced(q.frames)
      /\ l \in Seq(Stream!Level)
  BY WayTypes
<1>2. rs \in ReturnState /\ rs # "STREAM_START"
  BY BlockParents
<1>3. Good(r)
  BY <1>1, <1>2, PushFrameGood
<1>4. q.stop_status = "NONE" \/ (q.stop_status = "ERR_LIMIT" /\ AtEventLimit(q))
  BY DEF Way
<1>5. (\E b : Path(a, q.out_buf, b)) /\ (\E b : Path(a, less, b))
  <2>1. PICK b : Path(a, q.out_buf, b)
    BY DEF Way
  <2>2. q.out_buf \in Seq(Stream!Event)
    BY <1>1, FieldTypes
  <2> QED BY <2>1, <2>2, WithholdPath
<1> HIDE DEF less
<1>6. CASE r = StopWith(q, "ERR_PARSE")
  <2>1. r.stop_status # "NONE" /\ r.frames = q.frames /\ r.out_buf = q.out_buf
        /\ r.events_delivered = q.events_delivered /\ Clear(r)
        /\ (r.stop_status = "ERR_LIMIT" => q.stop_status = "ERR_LIMIT")
    BY <1>1, <1>6 DEF StopWith, Good, ParserRecord, Clear
  <2> HIDE DEF r
  <2>2. r.stop_status = "ERR_LIMIT" => Reached(r)
    BY <1>4, <2>1 DEF Reached, AtEventLimit
  <2>3. Halted(a, r)
    BY <1>5, <2>1, <2>2 DEF Halted
  <2> QED BY <1>3, <2>1, <2>3 DEF r
<1>7. CASE /\ MaxDepth > 0 /\ Len(q.frames) >= MaxDepth
           /\ r = StopWith([q EXCEPT !.out_buf = less], "ERR_LIMIT")
  <2>1. r.stop_status # "NONE" /\ r.frames = q.frames /\ r.out_buf = less
        /\ r.events_delivered = q.events_delivered /\ Clear(r)
    BY <1>1, <1>7 DEF StopWith, Good, ParserRecord, Clear
  <2> HIDE DEF r
  <2>2. Reached(r)
    BY <1>7, <2>1 DEF Reached
  <2>3. Halted(a, r)
    BY <1>5, <2>1, <2>2 DEF Halted
  <2> QED BY <1>3, <2>1, <2>3 DEF r, less
<1>8. CASE r = [q EXCEPT !.frames = more]
  <2>1. f \in Frame /\ f.return_state = rs
    BY <1>2 DEF Frame
  <2> HIDE DEF f
  <2>2. FramesPlaced(more) /\ more # <<>>
    BY <1>1, <1>2, <2>1, PushPlaced
  <2>3. Levels(more) = l \o <<x>>
    BY <1>1, <2>1, LevelsAppend
  <2> HIDE DEF more, l
  <2>4. Levels(more) \o <<y>> = l \o <<x, y>>
    <3>1. l \o <<x>> = Append(l, x) /\ l \o <<x, y>> = Append(Append(l, x), y)
          /\ Append(l, x) \in Seq(Stream!Level)
      BY <1>1, Words
    <3>2. Append(l, x) \o <<y>> = Append(Append(l, x), y)
      BY <3>1, Words
    <3> QED BY <2>3, <3>1, <3>2
  <2>5. /\ r.frames = more /\ r.out_buf = q.out_buf /\ r.stop_status = q.stop_status
        /\ r.events_delivered = q.events_delivered
        /\ r.has_anchor = q.has_anchor /\ r.has_tag = q.has_tag
    BY <1>1, <1>8 DEF Good, ParserRecord
  <2> HIDE DEF r
  <2>6. Way(a, r, r, <<y>>, n)
    BY <1>3, <2>2, <2>4, <2>5 DEF Way, AtEventLimit, l
  <2>7. Clear(q) => Clear(r)
    BY <2>5 DEF Clear, Bare
  <2> QED BY <1>3, <2>2, <2>5, <2>6, <2>7 DEF r
<1>9. \/ r = StopWith(q, "ERR_PARSE")
      \/ /\ MaxDepth > 0 /\ Len(q.frames) >= MaxDepth
         /\ r = StopWith([q EXCEPT !.out_buf = less], "ERR_LIMIT")
      \/ r = [q EXCEPT !.frames = more]
  BY DEF PushFrame, less
<1> QED BY <1>6, <1>7, <1>8, <1>9

\* A block collection's first state, its start queued and its frame pushed.
LEMMA BlockPushDone ==
  ASSUME NEW a, NEW q0, NEW q, NEW n, NEW x \in Stream!Level, NEW y \in Stream!Level,
         Way(a, q0, q, <<x, y>>, n), ~q.scan_error, Clear(q),
         NEW rs \in BlockReturns, Parents(rs) = <<x>>,
         (rs = "DOC_END_EXPLICIT") <=> (q.frames = <<>>),
         NEW type \in BlockContext, NEW indent \in Nat,
         NEW t \in InnerStates, OpenIn(t) = <<y>>
  PROVE  Done(a, Goto(PushFrame(q, type, indent, rs), t))
<1> DEFINE r == PushFrame(q, type, indent, rs)
<1>1. /\ Good(r) /\ Clear(r)
      /\ (Way(a, r, r, <<y>>, n) /\ r.frames # <<>>) \/ Halted(a, r)
  BY BlockPushWay DEF Pushes
<1> HIDE DEF r
<1>2. CASE Way(a, r, r, <<y>>, n) /\ r.frames # <<>>
  <2>1. Done(a, Goto(r, t))
    BY <1>1, <1>2, InnerDone
  <2> QED BY <2>1 DEF r
<1>3. CASE Halted(a, r)
  <2>1. t \in State
    BY DEF InnerStates
  <2>2. Done(a, Goto(r, t))
    BY <1>1, <1>3, <2>1, HaltedDone
  <2> QED BY <2>2 DEF r
<1> QED BY <1>1, <1>2, <1>3

\* ST_BLOCK_NODE_SCALAR_KEY and ST_BLOCK_NODE_ALIAS_KEY.
LEMMA BlockNodeKeyDone ==
  ASSUME NEW a, NEW q, AtStart(a, q),
         q.state \in {"BLOCK_NODE_SCALAR_KEY", "BLOCK_NODE_ALIAS_KEY"}
  PROVE  Done(a, BlockNodeKey(q))
<1> DEFINE m == Emit(q, "MAPPING_START")
           e == Emit(m, q.saved_node)
           rs == q.node_return
<1>1. q.state \in NodeStates /\ q.state # "FLOW_NODE"
  BY DEF NodeStates
<1>2. /\ Way(a, q, q, Awaiting(rs), 0) /\ Clear(q) /\ Fits(q.frames, Awaiting(rs))
      /\ rs \in BlockReturns /\ ((rs = "DOC_END_EXPLICIT") <=> (q.frames = <<>>))
      /\ Good(q) /\ ~q.scan_error /\ q.saved_node \in Stream!Leaf /\ q.saved_node_col \in Nat
  BY <1>1, NodeBegin, FieldTypes DEF NodePlaced, AtStart
<1>3. PICK x \in Stream!Level : Parents(rs) = <<x>>
  BY <1>2, BlockParents
<1>4. /\ 0 \in 0..7 /\ 0 + 1 \in 0..7
      /\ "KEY" \in Stream!Level /\ "VALUE" \in Stream!Level
      /\ "MAPPING_START" \in Stream!Event /\ q.saved_node \in Stream!Event
  BY <1>2 DEF Stream!Level, Stream!Event, Stream!Leaf
<1> HIDE DEF rs
<1>5. /\ Way(a, q, m, <<x, "KEY">>, 0 + 1) /\ Fits(q.frames, <<x, "KEY">>) /\ Clear(m)
  BY <1>2, <1>3, <1>4, BlockStartWay
<1>6. ~m.scan_error
  BY <1>2, <1>4, EmitScanError
<1> HIDE DEF m
<1>7. Good(m) /\ m.frames = q.frames
  BY <1>5, WayFields
<1>8. Way(a, q, e, <<x, "VALUE">>, 0 + 1 + 1) /\ Clear(e)
  <2>1. Fits(m.frames, <<x, "KEY">>)
    BY <1>5, <1>7
  <2> QED BY <1>2, <1>4, <1>5, <2>1, BlockKeyWay
<1>9. ~e.scan_error
  BY <1>4, <1>6, <1>7, EmitScanError
<1> HIDE DEF e
<1>10. e.frames = q.frames
  BY <1>8, WayFields
<1>11. /\ "BLOCK_MAP" \in BlockContext /\ "BLOCK_MAP_VALUE" \in InnerStates
       /\ OpenIn("BLOCK_MAP_VALUE") = <<"VALUE">>
  BY DEF BlockContext, InnerStates, State, BlockStates, RootStates, BetweenDocuments,
         NodeStates, AwayStates, OpenIn
<1>12. (rs = "DOC_END_EXPLICIT") <=> (e.frames = <<>>)
  BY <1>2, <1>10
<1>13. Done(a, Goto(PushFrame(e, "BLOCK_MAP", q.saved_node_col, rs), "BLOCK_MAP_VALUE"))
  BY <1>2, <1>3, <1>4, <1>8, <1>9, <1>11, <1>12, BlockPushDone
<1> QED BY <1>13 DEF BlockNodeKey, e, m, rs

\* A block collection at the indicator that is its first token, its start
\* queued.
LEMMA BlockOpenStart ==
  ASSUME NEW a, NEW q, AtStart(a, q), q.state \in NodeStates, q.state # "FLOW_NODE",
         q.state \in TokenStates,
         NEW e, NEW y, \/ e = "MAPPING_START" /\ y = "KEY"
                       \/ e = "SEQUENCE_START" /\ y = "SEQ"
  PROVE  /\ Peek(q) = q /\ Col(q) \in Nat /\ Good(q) /\ q.stop_status = "NONE"
         /\ q.out_buf = <<>> /\ q.node_return \in BlockReturns
         /\ (q.node_return = "DOC_END_EXPLICIT") <=> (q.frames = <<>>)
         /\ Fits(q.frames, Awaiting(q.node_return))
         /\ ~Emit(q, e).scan_error /\ Clear(Emit(q, e)) /\ y \in Stream!Level
         /\ Emit(q, e).frames = q.frames /\ e \in Stream!Event
         /\ \E x \in Stream!Level : /\ Parents(q.node_return) = <<x>>
                                    /\ Way(a, q, Emit(q, e), <<x, y>>, 1)
<1> DEFINE rs == q.node_return
<1>1. /\ Way(a, q, q, Awaiting(rs), 0) /\ Clear(q) /\ Fits(q.frames, Awaiting(rs))
      /\ rs \in BlockReturns /\ ((rs = "DOC_END_EXPLICIT") <=> (q.frames = <<>>))
      /\ Good(q) /\ ~q.scan_error /\ q.have_token /\ Col(q) \in Nat
      /\ q.stop_status = "NONE" /\ q.out_buf = <<>>
  BY NodeBegin, FieldTypes DEF NodePlaced, AtStart
<1>2. Peek(q) = q
  BY <1>1 DEF Peek
<1>3. PICK x \in Stream!Level : Parents(rs) = <<x>>
  BY <1>1, BlockParents
<1>4. 0 \in 0..7 /\ y \in Stream!Level /\ e \in Stream!Event
  BY DEF Stream!Level, Stream!Event
<1> HIDE DEF rs
<1>5. Way(a, q, Emit(q, e), <<x, y>>, 0 + 1) /\ Clear(Emit(q, e))
  BY <1>1, <1>3, <1>4, BlockStartWay
<1>6. Way(a, q, Emit(q, e), <<x, y>>, 1)
  <2>1. 0 + 1 = 1
    OBVIOUS
  <2> QED BY <1>5, <2>1
<1>7. ~Emit(q, e).scan_error
  BY <1>1, <1>4, EmitScanError
<1>8. Emit(q, e).frames = q.frames
  BY <1>5, WayFields
<1> QED BY <1>1, <1>2, <1>3, <1>4, <1>5, <1>6, <1>7, <1>8 DEF rs

\* ST_BLOCK_NODE_SEQ and ST_BLOCK_NODE_EXPLICIT_KEY.
LEMMA BlockOpenDone ==
  ASSUME NEW a, NEW q, AtStart(a, q)
  PROVE  /\ q.state = "BLOCK_NODE_SEQ" => Done(a, BlockNodeSeq(q))
         /\ q.state = "BLOCK_NODE_EXPLICIT_KEY" => Done(a, BlockNodeExplicitKey(q))
<1>1. ASSUME q.state \in {"BLOCK_NODE_SEQ", "BLOCK_NODE_EXPLICIT_KEY"},
             NEW e, NEW y, \/ e = "MAPPING_START" /\ y = "KEY"
                           \/ e = "SEQUENCE_START" /\ y = "SEQ",
             NEW type \in BlockContext, NEW t \in InnerStates, OpenIn(t) = <<y>>
      PROVE  Done(a, Goto(BlockOpen(q, e, type), t))
  <2> DEFINE m == Emit(q, e)
             rs == q.node_return
             col == Col(q)
  <2>1. q.state \in NodeStates /\ q.state # "FLOW_NODE" /\ q.state \in TokenStates
    BY <1>1 DEF NodeStates, TokenStates
  <2>2. /\ Peek(q) = q /\ col \in Nat /\ rs \in BlockReturns
        /\ ((rs = "DOC_END_EXPLICIT") <=> (q.frames = <<>>))
        /\ ~m.scan_error /\ Clear(m) /\ y \in Stream!Level /\ m.frames = q.frames
    BY <1>1, <2>1, BlockOpenStart
  <2>3. PICK x \in Stream!Level : Parents(rs) = <<x>> /\ Way(a, q, m, <<x, y>>, 1)
    BY <1>1, <2>1, BlockOpenStart
  <2>4. BlockOpen(q, e, type) = PushFrame(m, type, col, rs)
    BY <2>2 DEF BlockOpen
  <2> HIDE DEF m, rs, col
  <2>5. (rs = "DOC_END_EXPLICIT") <=> (m.frames = <<>>)
    BY <2>2
  <2>6. Done(a, Goto(PushFrame(m, type, col, rs), t))
    BY <1>1, <2>2, <2>3, <2>5, BlockPushDone
  <2> QED BY <2>4, <2>6
<1>2. /\ "BLOCK_SEQ_LOOP" \in InnerStates /\ OpenIn("BLOCK_SEQ_LOOP") = <<"SEQ">>
      /\ "BLOCK_MAP_LOOP" \in InnerStates /\ OpenIn("BLOCK_MAP_LOOP") = <<"KEY">>
      /\ "BLOCK_SEQ" \in BlockContext /\ "BLOCK_MAP" \in BlockContext
  BY DEF BlockContext, InnerStates, State, BlockStates, RootStates, BetweenDocuments,
         NodeStates, AwayStates, OpenIn, Parents
<1>3. ASSUME q.state = "BLOCK_NODE_SEQ" PROVE Done(a, BlockNodeSeq(q))
  <2>1. Done(a, Goto(BlockOpen(q, "SEQUENCE_START", "BLOCK_SEQ"), "BLOCK_SEQ_LOOP"))
    BY <1>1, <1>2, <1>3
  <2> QED BY <2>1 DEF BlockNodeSeq
<1>4. ASSUME q.state = "BLOCK_NODE_EXPLICIT_KEY" PROVE Done(a, BlockNodeExplicitKey(q))
  <2>1. Done(a, Goto(BlockOpen(q, "MAPPING_START", "BLOCK_MAP"), "BLOCK_MAP_LOOP"))
    BY <1>1, <1>2, <1>4
  <2> QED BY <2>1 DEF BlockNodeExplicitKey
<1> QED BY <1>3, <1>4

\* Withholding a single collection start.
LEMMA WithholdOne == Withhold(<<"MAPPING_START">>) = <<>> /\ Withhold(<<>>) = <<>>
<1> DEFINE out == <<"MAPPING_START">>
           starts == {k \in 1..Len(out) : out[k] \in CollectionStarts}
           last == CHOOSE k \in starts : \A j \in starts : j <= k
<1>1. starts = {1}
  BY DEF CollectionStarts
<1>2. last = 1
  <2>1. \A k \in starts : k = 1
    BY <1>1
  <2>2. 1 \in starts /\ \A j \in starts : j <= 1
    BY <1>1
  <2> HIDE DEF starts
  <2> QED BY <2>1, <2>2
<1>3. Withhold(out) = SubSeq(out, 1, last - 1)
  BY <1>1 DEF Withhold
<1> HIDE DEF last
<1>4. SubSeq(out, 1, last - 1) = <<>>
  <2>1. last - 1 = 0
    BY <1>2
  <2>2. out \in Seq(Stream!Event)
    BY DEF Stream!Event
  <2> QED BY <2>1, <2>2, SubSeqEmpty
<1>5. Withhold(<<>>) = <<>>
  <2>1. {k \in 1..Len(<<>>) : <<>>[k] \in CollectionStarts} = {}
    OBVIOUS
  <2> QED BY <2>1 DEF Withhold
<1> QED BY <1>3, <1>4, <1>5

\* ST_BLOCK_NODE_BARE_VALUE: the empty key is queued after the frame is
\* pushed, and still when it is refused.
LEMMA BlockNodeBareValueDone ==
  ASSUME NEW a, NEW q, AtStart(a, q), q.state = "BLOCK_NODE_BARE_VALUE"
  PROVE  Done(a, BlockNodeBareValue(q))
<1> DEFINE m == Emit(q, "MAPPING_START")
           rs == q.node_return
           col == Col(q)
           r == PushFrame(m, "BLOCK_MAP", col, rs)
<1>1. q.state \in NodeStates /\ q.state # "FLOW_NODE" /\ q.state \in TokenStates
  BY DEF NodeStates, TokenStates
<1>2. /\ Peek(q) = q /\ col \in Nat /\ rs \in BlockReturns
      /\ ((rs = "DOC_END_EXPLICIT") <=> (q.frames = <<>>)) /\ Good(q)
      /\ q.out_buf = <<>> /\ q.stop_status = "NONE" /\ Fits(q.frames, Awaiting(rs))
      /\ ~m.scan_error /\ Clear(m) /\ "KEY" \in Stream!Level /\ m.frames = q.frames
      /\ "MAPPING_START" \in Stream!Event
  BY <1>1, BlockOpenStart
<1>3. PICK x \in Stream!Level : Parents(rs) = <<x>> /\ Way(a, q, m, <<x, "KEY">>, 1)
  BY <1>1, BlockOpenStart
<1>4. /\ "BLOCK_MAP" \in BlockContext /\ "BLOCK_MAP_VALUE" \in InnerStates
      /\ OpenIn("BLOCK_MAP_VALUE") = <<"VALUE">> /\ "BLOCK_MAP_VALUE" \in State
      /\ "SCALAR" \in Stream!Leaf /\ "SCALAR" \in Stream!Event
  BY DEF BlockContext, InnerStates, State, BlockStates, RootStates, BetweenDocuments,
         NodeStates, AwayStates, OpenIn, Stream!Leaf, Stream!Event
<1>5. BlockNodeBareValue(q) = Goto(Emit(r, "SCALAR"), "BLOCK_MAP_VALUE")
  BY <1>2 DEF BlockNodeBareValue, BlockOpen
<1>6. \/ m.out_buf = <<>> /\ AtEventLimit(m)
      \/ m.out_buf = <<"MAPPING_START">> /\ m.stop_status = "NONE"
  <2>1. CASE AtEventLimit(q)
    <3>1. m = StopWith(q, "ERR_LIMIT")
      BY <2>1 DEF Emit
    <3> QED BY <1>2, <2>1, <3>1 DEF StopWith, Good, ParserRecord, AtEventLimit
  <2>2. CASE ~AtEventLimit(q)
    <3>1. m = [q EXCEPT !.out_buf = Append(@, "MAPPING_START")]
      BY <1>2, <2>2 DEF Emit, OutSize
    <3>2. Append(<<>>, "MAPPING_START") = <<"MAPPING_START">>
      OBVIOUS
    <3> QED BY <1>2, <3>1, <3>2 DEF Good, ParserRecord
  <2> QED BY <2>1, <2>2
<1> HIDE DEF m, col, rs
<1>7. (rs = "DOC_END_EXPLICIT") <=> (m.frames = <<>>)
  BY <1>2
<1>8. /\ Good(r) /\ Clear(r)
      /\ \/ Way(a, r, r, <<"KEY">>, 1) /\ r.frames # <<>>
         \/ /\ Halted(a, r) /\ r.frames = m.frames
            /\ r.events_delivered = m.events_delivered
            /\ r.out_buf \in {m.out_buf, Withhold(m.out_buf)}
  <2>1. ASSUME NEW n, Way(a, q, m, <<x, "KEY">>, n)
        PROVE  /\ Good(r) /\ (Clear(m) => Clear(r))
               /\ \/ Way(a, r, r, <<"KEY">>, n) /\ r.frames # <<>>
                  \/ /\ Halted(a, r) /\ r.frames = m.frames
                     /\ r.events_delivered = m.events_delivered
                     /\ r.out_buf \in {m.out_buf, Withhold(m.out_buf)}
    <3> DEFINE y == "KEY"
               type == "BLOCK_MAP"
    <3>1. /\ y \in Stream!Level /\ Way(a, q, m, <<x, y>>, n) /\ ~m.scan_error
          /\ rs \in BlockReturns /\ type \in BlockContext /\ col \in Nat
          /\ r = PushFrame(m, type, col, rs)
      BY <1>2, <1>4, <2>1
    <3>2. Parents(rs) = <<x>>
      BY <1>3
    <3> HIDE DEF r, y, type
    <3>3. Pushes(a, m, r, y, n)
      BY <1>7, <3>1, <3>2, BlockPushWay
    <3> QED BY <3>3 DEF Pushes, y
  <2> HIDE DEF r
  <2> QED BY <1>2, <1>3, <2>1
<1> HIDE DEF r
<1>9. CASE Way(a, r, r, <<"KEY">>, 1) /\ r.frames # <<>>
  <2>1. Fits(r.frames, <<"KEY">>) /\ Advanced(<<"KEY">>, <<"VALUE">>) /\ 1 \in 0..7
    BY <1>2, <1>9, Advances DEF Fits
  <2>2. Done(a, Goto(Emit(r, "SCALAR"), "BLOCK_MAP_VALUE"))
    BY <1>4, <1>8, <1>9, <2>1, LeafInnerDone
  <2> QED BY <1>5, <2>2
<1>10. CASE /\ Halted(a, r) /\ r.frames = m.frames
            /\ r.events_delivered = m.events_delivered
            /\ r.out_buf \in {m.out_buf, Withhold(m.out_buf)}
  <2> DEFINE s == Emit(r, "SCALAR")
             l == Levels(q.frames)
  <2>1. Good(s)
    BY <1>4, <1>8, EmitGood
  <2>2. CASE AtEventLimit(r)
    <3>1. s = r
      BY <1>10, <2>2 DEF Emit, StopWith, Halted
    <3>2. Done(a, Goto(s, "BLOCK_MAP_VALUE"))
      BY <1>4, <1>8, <1>10, <3>1, HaltedDone
    <3> QED BY <1>5, <3>2
  <2>3. CASE ~AtEventLimit(r)
    <3>1. r.out_buf \in {<<>>, <<"MAPPING_START">>} /\ m.stop_status = "NONE"
          /\ m.out_buf = <<"MAPPING_START">>
      <4>1. CASE m.out_buf = <<>> /\ AtEventLimit(m)
        <5>1. r.out_buf = <<>>
          BY <1>10, <4>1, WithholdOne
        <5>2. AtEventLimit(r)
          BY <1>10, <4>1, <5>1 DEF AtEventLimit
        <5> QED BY <2>3, <5>2
      <4>2. CASE m.out_buf = <<"MAPPING_START">> /\ m.stop_status = "NONE"
        BY <1>10, <4>2, WithholdOne
      <4> QED BY <1>6, <4>1, <4>2
    <3>2. /\ q.frames \in Seq(Frame) /\ FramesPlaced(q.frames) /\ l \in Seq(Stream!Level)
          /\ (MaxDepth > 0 => Len(q.frames) <= MaxDepth)
          /\ Way(a, q, q, Awaiting(rs), 0)
      BY <1>1, NodeBegin, WayTypes DEF rs
    <3>3. \E b : /\ Path(a, r.out_buf, b) /\ "SCALAR" \in Stream!Accepts(b)
                 /\ Stream!After(b, "SCALAR") \in Room
      <4>1. CASE r.out_buf = <<>>
        <5>1. Advanced(Awaiting(rs), <<x>>)
          BY <1>2, <1>3, BlockParents, AwaitingAdvances
        <5>2. l \o <<x>> \in Room
          BY <1>2, <3>2, <5>1, AdvancedFits, FitsRoom
        <5>3. Path(a, <<>>, l \o Awaiting(rs))
          BY <1>2, <3>2 DEF Way
        <5> HIDE DEF l
        <5>4. /\ "SCALAR" \in Stream!Accepts(l \o Awaiting(rs))
              /\ Stream!After(l \o Awaiting(rs), "SCALAR") = l \o <<x>>
          BY <1>4, <3>2, <5>1, AdvancedStep
        <5> QED BY <4>1, <5>2, <5>3, <5>4
      <4>2. CASE r.out_buf = <<"MAPPING_START">>
        <5>1. Path(a, r.out_buf, l \o <<x, "KEY">>)
          BY <1>2, <1>3, <3>1, <4>2 DEF Way
        <5>2. /\ "KEY" \in Waiting /\ "VALUE" \in Stream!Level
              /\ Stream!AfterNode("KEY") = "VALUE"
          BY DEF Waiting, Stream!AfterNode, Stream!Level
        <5>3. Fits(q.frames, <<x, "VALUE">>)
          <6>1. Advanced(Awaiting(rs), <<x>>)
            BY <1>2, <1>3, BlockParents, AwaitingAdvances
          <6>2. Fits(q.frames, <<x>>)
            BY <1>2, <6>1, AdvancedFits
          <6>3. <<x>> # <<>> /\ <<x>>[1] = x /\ <<x, "VALUE">>[1] = x
            OBVIOUS
          <6>4. <<x, "VALUE">> \in Seq(Stream!Level) /\ Len(<<x, "VALUE">>) <= 2
            BY <5>2
          <6> QED BY <6>2, <6>3, <6>4 DEF Fits
        <5>4. l \o <<x, "VALUE">> \in Room
          BY <3>2, <5>3, FitsRoom
        <5> HIDE DEF l
        <5>5. /\ l \o <<x, "KEY">> = Append(Append(l, x), "KEY")
              /\ l \o <<x, "VALUE">> = Append(Append(l, x), "VALUE")
              /\ Append(l, x) \in Seq(Stream!Level)
          BY <1>2, <3>2, <5>2, Words
        <5>6. /\ "SCALAR" \in Stream!Accepts(l \o <<x, "KEY">>)
              /\ Stream!After(l \o <<x, "KEY">>, "SCALAR") = l \o <<x, "VALUE">>
          BY <1>4, <5>2, <5>5, NodeStep
        <5> QED BY <5>1, <5>4, <5>6
      <4> QED BY <3>1, <4>1, <4>2
    <3>4. PICK b : /\ Path(a, r.out_buf, b) /\ "SCALAR" \in Stream!Accepts(b)
                   /\ Stream!After(b, "SCALAR") \in Room
      BY <3>3
    <3>5. Path(a, Append(r.out_buf, "SCALAR"), Stream!After(b, "SCALAR"))
      BY <1>4, <1>8, <3>4, FieldTypes, PathAppend
    <3>6. Len(r.out_buf) < OutSize
      <4>1. Len(<<>>) < 8 /\ Len(<<"MAPPING_START">>) < 8
        OBVIOUS
      <4> QED BY <3>1, <4>1 DEF OutSize
    <3>7. /\ s.out_buf = Append(r.out_buf, "SCALAR") /\ s.frames = r.frames
          /\ s.stop_status = r.stop_status
      BY <1>8, <2>3, <3>6 DEF Emit, Good, ParserRecord
    <3> HIDE DEF s
    <3>8. s.stop_status = "ERR_LIMIT" => Reached(s)
      BY <1>10, <2>3, <3>7 DEF Halted, Reached
    <3>9. Halted(a, s)
      BY <1>10, <3>5, <3>7, <3>8 DEF Halted
    <3>10. Done(a, Goto(s, "BLOCK_MAP_VALUE"))
      BY <1>4, <2>1, <3>9, HaltedDone
    <3> QED BY <1>5, <3>10 DEF s
  <2> QED BY <2>2, <2>3
<1> QED BY <1>8, <1>9, <1>10

-----------------------------------------------------------------------------
(***************************************************************************)
(* Block mappings and sequences.                                           *)
(***************************************************************************)

\* The states of block collections and what they know to be open.
LEMMA BlockLevels ==
  /\ \A t \in {"BLOCK_MAP_LOOP", "BLOCK_MAP_EXPLICIT_KEY", "BLOCK_MAP_SIMPLE_KEY",
               "BLOCK_MAP_END"} : t \in InnerStates /\ OpenIn(t) = <<"KEY">>
  /\ \A t \in {"BLOCK_MAP_POST_KEY", "BLOCK_MAP_VALUE"} :
       t \in InnerStates /\ OpenIn(t) = <<"VALUE">>
  /\ \A t \in {"BLOCK_SEQ_LOOP", "BLOCK_SEQ_ENTRY", "BLOCK_SEQ_END"} :
       t \in InnerStates /\ OpenIn(t) = <<"SEQ">>
  /\ \A t \in {"BLOCK_MAP_LOOP", "BLOCK_MAP_POST_KEY", "BLOCK_SEQ_LOOP"} :
       t \in BlockReturns /\ t \in ReturnState \ {"STREAM_START", "DOC_END_EXPLICIT"}
  /\ Awaiting("BLOCK_MAP_LOOP") = <<"VALUE">> /\ Awaiting("BLOCK_MAP_POST_KEY") = <<"KEY">>
  /\ Awaiting("BLOCK_SEQ_LOOP") = <<"SEQ">>
<1>1. {"BLOCK_MAP_LOOP", "BLOCK_MAP_EXPLICIT_KEY", "BLOCK_MAP_SIMPLE_KEY", "BLOCK_MAP_END",
       "BLOCK_MAP_POST_KEY", "BLOCK_MAP_VALUE", "BLOCK_SEQ_LOOP", "BLOCK_SEQ_ENTRY",
       "BLOCK_SEQ_END"} \subseteq InnerStates
  BY DEF InnerStates, State, BlockStates, RootStates, BetweenDocuments, NodeStates, AwayStates
<1>2. /\ OpenIn("BLOCK_MAP_LOOP") = <<"KEY">> /\ OpenIn("BLOCK_MAP_EXPLICIT_KEY") = <<"KEY">>
      /\ OpenIn("BLOCK_MAP_SIMPLE_KEY") = <<"KEY">> /\ OpenIn("BLOCK_MAP_END") = <<"KEY">>
      /\ OpenIn("BLOCK_MAP_POST_KEY") = <<"VALUE">> /\ OpenIn("BLOCK_MAP_VALUE") = <<"VALUE">>
      /\ OpenIn("BLOCK_SEQ_LOOP") = <<"SEQ">> /\ OpenIn("BLOCK_SEQ_ENTRY") = <<"SEQ">>
      /\ OpenIn("BLOCK_SEQ_END") = <<"SEQ">>
  BY DEF OpenIn, Parents
<1>3. /\ Awaiting("BLOCK_MAP_LOOP") = <<"VALUE">>
      /\ Awaiting("BLOCK_MAP_POST_KEY") = <<"KEY">>
      /\ Awaiting("BLOCK_SEQ_LOOP") = <<"SEQ">>
  BY DEF Awaiting, Parents
<1> QED BY <1>1, <1>2, <1>3 DEF BlockReturns, ReturnState

\* What fits on top of a collection.
LEMMA InnerFits ==
  ASSUME NEW frames, frames # <<>>
  PROVE  /\ Fits(frames, <<"KEY">>) /\ Fits(frames, <<"VALUE">>) /\ Fits(frames, <<"SEQ">>)
         /\ Fits(frames, <<"SEQ", "KEY">>) /\ Fits(frames, <<"SEQ", "VALUE">>)
BY DEF Fits, Stream!Level

\* ST_BLOCK_MAP_LOOP.
LEMMA BlockMapLoopDone ==
  ASSUME NEW a, NEW q, AtStart(a, q), q.state = "BLOCK_MAP_LOOP"
  PROVE  Done(a, BlockMapLoop(q))
<1> DEFINE p == Peek(q)
<1>1. Way(a, q, q, <<"KEY">>, 0) /\ Clear(q) /\ q.frames # <<>>
  BY InnerStart, BlockLevels
<1>2. Way(a, q, p, <<"KEY">>, 0) /\ Clear(p)
  BY <1>1, PeekWay
<1> HIDE DEF p
<1>3. p.frames # <<>>
  BY <1>1, <1>2, WayFields
<1>4. ASSUME NEW t \in {"BLOCK_MAP_EXPLICIT_KEY", "BLOCK_MAP_SIMPLE_KEY", "BLOCK_MAP_END"}
      PROVE  Done(a, Goto(p, t))
  BY <1>2, <1>3, InnerDone, BlockLevels
<1>5. Done(a, Goto(Emit(p, "SCALAR"), "BLOCK_MAP_VALUE"))
  <2>1. "SCALAR" \in Stream!Leaf /\ 0 \in 0..7
    BY DEF Stream!Leaf
  <2>2. Advanced(<<"KEY">>, OpenIn("BLOCK_MAP_VALUE")) /\ Fits(p.frames, <<"KEY">>)
    BY <1>3, Advances, BlockLevels, InnerFits
  <2> QED BY <1>2, <1>3, <2>1, <2>2, LeafInnerDone, BlockLevels
<1>6. Done(a, Goto(p, "EAGER_DRAIN"))
  <2>1. "EAGER_DRAIN" \in AwayStates /\ "EAGER_DRAIN" # "DONE"
    BY DEF AwayStates
  <2> QED BY <1>2, <2>1, AwayDone
<1>7. BlockMapLoop(q) \in {Goto(p, "BLOCK_MAP_EXPLICIT_KEY"), Goto(p, "BLOCK_MAP_SIMPLE_KEY"),
                           Goto(Emit(p, "SCALAR"), "BLOCK_MAP_VALUE"), Goto(p, "EAGER_DRAIN"),
                           Goto(p, "BLOCK_MAP_END")}
  BY DEF BlockMapLoop, p
<1> QED BY <1>4, <1>5, <1>6, <1>7

\* ST_BLOCK_MAP_EXPLICIT_KEY.
LEMMA BlockMapExplicitKeyDone ==
  ASSUME NEW a, NEW q, AtStart(a, q), q.state = "BLOCK_MAP_EXPLICIT_KEY"
  PROVE  Done(a, BlockMapExplicitKey(q))
<1> DEFINE p == Peek(q)
           r == Peek(Consume(p))
<1>1. Way(a, q, q, <<"KEY">>, 0) /\ Clear(q) /\ q.frames # <<>>
  BY InnerStart, BlockLevels
<1>2. Way(a, q, p, <<"KEY">>, 0) /\ Clear(p)
  BY <1>1, PeekWay
<1> HIDE DEF p
<1>3. Way(a, q, r, <<"KEY">>, 0) /\ Clear(r)
  BY <1>2, NextWay
<1> HIDE DEF r
<1>4. r.frames # <<>>
  BY <1>1, <1>3, WayFields
<1>5. Done(a, Goto(Emit(r, "SCALAR"), "BLOCK_MAP_POST_KEY"))
  <2>1. "SCALAR" \in Stream!Leaf /\ 0 \in 0..7
    BY DEF Stream!Leaf
  <2>2. Advanced(<<"KEY">>, OpenIn("BLOCK_MAP_POST_KEY")) /\ Fits(r.frames, <<"KEY">>)
    BY <1>4, Advances, BlockLevels, InnerFits
  <2> QED BY <1>3, <1>4, <2>1, <2>2, LeafInnerDone, BlockLevels
<1>6. Done(a, GotoNode(r, "BLOCK_NODE", "BLOCK_MAP_POST_KEY"))
  BY <1>3, <1>4, EntryDone, BlockLevels
<1>7. BlockMapExplicitKey(q) \in {Goto(Emit(r, "SCALAR"), "BLOCK_MAP_POST_KEY"),
                                  GotoNode(r, "BLOCK_NODE", "BLOCK_MAP_POST_KEY")}
  BY DEF BlockMapExplicitKey, r, p
<1> QED BY <1>5, <1>6, <1>7

\* ST_BLOCK_MAP_SIMPLE_KEY.
LEMMA BlockMapSimpleKeyDone ==
  ASSUME NEW a, NEW q, AtStart(a, q), q.state = "BLOCK_MAP_SIMPLE_KEY"
  PROVE  Done(a, BlockMapSimpleKey(q))
<1> DEFINE p == Peek(q)
           r == Peek(Consume(p))
<1>1. Way(a, q, q, <<"KEY">>, 0) /\ Clear(q) /\ q.frames # <<>>
  BY InnerStart, BlockLevels
<1>2. Way(a, q, p, <<"KEY">>, 0) /\ Clear(p)
  BY <1>1, PeekWay
<1> HIDE DEF p
<1>3. Way(a, q, r, <<"KEY">>, 0) /\ Clear(r)
  BY <1>2, NextWay
<1> HIDE DEF r
<1>4. r.frames # <<>>
  BY <1>1, <1>3, WayFields
<1>5. ASSUME Tok(p) \in {"SCALAR", "ALIAS"}
      PROVE  Done(a, Goto(Emit(r, Tok(p)), "BLOCK_MAP_VALUE"))
  <2>1. Tok(p) \in Stream!Leaf /\ 0 \in 0..7
    BY <1>5 DEF Stream!Leaf
  <2>2. Advanced(<<"KEY">>, OpenIn("BLOCK_MAP_VALUE")) /\ Fits(r.frames, <<"KEY">>)
    BY <1>4, Advances, BlockLevels, InnerFits
  <2> QED BY <1>3, <1>4, <2>1, <2>2, LeafInnerDone, BlockLevels
<1>6. Done(a, Goto(p, "EAGER_DRAIN")) /\ Done(a, Goto(r, "EAGER_DRAIN"))
  <2>1. "EAGER_DRAIN" \in AwayStates /\ "EAGER_DRAIN" # "DONE"
    BY DEF AwayStates
  <2> QED BY <1>2, <1>3, <2>1, AwayDone
<1>7. \/ BlockMapSimpleKey(q) \in {Goto(p, "EAGER_DRAIN"), Goto(r, "EAGER_DRAIN")}
      \/ /\ Tok(p) \in {"SCALAR", "ALIAS"}
         /\ BlockMapSimpleKey(q) = Goto(Emit(r, Tok(p)), "BLOCK_MAP_VALUE")
  BY DEF BlockMapSimpleKey, r, p
<1> QED BY <1>5, <1>6, <1>7

\* ST_BLOCK_MAP_POST_KEY.
LEMMA BlockMapPostKeyDone ==
  ASSUME NEW a, NEW q, AtStart(a, q), q.state = "BLOCK_MAP_POST_KEY"
  PROVE  Done(a, BlockMapPostKey(q))
<1> DEFINE p == Peek(q)
           e == ParseError(p)
<1>1. /\ Way(a, q, q, <<"VALUE">>, 0) /\ Clear(q) /\ q.frames # <<>> /\ StatePlaced(q)
      /\ OpenAt(q) = <<"VALUE">> /\ q.state \notin AwayStates \cup {"STREAM_START"}
  BY InnerStart, BlockLevels
<1>2. Way(a, q, p, <<"VALUE">>, 0) /\ Clear(p)
  BY <1>1, PeekWay
<1> HIDE DEF p
<1>3. p.frames # <<>>
  BY <1>1, <1>2, WayFields
<1>4. Done(a, e)
  BY <1>1, <1>2, ErrorDone
<1> HIDE DEF e
<1>5. Done(a, Goto(p, "BLOCK_MAP_VALUE"))
  BY <1>2, <1>3, InnerDone, BlockLevels
<1>6. Done(a, Goto(Emit(p, "SCALAR"), "BLOCK_MAP_LOOP"))
  <2>1. "SCALAR" \in Stream!Leaf /\ 0 \in 0..7
    BY DEF Stream!Leaf
  <2>2. Advanced(<<"VALUE">>, OpenIn("BLOCK_MAP_LOOP")) /\ Fits(p.frames, <<"VALUE">>)
    BY <1>3, Advances, BlockLevels, InnerFits
  <2> QED BY <1>2, <1>3, <2>1, <2>2, LeafInnerDone, BlockLevels
<1>7. BlockMapPostKey(q) \in {Goto(p, "BLOCK_MAP_VALUE"), e,
                              Goto(Emit(p, "SCALAR"), "BLOCK_MAP_LOOP")}
  BY DEF BlockMapPostKey, p, e
<1> QED BY <1>4, <1>5, <1>6, <1>7

\* ST_BLOCK_MAP_VALUE.
LEMMA BlockMapValueDone ==
  ASSUME NEW a, NEW q, AtStart(a, q), q.state = "BLOCK_MAP_VALUE"
  PROVE  Done(a, BlockMapValue(q))
<1> DEFINE p == Peek(q)
           c == Peek(Consume(p))
           line == p.current.line
           first == p.current.first
           r == [c EXCEPT !.value_colon_line = line, !.value_colon_starts_line = first]
<1>1. Way(a, q, q, <<"VALUE">>, 0) /\ Clear(q) /\ q.frames # <<>>
  BY InnerStart, BlockLevels
<1>2. Way(a, q, p, <<"VALUE">>, 0) /\ Clear(p) /\ Good(p)
  BY <1>1, PeekWay
<1>3. line \in Nat /\ first \in BOOLEAN
  BY <1>2, FieldTypes
<1> HIDE DEF p, line, first
<1>4. Way(a, q, c, <<"VALUE">>, 0) /\ Clear(c)
  BY <1>2, NextWay
<1> HIDE DEF c
<1>5. Good(c)
  BY <1>4, WayFields
<1>6. Way(a, q, r, <<"VALUE">>, 0) /\ Clear(r)
  <2>1. r \in ParserRecord
    BY <1>3, <1>5 DEF Good, ParserRecord
  <2>2. Bounds(r)
    BY <1>5 DEF Good, ParserRecord, Bounds
  <2>3. Quiet(c, r) /\ (Clear(c) => Clear(r)) /\ Good(r)
    BY <1>5, <2>1, <2>2 DEF Good, ParserRecord, Quiet, Clear, Bare
  <2> HIDE DEF r
  <2> QED BY <1>4, <2>3, QuietWay
<1> HIDE DEF r
<1>7. p.frames # <<>> /\ r.frames # <<>>
  BY <1>1, <1>2, <1>6, WayFields
<1>8. ASSUME NEW x, Way(a, q, x, <<"VALUE">>, 0), Clear(x), x.frames # <<>>
      PROVE  Done(a, Goto(Emit(x, "SCALAR"), "BLOCK_MAP_LOOP"))
  <2>1. "SCALAR" \in Stream!Leaf /\ 0 \in 0..7
    BY DEF Stream!Leaf
  <2>2. Advanced(<<"VALUE">>, OpenIn("BLOCK_MAP_LOOP")) /\ Fits(x.frames, <<"VALUE">>)
    BY <1>8, Advances, BlockLevels, InnerFits
  <2> QED BY <1>8, <2>1, <2>2, LeafInnerDone, BlockLevels
<1>9. Done(a, GotoNode(r, "BLOCK_NODE", "BLOCK_MAP_LOOP"))
  BY <1>6, <1>7, EntryDone, BlockLevels
<1>10. BlockMapValue(q) \in {Goto(Emit(p, "SCALAR"), "BLOCK_MAP_LOOP"),
                             Goto(Emit(r, "SCALAR"), "BLOCK_MAP_LOOP"),
                             GotoNode(r, "BLOCK_NODE", "BLOCK_MAP_LOOP")}
  BY DEF BlockMapValue, p, c, r, line, first
<1> QED BY <1>2, <1>6, <1>7, <1>8, <1>9, <1>10

\* ST_BLOCK_SEQ_LOOP.
LEMMA BlockSeqLoopDone ==
  ASSUME NEW a, NEW q, AtStart(a, q), q.state = "BLOCK_SEQ_LOOP"
  PROVE  Done(a, BlockSeqLoop(q))
<1> DEFINE p == Peek(q)
<1>1. Way(a, q, q, <<"SEQ">>, 0) /\ Clear(q) /\ q.frames # <<>>
  BY InnerStart, BlockLevels
<1>2. Way(a, q, p, <<"SEQ">>, 0) /\ Clear(p)
  BY <1>1, PeekWay
<1> HIDE DEF p
<1>3. p.frames # <<>>
  BY <1>1, <1>2, WayFields
<1>4. ASSUME NEW t \in {"BLOCK_SEQ_ENTRY", "BLOCK_SEQ_END"} PROVE Done(a, Goto(p, t))
  BY <1>2, <1>3, InnerDone, BlockLevels
<1>5. BlockSeqLoop(q) \in {Goto(p, "BLOCK_SEQ_ENTRY"), Goto(p, "BLOCK_SEQ_END")}
  BY DEF BlockSeqLoop, p
<1> QED BY <1>4, <1>5

\* ST_BLOCK_SEQ_ENTRY.
LEMMA BlockSeqEntryDone ==
  ASSUME NEW a, NEW q, AtStart(a, q), q.state = "BLOCK_SEQ_ENTRY"
  PROVE  Done(a, BlockSeqEntry(q))
<1> DEFINE p == Peek(q)
           r == Peek(Consume(p))
<1>1. Way(a, q, q, <<"SEQ">>, 0) /\ Clear(q) /\ q.frames # <<>>
  BY InnerStart, BlockLevels
<1>2. Way(a, q, p, <<"SEQ">>, 0) /\ Clear(p)
  BY <1>1, PeekWay
<1> HIDE DEF p
<1>3. Way(a, q, r, <<"SEQ">>, 0) /\ Clear(r)
  BY <1>2, NextWay
<1> HIDE DEF r
<1>4. r.frames # <<>>
  BY <1>1, <1>3, WayFields
<1>5. Done(a, Goto(Emit(r, "SCALAR"), "BLOCK_SEQ_LOOP"))
  <2>1. "SCALAR" \in Stream!Leaf /\ 0 \in 0..7
    BY DEF Stream!Leaf
  <2>2. Advanced(<<"SEQ">>, OpenIn("BLOCK_SEQ_LOOP")) /\ Fits(r.frames, <<"SEQ">>)
    BY <1>4, Advances, BlockLevels, InnerFits
  <2> QED BY <1>3, <1>4, <2>1, <2>2, LeafInnerDone, BlockLevels
<1>6. Done(a, GotoNode(r, "BLOCK_NODE", "BLOCK_SEQ_LOOP"))
  BY <1>3, <1>4, EntryDone, BlockLevels
<1>7. BlockSeqEntry(q) \in {Goto(Emit(r, "SCALAR"), "BLOCK_SEQ_LOOP"),
                            GotoNode(r, "BLOCK_NODE", "BLOCK_SEQ_LOOP")}
  BY DEF BlockSeqEntry, r, p
<1> QED BY <1>5, <1>6, <1>7

\* Popping a frame leaves its parent's levels to what is open beyond the frames.
LEMMA PopWay ==
  ASSUME NEW a, NEW q0, NEW q, NEW w \in Seq(Stream!Level), NEW n, Way(a, q0, q, w, n),
         q.frames # <<>>
  PROVE  LET r == PopFrame(q)
         IN  /\ Good(r) /\ (Clear(q) => Clear(r))
             /\ r.state \in ReturnState /\ r.state # "STREAM_START"
             /\ (r.state = "DOC_END_EXPLICIT") <=> (r.frames = <<>>)
             /\ Parents(r.state) \in Seq(Stream!Level)
             /\ Levels(q.frames) = Levels(r.frames) \o Parents(r.state)
             /\ Way(a, r, r, Parents(r.state) \o w, n)
<1> DEFINE r == PopFrame(q)
           n0 == Len(q.frames)
           low == SubSeq(q.frames, 1, n0 - 1)
           rs == q.frames[n0].return_state
<1>1. /\ Good(q) /\ q.frames \in Seq(Frame) /\ FramesPlaced(q.frames) /\ n0 \in Nat
      /\ n0 # 0 /\ n0 \in 1..Len(q.frames)
  BY WayTypes
<1>2. Good(r)
  BY <1>1, PopFrameGood
<1>3. /\ low \in Seq(Frame) /\ Len(low) = n0 - 1 /\ q.frames[n0] \in Frame
      /\ Levels(q.frames) = Levels(low) \o Parents(rs)
  BY <1>1, LevelsBelow
<1>4. /\ rs \in ReturnState /\ rs # "STREAM_START"
      /\ (rs = "DOC_END_EXPLICIT") <=> (n0 = 1)
  <2>1. rs \in ReturnState
    BY <1>3 DEF Frame
  <2> QED BY <1>1, <2>1 DEF FramesPlaced
<1>5. Parents(rs) \in Seq(Stream!Level)
  BY <1>4, ParentsShape
<1>6. \A i \in 1..n0-1 : low[i] = q.frames[i]
  BY <1>1
<1>7. r = [q EXCEPT !.state = rs, !.frames = low]
  BY DEF PopFrame
<1> HIDE DEF n0, rs, low
<1>8. /\ r.state = rs /\ r.frames = low /\ r.out_buf = q.out_buf
      /\ r.stop_status = q.stop_status /\ r.events_delivered = q.events_delivered
      /\ r.has_anchor = q.has_anchor /\ r.has_tag = q.has_tag
  BY <1>1, <1>7 DEF Good, ParserRecord
<1> HIDE DEF r
<1>9. FramesPlaced(low)
  <2> SUFFICES ASSUME NEW i \in 1..Len(low)
               PROVE  /\ low[i].return_state # "STREAM_START"
                      /\ (low[i].return_state = "DOC_END_EXPLICIT") <=> (i = 1)
    BY DEF FramesPlaced
  <2>1. i \in 1..Len(q.frames) /\ i \in 1..n0-1
    BY <1>1, <1>3 DEF n0
  <2> QED BY <1>1, <1>6, <2>1 DEF FramesPlaced
<1>10. (rs = "DOC_END_EXPLICIT") <=> (low = <<>>)
  <2>1. low \in Seq(Frame) /\ Len(low) = n0 - 1
    BY <1>3
  <2>2. (low = <<>>) <=> (Len(low) = 0)
    BY <2>1, EmptySeq
  <2> QED BY <1>1, <1>4, <2>1, <2>2
<1>11. Levels(q.frames) \o w = Levels(low) \o (Parents(rs) \o w)
  <2>1. Levels(low) \in Seq(Stream!Level)
    BY <1>3, <1>9, LevelsShape DEF Shape
  <2> DEFINE l == Levels(low)
             parents == Parents(rs)
  <2>2. l \in Seq(Stream!Level) /\ parents \in Seq(Stream!Level) /\ w \in Seq(Stream!Level)
    BY <1>5, <2>1
  <2>3. Levels(q.frames) = l \o parents
    BY <1>3
  <2> HIDE DEF l, parents
  <2>4. (l \o parents) \o w = l \o (parents \o w)
    BY <2>2, ConcatAssociative
  <2> QED BY <2>3, <2>4 DEF l, parents
<1>12. Way(a, r, r, Parents(rs) \o w, n)
  BY <1>2, <1>8, <1>9, <1>11 DEF Way, AtEventLimit
<1>13. Clear(q) => Clear(r)
  BY <1>8 DEF Clear, Bare
<1> QED BY <1>2, <1>3, <1>4, <1>5, <1>8, <1>10, <1>12, <1>13 DEF r

\* Going where a record is.
LEMMA GotoSame ==
  ASSUME NEW q, Good(q)
  PROVE  Goto(q, q.state) = q
BY DEF Goto, Good, ParserRecord

\* inc_pop_frame, the end of the collection queued after it.
LEMMA BlockEndDone ==
  ASSUME NEW a, NEW q, AtStart(a, q), q.state \in InnerStates, q.state # "FLOW_SEQ_LOOP",
         NEW e, NEW y, OpenIn(q.state) = <<y>>,
         \/ e = "MAPPING_END" /\ y = "KEY"
         \/ e = "SEQUENCE_END" /\ y = "SEQ"
  PROVE  Done(a, BlockEnd(q, e))
<1> DEFINE f == PopFrame(q)
           p == Peek(f)
           r == Emit(p, e)
           rs == f.state
           w == Parents(rs) \o <<y>>
           l == Levels(q.frames)
<1>1. Way(a, q, q, <<y>>, 0) /\ Clear(q) /\ q.frames # <<>>
  BY InnerStart
<1>2. y \in Stream!Level /\ <<y>> \in Seq(Stream!Level) /\ e \in Stream!Event
  BY DEF Stream!Level, Stream!Event
<1>3. /\ Good(f) /\ Clear(f) /\ rs \in ReturnState /\ rs # "STREAM_START"
      /\ ((rs = "DOC_END_EXPLICIT") <=> (f.frames = <<>>))
      /\ Parents(rs) \in Seq(Stream!Level)
      /\ l = Levels(f.frames) \o Parents(rs)
      /\ Way(a, f, f, w, 0)
  BY <1>1, <1>2, PopWay
<1>4. l \in Seq(Stream!Level) /\ Levels(f.frames) \in Seq(Stream!Level)
  BY <1>1, <1>3, WayTypes
<1>5. l \in Room
  <2>1. /\ q.frames \in Seq(Frame) /\ FramesPlaced(q.frames)
        /\ MaxDepth > 0 => Len(q.frames) <= MaxDepth
    BY <1>1, WayTypes
  <2>2. Fits(q.frames, <<>>)
    BY DEF Fits
  <2>3. l \o <<>> \in Room
    BY <2>1, <2>2, FitsRoom
  <2> QED BY <1>2, <1>4, <2>3, Words
<1> HIDE DEF f, l
<1>6. Way(a, f, p, w, 0) /\ Clear(p)
  BY <1>3, PeekWay
<1> HIDE DEF p
<1>7. p.frames = f.frames /\ p.state = rs
  BY <1>6, WayFields
<1>8. /\ e \in Stream!Accepts(Levels(p.frames) \o w)
      /\ Stream!After(Levels(p.frames) \o w, e) = Levels(p.frames) \o Parents(rs)
      /\ Levels(p.frames) \o Parents(rs) \in Room
  <2>1. Levels(p.frames) \o w = l \o <<y>>
    BY <1>2, <1>3, <1>4, <1>7, ConcatAssociative
  <2>2. l \o <<y>> = Append(l, y)
    BY <1>2, <1>4, Words
  <2> QED BY <1>3, <1>4, <1>5, <1>7, <2>1, <2>2, EndStep
<1> HIDE DEF w
<1>9. Way(a, f, r, Parents(rs), 0 + 1) /\ Clear(r)
  <2>1. 0 \in Nat /\ 0 < OutSize
    BY DEF OutSize
  <2> QED BY <1>2, <1>6, <1>8, <2>1, EmitWay
<1> HIDE DEF r
<1>10. r.frames = f.frames /\ r.state = rs /\ Good(r)
  BY <1>9, WayFields
<1>11. CASE rs = "DOC_END_EXPLICIT"
  <2>1. Parents(rs) = <<"DOC_DONE">> /\ r.frames = <<>> /\ 0 + 1 \in 0..7
    BY <1>3, <1>10, <1>11 DEF Parents
  <2>2. Done(a, EndDocument(r))
    BY <1>9, <1>10, <1>11, <2>1, EndDocumentWay
  <2>3. BlockEnd(q, e) = EndDocument(r)
    BY <1>10, <1>11 DEF BlockEnd, r, p, f
  <2> QED BY <2>2, <2>3
<1>12. CASE rs # "DOC_END_EXPLICIT"
  <2>1. Done(a, Goto(r, rs))
    BY <1>3, <1>9, <1>10, ReturnDone
  <2>2. Goto(r, rs) = r
    BY <1>10, GotoSame
  <2>3. BlockEnd(q, e) = r
    BY <1>10, <1>12 DEF BlockEnd, r, p, f
  <2> QED BY <2>1, <2>2, <2>3
<1> QED BY <1>11, <1>12

\* ST_BLOCK_MAP_END and ST_BLOCK_SEQ_END.
LEMMA BlockEndsDone ==
  ASSUME NEW a, NEW q, AtStart(a, q)
  PROVE  /\ q.state = "BLOCK_MAP_END" => Done(a, BlockMapEnd(q))
         /\ q.state = "BLOCK_SEQ_END" => Done(a, BlockSeqEnd(q))
<1>1. ASSUME q.state = "BLOCK_MAP_END" PROVE Done(a, BlockEnd(q, "MAPPING_END"))
  BY <1>1, BlockEndDone, BlockLevels
<1>2. ASSUME q.state = "BLOCK_SEQ_END" PROVE Done(a, BlockEnd(q, "SEQUENCE_END"))
  BY <1>2, BlockEndDone, BlockLevels
<1> QED BY <1>1, <1>2 DEF BlockMapEnd, BlockSeqEnd

-----------------------------------------------------------------------------
(***************************************************************************)
(* Flow collections: what their states share.                              *)
(***************************************************************************)

\* The states of flow collections and what they know to be open.
LEMMA FlowLevels ==
  /\ \A t \in {"FLOW_MAP_LOOP", "FLOW_MAP_SEP", "FLOW_MAP_END"} :
       t \in InnerStates /\ OpenIn(t) = <<"KEY">>
  /\ "FLOW_MAP_VALUE" \in InnerStates /\ OpenIn("FLOW_MAP_VALUE") = <<"VALUE">>
  /\ \A t \in {"FLOW_SEQ_LOOP", "FLOW_SEQ_ENTRY_KEY", "FLOW_SEQ_EXPLICIT_KEY",
               "FLOW_SEQ_SEP", "FLOW_SEQ_END"} :
       t \in InnerStates /\ OpenIn(t) = <<"SEQ">>
  /\ \A t \in {"FLOW_SEQ_IMPLICIT_END", "FLOW_SEQ_EXPLICIT_END"} :
       t \in InnerStates /\ OpenIn(t) = <<"SEQ", "KEY">>
  /\ "FLOW_SEQ_EXPLICIT_VALUE" \in InnerStates
  /\ OpenIn("FLOW_SEQ_EXPLICIT_VALUE") = <<"SEQ", "VALUE">>
  /\ \A t \in {"FLOW_MAP_VALUE", "FLOW_MAP_SEP", "FLOW_SEQ_SEP", "FLOW_SEQ_IMPLICIT_END",
               "FLOW_SEQ_EXPLICIT_VALUE", "FLOW_SEQ_EXPLICIT_END"} :
       t \in ReturnState \ {"STREAM_START", "DOC_END_EXPLICIT"}
  /\ Awaiting("FLOW_MAP_VALUE") = <<"KEY">> /\ Awaiting("FLOW_MAP_SEP") = <<"VALUE">>
  /\ Awaiting("FLOW_SEQ_SEP") = <<"SEQ">>
  /\ Awaiting("FLOW_SEQ_IMPLICIT_END") = <<"SEQ", "VALUE">>
  /\ Awaiting("FLOW_SEQ_EXPLICIT_END") = <<"SEQ", "VALUE">>
  /\ Awaiting("FLOW_SEQ_EXPLICIT_VALUE") = <<"SEQ", "KEY">>
<1>1. {"FLOW_MAP_LOOP", "FLOW_MAP_VALUE", "FLOW_MAP_SEP", "FLOW_MAP_END", "FLOW_SEQ_LOOP",
       "FLOW_SEQ_ENTRY_KEY", "FLOW_SEQ_IMPLICIT_END", "FLOW_SEQ_EXPLICIT_KEY",
       "FLOW_SEQ_EXPLICIT_VALUE", "FLOW_SEQ_EXPLICIT_END", "FLOW_SEQ_SEP", "FLOW_SEQ_END"}
        \subseteq InnerStates
  BY DEF InnerStates, State, FlowStates, RootStates, BetweenDocuments, NodeStates, AwayStates
<1>2. /\ OpenIn("FLOW_MAP_LOOP") = <<"KEY">> /\ OpenIn("FLOW_MAP_SEP") = <<"KEY">>
      /\ OpenIn("FLOW_MAP_END") = <<"KEY">> /\ OpenIn("FLOW_MAP_VALUE") = <<"VALUE">>
      /\ OpenIn("FLOW_SEQ_LOOP") = <<"SEQ">> /\ OpenIn("FLOW_SEQ_ENTRY_KEY") = <<"SEQ">>
      /\ OpenIn("FLOW_SEQ_EXPLICIT_KEY") = <<"SEQ">> /\ OpenIn("FLOW_SEQ_SEP") = <<"SEQ">>
      /\ OpenIn("FLOW_SEQ_END") = <<"SEQ">>
      /\ OpenIn("FLOW_SEQ_IMPLICIT_END") = <<"SEQ", "KEY">>
      /\ OpenIn("FLOW_SEQ_EXPLICIT_END") = <<"SEQ", "KEY">>
      /\ OpenIn("FLOW_SEQ_EXPLICIT_VALUE") = <<"SEQ", "VALUE">>
  BY DEF OpenIn, Parents
<1>3. /\ Awaiting("FLOW_MAP_VALUE") = <<"KEY">> /\ Awaiting("FLOW_MAP_SEP") = <<"VALUE">>
      /\ Awaiting("FLOW_SEQ_SEP") = <<"SEQ">>
      /\ Awaiting("FLOW_SEQ_IMPLICIT_END") = <<"SEQ", "VALUE">>
      /\ Awaiting("FLOW_SEQ_EXPLICIT_END") = <<"SEQ", "VALUE">>
      /\ Awaiting("FLOW_SEQ_EXPLICIT_VALUE") = <<"SEQ", "KEY">>
  BY DEF Awaiting, Parents
<1> QED BY <1>1, <1>2, <1>3 DEF ReturnState

\* inc_flow_sep.
LEMMA FlowSepDone ==
  ASSUME NEW a, NEW q0, NEW q, NEW w, NEW n, Way(a, q0, q, w, n), Clear(q),
         q.frames # <<>>, NEW in_seq \in BOOLEAN,
         w = IF in_seq THEN <<"SEQ">> ELSE <<"KEY">>
  PROVE  Done(a, FlowSep(q, in_seq))
<1> DEFINE r == Peek(q)
           c == Consume(r)
           loop == IF in_seq THEN "FLOW_SEQ_LOOP" ELSE "FLOW_MAP_LOOP"
           end == IF in_seq THEN "FLOW_SEQ_END" ELSE "FLOW_MAP_END"
           sep == IF in_seq THEN "FLOW_SEQ_SEP" ELSE "FLOW_MAP_SEP"
<1>1. Way(a, q0, r, w, n) /\ Clear(r) /\ Held(r)
  BY PeekWay
<1> HIDE DEF r
<1>2. Way(a, q0, c, w, n) /\ Clear(c)
  BY <1>1, ConsumeWay
<1> HIDE DEF c
<1>3. r.frames # <<>> /\ c.frames # <<>>
  BY <1>1, <1>2, WayFields
<1>4. \A t \in {loop, end, sep} : t \in InnerStates /\ OpenIn(t) = w
  BY FlowLevels
<1> HIDE DEF loop, end, sep
<1>5. Done(a, Goto(c, loop)) /\ Done(a, Goto(r, end)) /\ Done(a, Goto(r, sep))
  BY <1>1, <1>2, <1>3, <1>4, InnerDone
<1>6. ~r.have_token => Done(a, r)
  BY <1>1, HaltDone DEF Held
<1>7. \/ ~r.have_token /\ FlowSep(q, in_seq) = r
      \/ FlowSep(q, in_seq) \in {Goto(c, loop), Goto(r, end), Goto(r, sep)}
  BY DEF FlowSep, r, c, loop, end, sep
<1> QED BY <1>5, <1>6, <1>7

\* inc_emit_scalar_token.
LEMMA EmitScalarTokenWay ==
  ASSUME NEW a, NEW q0, NEW q, NEW w, NEW n \in 0..7, Way(a, q0, q, w, n),
         NEW v, Advanced(w, v), Fits(q.frames, w)
  PROVE  Way(a, q0, EmitScalarToken(q), v, n + 1) /\ Clear(EmitScalarToken(q))
<1>1. "SCALAR" \in Stream!Leaf
  BY DEF Stream!Leaf
<1>2. CASE AtEventLimit(q)
  <2> DEFINE r == Emit(q, "SCALAR")
  <2>1. Way(a, q0, r, v, n + 1)
    BY <1>1, LeafWay
  <2>2. r = StopWith(q, "ERR_LIMIT") /\ EmitScalarToken(q) = r
    BY <1>2 DEF Emit, EmitScalarToken
  <2>3. r.stop_status # "NONE"
    BY <2>2 DEF StopWith, Way, Good, ParserRecord
  <2> QED BY <2>1, <2>2, <2>3 DEF Clear
<1>3. CASE ~AtEventLimit(q)
  <2> DEFINE p == AttachProps(q)
             r == Emit(p, "SCALAR")
             c == Consume(r)
  <2>1. Way(a, q0, p, w, n) /\ Clear(p)
    BY AttachWay
  <2> HIDE DEF p
  <2>2. p.frames = q.frames
    BY <2>1, WayFields
  <2>3. Way(a, q0, r, v, n + 1) /\ Clear(r)
    BY <1>1, <2>1, <2>2, LeafWay
  <2> HIDE DEF r
  <2>4. Way(a, q0, c, v, n + 1) /\ Clear(c)
    BY <2>3, ConsumeWay
  <2>5. EmitScalarToken(q) = c
    BY <1>3 DEF EmitScalarToken, p, r
  <2> QED BY <2>4, <2>5
<1> QED BY <1>2, <1>3

\* inc_flow_map_value.
LEMMA FlowMapValueNodeDone ==
  ASSUME NEW a, NEW q0, NEW q, NEW n \in 0..7, Way(a, q0, q, <<"VALUE">>, n), Clear(q),
         q.frames # <<>>
  PROVE  Done(a, FlowMapValueNode(q))
<1> DEFINE r == Peek(q)
           s == EmitScalarToken(r)
<1>1. Way(a, q0, r, <<"VALUE">>, n) /\ Clear(r) /\ Held(r)
  BY PeekWay
<1> HIDE DEF r
<1>2. r.frames # <<>> /\ r.frames = q.frames
  BY <1>1, WayFields
<1>3. Fits(r.frames, <<"VALUE">>) /\ Advanced(<<"VALUE">>, <<"KEY">>)
  BY <1>2, InnerFits, Advances
<1>4. ~r.have_token => Done(a, r)
  BY <1>1, HaltDone DEF Held
<1>5. Way(a, q0, s, <<"KEY">>, n + 1) /\ Clear(s)
  BY <1>1, <1>3, EmitScalarTokenWay
<1> HIDE DEF s
<1>6. s.frames # <<>>
  BY <1>2, <1>5, <1>1, WayFields
<1>7. Done(a, FlowSep(s, FALSE))
  BY <1>5, <1>6, FlowSepDone
<1>8. Done(a, Goto(Emit(r, "SCALAR"), "FLOW_MAP_SEP"))
  <2>1. "SCALAR" \in Stream!Leaf /\ Advanced(<<"VALUE">>, OpenIn("FLOW_MAP_SEP"))
    BY <1>3, FlowLevels DEF Stream!Leaf
  <2> QED BY <1>1, <1>2, <1>3, <2>1, LeafInnerDone, FlowLevels
<1>9. Done(a, GotoNode(r, "FLOW_NODE", "FLOW_MAP_SEP"))
  BY <1>1, <1>2, EntryDone, FlowLevels
<1>10. \/ ~r.have_token /\ FlowMapValueNode(q) = r
       \/ FlowMapValueNode(q) \in {FlowSep(s, FALSE), Goto(Emit(r, "SCALAR"), "FLOW_MAP_SEP"),
                                   GotoNode(r, "FLOW_NODE", "FLOW_MAP_SEP")}
  BY DEF FlowMapValueNode, r, s
<1> QED BY <1>4, <1>7, <1>8, <1>9, <1>10

\* A key or a value in a flow collection, or an empty one.
LEMMA PairNodeDone ==
  ASSUME NEW a, NEW q0, NEW q, NEW n \in 0..7, NEW ends,
         NEW next \in {"FLOW_MAP_VALUE", "FLOW_SEQ_IMPLICIT_END", "FLOW_SEQ_EXPLICIT_VALUE",
                       "FLOW_SEQ_EXPLICIT_END"},
         Way(a, q0, q, Awaiting(next), n), Clear(q), q.frames # <<>>
  PROVE  Done(a, PairNode(q, ends, next))
<1> DEFINE r == Peek(q)
           w == Awaiting(next)
<1>1. Way(a, q0, r, w, n) /\ Clear(r)
  BY PeekWay
<1> HIDE DEF r
<1>2. r.frames # <<>>
  BY <1>1, WayFields
<1>3. /\ Fits(r.frames, w) /\ Advanced(w, OpenIn(next)) /\ next \in InnerStates
      /\ next \in ReturnState \ {"STREAM_START", "DOC_END_EXPLICIT"}
  BY <1>2, InnerFits, Advances, FlowLevels
<1> HIDE DEF w
<1>4. Done(a, Goto(Emit(r, "SCALAR"), next))
  <2>1. "SCALAR" \in Stream!Leaf
    BY DEF Stream!Leaf
  <2> QED BY <1>1, <1>2, <1>3, <2>1, LeafInnerDone
<1>5. Done(a, GotoNode(r, "FLOW_NODE", next))
  BY <1>1, <1>2, <1>3, EntryDone DEF w
<1>6. PairNode(q, ends, next) \in {Goto(Emit(r, "SCALAR"), next),
                                   GotoNode(r, "FLOW_NODE", next)}
  BY DEF PairNode, r
<1> QED BY <1>4, <1>5, <1>6

-----------------------------------------------------------------------------
(***************************************************************************)
(* Flow mappings, and the states of flow sequences that have no properties *)
(* pending.                                                                *)
(***************************************************************************)

\* A scalar key, and its value when it is a scalar.
LEMMA FlowScalarKeyDone ==
  ASSUME NEW a, NEW q0, NEW q, Way(a, q0, q, <<"KEY">>, 0), q.frames # <<>>
  PROVE  Done(a, FlowScalarKey(q))
<1> DEFINE k == EmitScalarToken(q)
           g == Goto(k, "FLOW_MAP_VALUE")
           r == Peek(g)
           c == Consume(r)
<1>1. 0 \in 0..7 /\ 0 + 1 \in 0..7 /\ "FLOW_MAP_VALUE" \in State
  BY DEF State, FlowStates
<1>2. Way(a, q0, k, <<"VALUE">>, 0 + 1) /\ Clear(k)
  BY <1>1, InnerFits, Advances, EmitScalarTokenWay
<1>3. k.frames # <<>> /\ Good(k)
  <2>1. q.frames = q0.frames
    BY WayFields
  <2> HIDE DEF k
  <2> QED BY <1>2, <2>1, WayFields
<1> HIDE DEF k
<1>4. /\ Good(g) /\ g.state = "FLOW_MAP_VALUE" /\ g.frames = k.frames
      /\ g.out_buf = k.out_buf /\ g.stop_status = k.stop_status
      /\ g.events_delivered = k.events_delivered
      /\ g.has_anchor = k.has_anchor /\ g.has_tag = k.has_tag
  BY <1>1, <1>3, GotoFields
<1> HIDE DEF g
<1>5. Way(a, g, g, <<"VALUE">>, 0 + 1) /\ Clear(g)
  BY <1>2, <1>4, Rebase DEF Clear, Bare
<1>6. Way(a, g, r, <<"VALUE">>, 0 + 1) /\ Clear(r)
  BY <1>5, PeekWay
<1> HIDE DEF r
<1>7. Good(r) /\ r.frames # <<>> /\ r.state = "FLOW_MAP_VALUE"
  BY <1>3, <1>4, <1>6, WayFields
<1>8. Done(a, r)
  <2>1. Done(a, Goto(r, "FLOW_MAP_VALUE"))
    BY <1>6, <1>7, InnerDone, FlowLevels
  <2>2. Goto(r, "FLOW_MAP_VALUE") = r
    BY <1>7, GotoSame
  <2> QED BY <2>1, <2>2
<1>9. Way(a, g, c, <<"VALUE">>, 0 + 1) /\ Clear(c)
  BY <1>6, ConsumeWay
<1> HIDE DEF c
<1>10. c.frames # <<>>
  BY <1>3, <1>4, <1>9, WayFields
<1>11. Done(a, FlowMapValueNode(c))
  BY <1>1, <1>9, <1>10, FlowMapValueNodeDone
<1>12. FlowScalarKey(q) \in {r, FlowMapValueNode(c)}
  BY DEF FlowScalarKey, c, r, g, k
<1> QED BY <1>8, <1>11, <1>12

\* ST_FLOW_MAP_LOOP.
LEMMA FlowMapLoopDone ==
  ASSUME NEW a, NEW q, AtStart(a, q), q.state = "FLOW_MAP_LOOP"
  PROVE  Done(a, FlowMapLoop(q))
<1> DEFINE p == Peek(q)
           c == Consume(p)
           e == ParseError(p)
           ends == {"BLOCK_MAP_VALUE", "FLOW_ENTRY", "FLOW_MAP_END"}
<1>1. /\ Way(a, q, q, <<"KEY">>, 0) /\ Clear(q) /\ q.frames # <<>> /\ StatePlaced(q)
      /\ OpenAt(q) = <<"KEY">> /\ q.state \notin AwayStates \cup {"STREAM_START"}
  BY InnerStart, FlowLevels
<1>2. Way(a, q, p, <<"KEY">>, 0) /\ Clear(p)
  BY <1>1, PeekWay
<1> HIDE DEF p
<1>3. Way(a, q, c, <<"KEY">>, 0) /\ Clear(c)
  BY <1>2, ConsumeWay
<1> HIDE DEF c
<1>4. p.frames # <<>> /\ c.frames # <<>>
  BY <1>1, <1>2, <1>3, WayFields
<1>5. Done(a, e)
  BY <1>1, <1>2, ErrorDone
<1> HIDE DEF e, ends
<1>6. Done(a, Goto(p, "FLOW_MAP_END")) /\ Done(a, GotoNode(p, "FLOW_NODE", "FLOW_MAP_VALUE"))
  BY <1>2, <1>4, InnerDone, EntryDone, FlowLevels
<1>7. Done(a, PairNode(c, ends, "FLOW_MAP_VALUE"))
  <2>1. 0 \in 0..7 /\ Way(a, q, c, Awaiting("FLOW_MAP_VALUE"), 0)
    BY <1>3, FlowLevels
  <2> QED BY <1>3, <1>4, <2>1, PairNodeDone
<1>8. Done(a, FlowScalarKey(p))
  BY <1>2, <1>4, FlowScalarKeyDone
<1>9. FlowMapLoop(q) \in {Goto(p, "FLOW_MAP_END"), e, PairNode(c, ends, "FLOW_MAP_VALUE"),
                          FlowScalarKey(p), GotoNode(p, "FLOW_NODE", "FLOW_MAP_VALUE")}
  BY DEF FlowMapLoop, p, c, e, ends
<1> QED BY <1>5, <1>6, <1>7, <1>8, <1>9

\* ST_FLOW_MAP_VALUE.
LEMMA FlowMapValueDone ==
  ASSUME NEW a, NEW q, AtStart(a, q), q.state = "FLOW_MAP_VALUE"
  PROVE  Done(a, FlowMapValue(q))
<1> DEFINE p == Peek(q)
           c == Consume(p)
<1>1. Way(a, q, q, <<"VALUE">>, 0) /\ Clear(q) /\ q.frames # <<>>
  BY InnerStart, FlowLevels
<1>2. Way(a, q, p, <<"VALUE">>, 0) /\ Clear(p)
  BY <1>1, PeekWay
<1> HIDE DEF p
<1>3. Way(a, q, c, <<"VALUE">>, 0) /\ Clear(c)
  BY <1>2, ConsumeWay
<1> HIDE DEF c
<1>4. p.frames # <<>> /\ c.frames # <<>>
  BY <1>1, <1>2, <1>3, WayFields
<1>5. 0 \in 0..7 /\ "SCALAR" \in Stream!Leaf
  BY DEF Stream!Leaf
<1>6. Done(a, FlowMapValueNode(c))
  BY <1>3, <1>4, <1>5, FlowMapValueNodeDone
<1>7. Done(a, Goto(Emit(p, "SCALAR"), "FLOW_MAP_SEP"))
  <2>1. Advanced(<<"VALUE">>, OpenIn("FLOW_MAP_SEP")) /\ Fits(p.frames, <<"VALUE">>)
    BY <1>4, Advances, FlowLevels, InnerFits
  <2> QED BY <1>2, <1>4, <1>5, <2>1, LeafInnerDone, FlowLevels
<1>8. FlowMapValue(q) \in {FlowMapValueNode(c), Goto(Emit(p, "SCALAR"), "FLOW_MAP_SEP")}
  BY DEF FlowMapValue, p, c
<1> QED BY <1>6, <1>7, <1>8

\* ST_FLOW_MAP_SEP and ST_FLOW_SEQ_SEP.
LEMMA FlowSepStateDone ==
  ASSUME NEW a, NEW q, AtStart(a, q)
  PROVE  /\ q.state = "FLOW_MAP_SEP" => Done(a, FlowMapSep(q))
         /\ q.state = "FLOW_SEQ_SEP" => Done(a, FlowSeqSep(q))
<1> DEFINE p == Peek(q)
           c == Consume(p)
           e == ParseError(p)
<1>1. ASSUME NEW loop \in {"FLOW_MAP_LOOP", "FLOW_SEQ_LOOP"}, q.state \in InnerStates,
             q.state # "FLOW_SEQ_LOOP", OpenIn(q.state) = OpenIn(loop)
      PROVE  Done(a, Goto(c, loop)) /\ Done(a, Goto(p, loop)) /\ Done(a, e)
  <2> DEFINE w == OpenIn(q.state)
  <2>1. /\ Way(a, q, q, w, 0) /\ Clear(q) /\ q.frames # <<>> /\ StatePlaced(q)
        /\ OpenAt(q) = w /\ q.state \notin AwayStates \cup {"STREAM_START"}
        /\ w = OpenIn(loop) /\ loop \in InnerStates
    BY <1>1, InnerStart, FlowLevels
  <2> HIDE DEF w
  <2>2. Way(a, q, p, w, 0) /\ Clear(p)
    BY <2>1, PeekWay
  <2> HIDE DEF p
  <2>3. Way(a, q, c, w, 0) /\ Clear(c)
    BY <2>2, ConsumeWay
  <2> HIDE DEF c
  <2>4. p.frames # <<>> /\ c.frames # <<>>
    BY <2>1, <2>2, <2>3, WayFields
  <2>5. Done(a, e)
    BY <2>1, <2>2, ErrorDone
  <2> HIDE DEF e
  <2> QED BY <2>1, <2>2, <2>3, <2>4, <2>5, InnerDone
<1>2. ASSUME q.state = "FLOW_MAP_SEP" PROVE Done(a, FlowMapSep(q))
  <2>1. Done(a, Goto(c, "FLOW_MAP_LOOP")) /\ Done(a, Goto(p, "FLOW_MAP_LOOP")) /\ Done(a, e)
    BY <1>1, <1>2, FlowLevels
  <2>2. FlowMapSep(q) \in {Goto(c, "FLOW_MAP_LOOP"), Goto(p, "FLOW_MAP_LOOP"), e}
    BY DEF FlowMapSep
  <2> QED BY <2>1, <2>2
<1>3. ASSUME q.state = "FLOW_SEQ_SEP" PROVE Done(a, FlowSeqSep(q))
  <2>1. Done(a, Goto(c, "FLOW_SEQ_LOOP")) /\ Done(a, Goto(p, "FLOW_SEQ_LOOP")) /\ Done(a, e)
    BY <1>1, <1>3, FlowLevels
  <2>2. FlowSeqSep(q) \in {Goto(c, "FLOW_SEQ_LOOP"), Goto(p, "FLOW_SEQ_LOOP"), e}
    BY DEF FlowSeqSep
  <2> QED BY <2>1, <2>2
<1> QED BY <1>2, <1>3

\* Leaving a flow collection, and the separator after it.
LEMMA FlowEndDone ==
  ASSUME NEW a, NEW q, AtStart(a, q), q.state \in InnerStates, q.state # "FLOW_SEQ_LOOP",
         NEW e, NEW y, OpenIn(q.state) = <<y>>,
         \/ e = "MAPPING_END" /\ y = "KEY"
         \/ e = "SEQUENCE_END" /\ y = "SEQ"
  PROVE  Done(a, FlowEnd(q, e))
<1> DEFINE c == Consume(q)
           r == Emit(c, e)
           f == PopFrame(r)
           l == Levels(q.frames)
           w == Parents(f.state)
<1>1. Way(a, q, q, <<y>>, 0) /\ Clear(q) /\ q.frames # <<>>
  BY InnerStart
<1>2. /\ y \in Stream!Level /\ e \in Stream!Event
      /\ <<>> \in Seq(Stream!Level)
  BY DEF Stream!Level, Stream!Event
<1>3. Way(a, q, c, <<y>>, 0) /\ Clear(c)
  BY <1>1, ConsumeWay
<1> HIDE DEF c
<1>4. c.frames = q.frames
  BY <1>3, WayFields
<1>5. /\ q.frames \in Seq(Frame) /\ FramesPlaced(q.frames)
      /\ (MaxDepth > 0 => Len(q.frames) <= MaxDepth) /\ l \in Seq(Stream!Level)
  BY <1>1, WayTypes
<1>6. l \o <<>> \in Room
  <2>1. Fits(q.frames, <<>>)
    BY DEF Fits
  <2> QED BY <1>5, <2>1, FitsRoom
<1>7. e \in Stream!Accepts(l \o <<y>>) /\ Stream!After(l \o <<y>>, e) = l \o <<>>
  <2> HIDE DEF l
  <2>1. l \o <<y>> = Append(l, y) /\ l \o <<>> = l
    BY <1>2, <1>5, Words
  <2> QED BY <1>5, <2>1, EndStep
<1>8. Way(a, q, r, <<>>, 0 + 1) /\ Clear(r)
  <2>1. 0 \in Nat /\ 0 < OutSize
    BY DEF OutSize
  <2> QED BY <1>2, <1>3, <1>4, <1>6, <1>7, <2>1, EmitWay
<1> HIDE DEF r, l
<1>9. r.frames # <<>>
  BY <1>1, <1>8, WayFields
<1>10. /\ Good(f) /\ Clear(f) /\ f.state \in ReturnState /\ f.state # "STREAM_START"
       /\ ((f.state = "DOC_END_EXPLICIT") <=> (f.frames = <<>>))
       /\ w \in Seq(Stream!Level) /\ Way(a, f, f, w \o <<>>, 0 + 1)
  BY <1>2, <1>8, <1>9, PopWay
<1> HIDE DEF f
<1>11. Way(a, f, f, w, 0 + 1)
  <2>1. w \o <<>> = w
    BY <1>10, ConcatEmptySeq
  <2> QED BY <1>10, <2>1
<1>12. CASE f.state = "FLOW_SEQ_SEP"
  <2>1. w = <<"SEQ">> /\ f.frames # <<>>
    BY <1>10, <1>12 DEF Parents
  <2> HIDE DEF w
  <2>2. Done(a, FlowSep(f, TRUE))
    BY <1>10, <1>11, <2>1, FlowSepDone
  <2>3. FlowEnd(q, e) = FlowSep(f, TRUE)
    BY <1>12 DEF FlowEnd, f, r, c
  <2> QED BY <2>2, <2>3
<1>13. CASE f.state = "FLOW_MAP_SEP"
  <2>1. w = <<"KEY">> /\ f.frames # <<>>
    BY <1>10, <1>13 DEF Parents
  <2> HIDE DEF w
  <2>2. Done(a, FlowSep(f, FALSE))
    BY <1>10, <1>11, <2>1, FlowSepDone
  <2>3. FlowEnd(q, e) = FlowSep(f, FALSE)
    BY <1>13 DEF FlowEnd, f, r, c
  <2> QED BY <2>2, <2>3
<1>14. CASE f.state \notin {"FLOW_SEQ_SEP", "FLOW_MAP_SEP"}
  <2>1. Done(a, Goto(f, f.state))
    BY <1>10, <1>11, ReturnDone
  <2>2. Goto(f, f.state) = f
    BY <1>10, GotoSame
  <2>3. FlowEnd(q, e) = f
    BY <1>14 DEF FlowEnd, f, r, c
  <2> QED BY <2>1, <2>2, <2>3
<1> QED BY <1>12, <1>13, <1>14

\* ST_FLOW_MAP_END and ST_FLOW_SEQ_END.
LEMMA FlowEndsDone ==
  ASSUME NEW a, NEW q, AtStart(a, q)
  PROVE  /\ q.state = "FLOW_MAP_END" => Done(a, FlowMapEnd(q))
         /\ q.state = "FLOW_SEQ_END" => Done(a, FlowSeqEnd(q))
<1>1. ASSUME q.state = "FLOW_MAP_END" PROVE Done(a, FlowEnd(q, "MAPPING_END"))
  BY <1>1, FlowEndDone, FlowLevels
<1>2. ASSUME q.state = "FLOW_SEQ_END" PROVE Done(a, FlowEnd(q, "SEQUENCE_END"))
  BY <1>2, FlowEndDone, FlowLevels
<1> QED BY <1>1, <1>2 DEF FlowMapEnd, FlowSeqEnd

\* The end of a pair: ST_FLOW_SEQ_IMPLICIT_END and ST_FLOW_SEQ_EXPLICIT_END.
LEMMA FlowSeqPairEndDone ==
  ASSUME NEW a, NEW q, AtStart(a, q),
         q.state \in {"FLOW_SEQ_IMPLICIT_END", "FLOW_SEQ_EXPLICIT_END"}
  PROVE  Done(a, FlowSeqPairEnd(q))
<1> DEFINE p == Peek(q)
           r == Emit(p, "MAPPING_END")
<1>1. Way(a, q, q, <<"SEQ", "KEY">>, 0) /\ Clear(q) /\ q.frames # <<>>
  BY InnerStart, FlowLevels
<1>2. Way(a, q, p, <<"SEQ", "KEY">>, 0) /\ Clear(p)
  BY <1>1, PeekWay
<1> HIDE DEF p
<1>3. p.frames # <<>> /\ 0 \in 0..7
  BY <1>1, <1>2, WayFields
<1>4. Way(a, q, r, <<"SEQ">>, 0 + 1) /\ Clear(r)
  BY <1>2, <1>3, PairWay
<1> HIDE DEF r
<1>5. r.frames # <<>>
  BY <1>1, <1>4, WayFields
<1>6. Done(a, Goto(r, "FLOW_SEQ_SEP"))
  BY <1>4, <1>5, InnerDone, FlowLevels
<1> QED BY <1>6 DEF FlowSeqPairEnd, r, p

\* The start of a pair and its key, its ':' consumed, and on to its value.
LEMMA PairKeyDone ==
  ASSUME NEW a, NEW q0, NEW q, Way(a, q0, q, <<"SEQ">>, 0), Clear(q), q.frames # <<>>,
         NEW e \in Stream!Leaf
  PROVE  Done(a, PairNode(Consume(Emit(Emit(q, "MAPPING_START"), e)), PairEnds,
                          "FLOW_SEQ_IMPLICIT_END"))
<1> DEFINE m == Emit(q, "MAPPING_START")
           k == Emit(m, e)
           c == Consume(k)
           w == Awaiting("FLOW_SEQ_IMPLICIT_END")
<1>1. 0 \in 0..7 /\ 0 + 1 \in 0..7 /\ 0 + 1 + 1 \in 0..7
  OBVIOUS
<1>2. Way(a, q0, m, <<"SEQ", "KEY">>, 0 + 1) /\ Clear(m)
  BY <1>1, PairWay
<1> HIDE DEF m
<1>3. q.frames = q0.frames
  BY WayFields
<1>4. m.frames # <<>>
  BY <1>2, <1>3, WayFields
<1>5. Fits(m.frames, <<"SEQ", "KEY">>) /\ Advanced(<<"SEQ", "KEY">>, <<"SEQ", "VALUE">>)
  BY <1>4, InnerFits, Advances
<1>6. Way(a, q0, k, <<"SEQ", "VALUE">>, 0 + 1 + 1) /\ Clear(k)
  BY <1>1, <1>2, <1>5, LeafWay
<1> HIDE DEF k
<1>7. Way(a, q0, c, <<"SEQ", "VALUE">>, 0 + 1 + 1) /\ Clear(c)
  BY <1>6, ConsumeWay
<1> HIDE DEF c
<1>8. c.frames # <<>> /\ w = <<"SEQ", "VALUE">>
  BY <1>3, <1>7, WayFields, FlowLevels
<1>9. Done(a, PairNode(c, PairEnds, "FLOW_SEQ_IMPLICIT_END"))
  BY <1>1, <1>7, <1>8, PairNodeDone
<1> QED BY <1>9 DEF c, k, m

\* ST_FLOW_SEQ_ENTRY_KEY.
LEMMA FlowSeqEntryKeyDone ==
  ASSUME NEW a, NEW q, AtStart(a, q), q.state = "FLOW_SEQ_ENTRY_KEY"
  PROVE  Done(a, FlowSeqEntryKey(q))
<1>1. Way(a, q, q, <<"SEQ">>, 0) /\ Clear(q) /\ q.frames # <<>>
  BY InnerStart, FlowLevels
<1>2. q.saved_node \in Stream!Leaf
  BY FieldTypes DEF AtStart
<1> QED BY <1>1, <1>2, PairKeyDone DEF FlowSeqEntryKey

\* ST_FLOW_SEQ_EXPLICIT_KEY.
LEMMA FlowSeqExplicitKeyDone ==
  ASSUME NEW a, NEW q, AtStart(a, q), q.state = "FLOW_SEQ_EXPLICIT_KEY"
  PROVE  Done(a, FlowSeqExplicitKey(q))
<1> DEFINE m == Emit(q, "MAPPING_START")
           c == Consume(m)
           ends == PairEnds \cup {"BLOCK_MAP_VALUE"}
           w == Awaiting("FLOW_SEQ_EXPLICIT_VALUE")
<1>1. Way(a, q, q, <<"SEQ">>, 0) /\ Clear(q) /\ q.frames # <<>>
  BY InnerStart, FlowLevels
<1>2. 0 \in 0..7 /\ 0 + 1 \in 0..7
  OBVIOUS
<1>3. Way(a, q, m, <<"SEQ", "KEY">>, 0 + 1) /\ Clear(m)
  BY <1>1, <1>2, PairWay
<1> HIDE DEF m
<1>4. Way(a, q, c, <<"SEQ", "KEY">>, 0 + 1) /\ Clear(c)
  BY <1>3, ConsumeWay
<1> HIDE DEF c, ends
<1>5. c.frames # <<>> /\ w = <<"SEQ", "KEY">>
  BY <1>1, <1>4, WayFields, FlowLevels
<1>6. Done(a, PairNode(c, ends, "FLOW_SEQ_EXPLICIT_VALUE"))
  BY <1>2, <1>4, <1>5, PairNodeDone
<1> QED BY <1>6 DEF FlowSeqExplicitKey, c, m, ends

\* ST_FLOW_SEQ_EXPLICIT_VALUE.
LEMMA FlowSeqExplicitValueDone ==
  ASSUME NEW a, NEW q, AtStart(a, q), q.state = "FLOW_SEQ_EXPLICIT_VALUE"
  PROVE  Done(a, FlowSeqExplicitValue(q))
<1> DEFINE p == Peek(q)
           c == Consume(p)
           w == <<"SEQ", "VALUE">>
<1>1. Way(a, q, q, w, 0) /\ Clear(q) /\ q.frames # <<>>
  BY InnerStart, FlowLevels
<1>2. Way(a, q, p, w, 0) /\ Clear(p)
  BY <1>1, PeekWay
<1> HIDE DEF p
<1>3. Way(a, q, c, w, 0) /\ Clear(c)
  BY <1>2, ConsumeWay
<1> HIDE DEF c
<1>4. p.frames # <<>> /\ c.frames # <<>>
  BY <1>1, <1>2, <1>3, WayFields
<1>5. 0 \in 0..7 /\ "SCALAR" \in Stream!Leaf
  BY DEF Stream!Leaf
<1>6. Done(a, PairNode(c, PairEnds, "FLOW_SEQ_EXPLICIT_END"))
  <2>1. Awaiting("FLOW_SEQ_EXPLICIT_END") = w
    BY FlowLevels
  <2> QED BY <1>3, <1>4, <1>5, <2>1, PairNodeDone
<1>7. Done(a, Goto(Emit(p, "SCALAR"), "FLOW_SEQ_EXPLICIT_END"))
  <2>1. Advanced(w, OpenIn("FLOW_SEQ_EXPLICIT_END")) /\ Fits(p.frames, w)
    BY <1>4, Advances, FlowLevels, InnerFits
  <2> QED BY <1>2, <1>4, <1>5, <2>1, LeafInnerDone, FlowLevels
<1>8. FlowSeqExplicitValue(q) \in {PairNode(c, PairEnds, "FLOW_SEQ_EXPLICIT_END"),
                                   Goto(Emit(p, "SCALAR"), "FLOW_SEQ_EXPLICIT_END")}
  BY DEF FlowSeqExplicitValue, p, c
<1> QED BY <1>6, <1>7, <1>8

-----------------------------------------------------------------------------
(***************************************************************************)
(* Properties in flow collections.                                         *)
(***************************************************************************)

\* consume_props reads tokens and marks properties, nothing else; it refuses
\* only an alias.
LEMMA ConsumePropsQuiet ==
  ASSUME NEW q, Good(q)
  PROVE  LET r == ConsumeProps(q)
         IN  /\ Good(r) /\ Held(r) /\ Quiet(q, r)
             /\ r.status # q.status => r.have_token /\ Tok(r) = "ALIAS"
<1> DEFINE Still(p, r) == Quiet(p, r) /\ r.status = p.status
           r == TakePropIfAny(TakePropIfAny(Peek(q)))
<1>1. ASSUME NEW p, Good(p)
      PROVE  Good(TakeProp(p)) /\ Still(p, TakeProp(p))
  <2> DEFINE b == [p EXCEPT !.has_anchor = TRUE]
             t == [p EXCEPT !.has_tag = TRUE]
  <2>1. b \in ParserRecord /\ t \in ParserRecord
    BY <1>1 DEF Good, ParserRecord
  <2>2. Bounds(b) /\ Bounds(t) /\ Still(p, b) /\ Still(p, t)
    BY <1>1 DEF Good, ParserRecord, Bounds, Quiet
  <2>3. Good(b) /\ Good(t)
    BY <2>1, <2>2 DEF Good
  <2>4. TakeProp(p) = Consume(b) \/ TakeProp(p) = Consume(t)
    BY DEF TakeProp
  <2> HIDE DEF b, t
  <2>5. Good(Consume(b)) /\ Good(Consume(t))
    BY <2>3, ConsumeGood
  <2>6. Still(b, Consume(b)) /\ Still(t, Consume(t))
    BY <2>3 DEF Consume, Good, ParserRecord, Quiet
  <2> QED BY <2>2, <2>4, <2>5, <2>6 DEF Quiet
<1>2. ASSUME NEW p, Good(p) PROVE Still(p, Peek(p)) /\ Good(Peek(p))
  BY <1>2, PeekQuiet, PeekGood
<1>3. ASSUME NEW p, Good(p)
      PROVE  Good(TakePropIfAny(p)) /\ Still(p, TakePropIfAny(p))
  <2> DEFINE t == TakeProp(p)
  <2>1. Good(t) /\ Still(p, t)
    BY <1>1, <1>3
  <2> HIDE DEF t
  <2>2. Good(Peek(t)) /\ Still(p, Peek(t))
    BY <1>2, <2>1 DEF Quiet
  <2>3. TakePropIfAny(p) \in {Peek(t), p}
    BY DEF TakePropIfAny, t
  <2>4. Still(p, p)
    BY DEF Quiet
  <2> QED BY <1>3, <2>2, <2>3, <2>4
<1>4. Good(r) /\ Still(q, r)
  <2> DEFINE p == Peek(q)
             s == TakePropIfAny(p)
  <2>1. Good(p) /\ Still(q, p)
    BY <1>2
  <2> HIDE DEF p
  <2>2. Good(s) /\ Still(p, s)
    BY <1>3, <2>1
  <2> HIDE DEF s
  <2>3. Good(TakePropIfAny(s)) /\ Still(s, TakePropIfAny(s))
    BY <1>3, <2>2
  <2> QED BY <2>1, <2>2, <2>3 DEF Quiet, s, p
<1> HIDE DEF r
<1>5. /\ Good(ParseError(r)) /\ Quiet(r, ParseError(r))
      /\ ParseError(r).have_token = r.have_token /\ Tok(ParseError(r)) = Tok(r)
  <2> DEFINE e == ParseError(r)
  <2>1. Good(e) /\ r \in ParserRecord
    BY <1>4, ParseErrorGood DEF Good
  <2>2. e = [r EXCEPT !.status = "ERR_PARSE", !.error_msg = "parse"]
    BY DEF ParseError
  <2> HIDE DEF e
  <2>3. Quiet(r, e) /\ e.have_token = r.have_token /\ e.current = r.current
    BY <2>1, <2>2 DEF ParserRecord, Quiet
  <2> QED BY <2>1, <2>3 DEF e, Tok
<1>6. \/ ConsumeProps(q) = r
      \/ ConsumeProps(q) = ParseError(r) /\ r.have_token /\ Tok(r) = "ALIAS"
  BY DEF ConsumeProps, RefuseAliasWithProps, r
<1>7. Held(ConsumeProps(q))
  BY ConsumePropsGood
<1> QED BY <1>4, <1>5, <1>6, <1>7 DEF Quiet

\* Reading properties on the way.
LEMMA ConsumePropsWay ==
  ASSUME NEW a, NEW q0, NEW q, NEW w, NEW n, Way(a, q0, q, w, n)
  PROVE  LET r == ConsumeProps(q)
         IN  /\ Way(a, q0, r, w, n) /\ Held(r)
             /\ r.status # q.status => r.have_token /\ Tok(r) = "ALIAS"
<1>1. Good(q)
  BY WayFields
<1> QED BY <1>1, ConsumePropsQuiet, QuietWay

\* ST_FLOW_SEQ_ENTRY: a scalar or an alias.
LEMMA FlowSeqEntryDone ==
  ASSUME NEW a, NEW q0, NEW q, Way(a, q0, q, <<"SEQ">>, 0), q.frames # <<>>
  PROVE  Done(a, FlowSeqEntry(q))
<1> DEFINE e == IF Tok(q) = "SCALAR" THEN "SCALAR" ELSE "ALIAS"
           p == Peek(q)
           t == AttachProps(p)
           c == Peek(Consume(t))
           r == [c EXCEPT !.saved_node = e]
           s == Emit(c, e)
<1>1. e \in Stream!Leaf /\ 0 \in 0..7
  BY DEF Stream!Leaf
<1> HIDE DEF e
<1>2. Way(a, q0, p, <<"SEQ">>, 0)
  BY PeekWay
<1> HIDE DEF p
<1>3. Way(a, q0, t, <<"SEQ">>, 0) /\ Clear(t)
  BY <1>2, AttachWay
<1> HIDE DEF t
<1>4. Way(a, q0, c, <<"SEQ">>, 0) /\ Clear(c)
  BY <1>3, NextWay
<1> HIDE DEF c
<1>5. q.frames = q0.frames
  BY WayFields
<1>6. Good(c) /\ c.frames # <<>>
  BY <1>4, <1>5, WayFields
<1>7. Done(a, Goto(r, "FLOW_SEQ_ENTRY_KEY"))
  <2>1. r \in ParserRecord
    BY <1>1, <1>6 DEF Good, ParserRecord
  <2>2. Bounds(r)
    BY <1>6 DEF Good, ParserRecord, Bounds
  <2>3. Quiet(c, r) /\ (Clear(c) => Clear(r)) /\ Good(r)
    BY <1>6, <2>1, <2>2 DEF Good, ParserRecord, Quiet, Clear, Bare
  <2> HIDE DEF r
  <2>4. Way(a, q0, r, <<"SEQ">>, 0) /\ Clear(r) /\ r.frames # <<>>
    BY <1>4, <1>6, <2>3, QuietWay DEF Quiet
  <2> QED BY <2>4, InnerDone, FlowLevels
<1>8. Way(a, q0, s, <<"SEQ">>, 0 + 1) /\ Clear(s)
  BY <1>1, <1>4, <1>6, InnerFits, Advances, LeafWay
<1> HIDE DEF s
<1>9. s.frames # <<>>
  BY <1>4, <1>5, <1>8, WayFields
<1>10. Done(a, FlowSep(s, TRUE))
  BY <1>8, <1>9, FlowSepDone
<1>11. FlowSeqEntry(q) \in {Goto(r, "FLOW_SEQ_ENTRY_KEY"), FlowSep(s, TRUE)}
  BY DEF FlowSeqEntry, r, s, c, t, p, e
<1> QED BY <1>7, <1>10, <1>11

\* A record on its way may stay in a flow sequence's loop with its properties
\* pending, if its token leads to their node.
LEMMA LoopDone ==
  ASSUME NEW a, NEW q0, NEW q, NEW n, Way(a, q0, q, <<"SEQ">>, n), StatePlaced(q0),
         q0.state = "FLOW_SEQ_LOOP",
         Clear(q) \/ (q.have_token /\ Tok(q) \notin PairEnds)
  PROVE  Done(a, q) /\ Done(a, ParseError(q))
<1> DEFINE e == ParseError(q)
<1>1. Good(q) /\ q.state = "FLOW_SEQ_LOOP"
  BY WayFields
<1>2. Way(a, q0, e, <<"SEQ">>, n) /\ (Clear(q) => Clear(e))
  BY ParseErrorWay
<1>3. e.have_token = q.have_token /\ Tok(e) = Tok(q) /\ e.state = q.state
  BY <1>1 DEF ParseError, Good, ParserRecord, Tok
<1> HIDE DEF e
<1>4. Clear(q) \/ PropsPlaced(q)
  BY <1>1 DEF PropsPlaced
<1>5. Clear(e) \/ PropsPlaced(e)
  BY <1>1, <1>2, <1>3 DEF PropsPlaced
<1>6. /\ q0.state \notin AwayStates \cup {"STREAM_START"} /\ OpenAt(q0) = <<"SEQ">>
  BY FlowLevels DEF AwayStates, OpenAt, NodeStates
<1>7. Done(a, q)
  BY <1>4, <1>6, StayDone
<1>8. Done(a, e)
  BY <1>2, <1>5, <1>6, StayDone
<1> QED BY <1>7, <1>8 DEF e

\* Properties of a flow sequence's entry.
LEMMA FlowSeqPropsDone ==
  ASSUME NEW a, NEW q0, NEW q, Way(a, q0, q, <<"SEQ">>, 0), StatePlaced(q0),
         q0.state = "FLOW_SEQ_LOOP", q.frames # <<>>, q.status = "OK"
  PROVE  Done(a, FlowSeqProps(q))
<1> DEFINE r == ConsumeProps(q)
           t == AttachProps(r)
           s == Emit(t, "SCALAR")
<1>1. /\ Way(a, q0, r, <<"SEQ">>, 0) /\ Held(r)
      /\ r.status # q.status => r.have_token /\ Tok(r) = "ALIAS"
  BY ConsumePropsWay
<1> HIDE DEF r
<1>2. 0 \in 0..7 /\ "SCALAR" \in Stream!Leaf /\ "ALIAS" \notin PairEnds
  BY DEF Stream!Leaf, PairEnds
<1>3. Way(a, q0, t, <<"SEQ">>, 0) /\ Clear(t)
  BY <1>1, AttachWay
<1> HIDE DEF t
<1>4. q.frames = q0.frames
  BY WayFields
<1>5. t.frames # <<>>
  BY <1>3, <1>4, WayFields
<1>6. Way(a, q0, s, <<"SEQ">>, 0 + 1) /\ Clear(s)
  BY <1>2, <1>3, <1>5, InnerFits, Advances, LeafWay
<1> HIDE DEF s
<1>7. s.frames # <<>>
  BY <1>4, <1>6, WayFields
<1>8. Done(a, FlowSep(s, TRUE))
  BY <1>6, <1>7, FlowSepDone
<1>9. ~r.have_token => Done(a, r)
  BY <1>1, HaltDone DEF Held
<1>10. r.have_token /\ Tok(r) \notin PairEnds => Done(a, r) /\ Done(a, ParseError(r))
  BY <1>1, LoopDone
<1>11. \/ /\ FlowSeqProps(q) = r
          /\ ~r.have_token \/ r.status # "OK" \/ Tok(r) \notin PairEnds
       \/ FlowSeqProps(q) = FlowSep(s, TRUE)
       \/ FlowSeqProps(q) = ParseError(r) /\ r.have_token /\ Tok(r) \notin PairEnds
  BY DEF FlowSeqProps, PropsFailed, r, t, s
<1> QED BY <1>1, <1>2, <1>8, <1>9, <1>10, <1>11

\* ST_FLOW_SEQ_LOOP.
LEMMA FlowSeqLoopDone ==
  ASSUME NEW a, NEW q, AtStart(a, q), q.state = "FLOW_SEQ_LOOP"
  PROVE  Done(a, FlowSeqLoop(q))
<1> DEFINE p == Peek(q)
           ahead == LookAhead(p, p.current.pos)
           g == Goto(p, "FLOW_SEQ_ENTRY")
           t == AttachProps(p)
           e == ParseError(p)
           k == PairNode(Consume(Emit(Emit(t, "MAPPING_START"), "SCALAR")), PairEnds,
                         "FLOW_SEQ_IMPLICIT_END")
<1>1. /\ Way(a, q, q, <<"SEQ">>, 0) /\ q.frames # <<>> /\ StatePlaced(q)
      /\ Good(q) /\ q.status = "OK" /\ PropsPlaced(q)
  BY InnerStart, FlowLevels DEF AtStart, Placed
<1>2. Way(a, q, p, <<"SEQ">>, 0) /\ (Clear(q) => Clear(p))
  BY <1>1, PeekWay
<1>3. Clear(p) \/ (p.have_token /\ Tok(p) \notin PairEnds)
  <2>1. CASE Bare(q)
    BY <1>2, <2>1 DEF Clear
  <2>2. CASE q.have_token /\ Tok(q) \notin PairEnds
    BY <2>2 DEF Peek
  <2> QED BY <1>1, <2>1, <2>2 DEF PropsPlaced
<1>4. p.status = "OK"
  BY <1>1, PeekQuiet
<1> HIDE DEF p
<1>5. Good(p) /\ p.frames # <<>>
  BY <1>1, <1>2, WayFields
<1>6. Done(a, e)
  BY <1>1, <1>2, <1>3, LoopDone
<1> HIDE DEF e
<1>7. Tok(p) = "FLOW_SEQ_END" => Done(a, Goto(p, "FLOW_SEQ_END"))
  <2>1. Tok(p) = "FLOW_SEQ_END" => Clear(p)
    BY <1>3 DEF PairEnds
  <2> QED BY <1>2, <1>5, <2>1, InnerDone, FlowLevels
<1>8. ~(p.has_anchor \/ p.has_tag) => Done(a, Goto(p, "FLOW_SEQ_EXPLICIT_KEY"))
  <2>1. ~(p.has_anchor \/ p.has_tag) => Clear(p)
    BY DEF Clear, Bare
  <2> QED BY <1>2, <1>5, <2>1, InnerDone, FlowLevels
<1>9. Done(a, FlowSeqEntry(g))
  <2>1. "FLOW_SEQ_ENTRY" \in State
    BY DEF State, FlowStates
  <2>2. /\ Good(g) /\ g.frames = p.frames /\ g.out_buf = p.out_buf
        /\ g.stop_status = p.stop_status /\ g.events_delivered = p.events_delivered
    BY <1>5, <2>1, GotoFields
  <2> HIDE DEF g
  <2>3. Way(a, g, g, <<"SEQ">>, 0)
    BY <1>2, <2>2, Rebase
  <2> QED BY <1>5, <2>2, <2>3, FlowSeqEntryDone
<1>10. Way(a, q, ahead, <<"SEQ">>, 0)
  BY <1>2, LookAheadWay
<1> HIDE DEF ahead
<1>11. ahead.frames # <<>>
  BY <1>1, <1>10, WayFields
<1>12. Done(a, Goto(ahead, "EAGER_DRAIN"))
  <2>1. "EAGER_DRAIN" \in AwayStates /\ "EAGER_DRAIN" # "DONE"
    BY DEF AwayStates
  <2> QED BY <1>10, <2>1, AwayDone
<1>13. Done(a, GotoNode(ahead, "FLOW_NODE", "FLOW_SEQ_SEP"))
  BY <1>10, <1>11, EntryDone, FlowLevels
<1>14. Done(a, k)
  <2>1. Way(a, q, t, <<"SEQ">>, 0) /\ Clear(t)
    BY <1>2, AttachWay
  <2> HIDE DEF t
  <2>2. t.frames # <<>> /\ "SCALAR" \in Stream!Leaf
    BY <1>1, <2>1, WayFields DEF Stream!Leaf
  <2> QED BY <2>1, <2>2, PairKeyDone
<1>15. Done(a, FlowSeqProps(p))
  BY <1>1, <1>2, <1>4, <1>5, FlowSeqPropsDone
<1> HIDE DEF k, g, t
<1>16. \/ Tok(p) = "FLOW_SEQ_END" /\ FlowSeqLoop(q) = Goto(p, "FLOW_SEQ_END")
       \/ ~(p.has_anchor \/ p.has_tag) /\ FlowSeqLoop(q) = Goto(p, "FLOW_SEQ_EXPLICIT_KEY")
       \/ FlowSeqLoop(q) \in {e, FlowSeqEntry(g), Goto(ahead, "EAGER_DRAIN"),
                              GotoNode(ahead, "FLOW_NODE", "FLOW_SEQ_SEP"), k,
                              FlowSeqProps(p)}
  BY DEF FlowSeqLoop, p, ahead, e, g, k, t
<1> QED BY <1>6, <1>7, <1>8, <1>9, <1>12, <1>13, <1>14, <1>15, <1>16

-----------------------------------------------------------------------------
(***************************************************************************)
(* Flow nodes.                                                             *)
(***************************************************************************)

\* A refused collection's start is the only event queued, and is withheld.
LEMMA WithholdStart ==
  ASSUME NEW e \in CollectionStarts
  PROVE  Withhold(<<e>>) = <<>>
<1> DEFINE out == <<e>>
           starts == {k \in 1..Len(out) : out[k] \in CollectionStarts}
           last == CHOOSE k \in starts : \A j \in starts : j <= k
<1>1. starts = {1}
  OBVIOUS
<1>2. last = 1
  <2>1. \A k \in starts : k = 1
    BY <1>1
  <2>2. 1 \in starts /\ \A j \in starts : j <= 1
    BY <1>1
  <2> HIDE DEF starts
  <2> QED BY <2>1, <2>2
<1>3. Withhold(out) = SubSeq(out, 1, last - 1)
  BY <1>1 DEF Withhold
<1> HIDE DEF last
<1>4. SubSeq(out, 1, last - 1) = <<>>
  <2>1. last - 1 = 0
    BY <1>2
  <2>2. out \in Seq(Stream!Event)
    BY DEF Stream!Event, CollectionStarts
  <2> QED BY <2>1, <2>2, SubSeqEmpty
<1> QED BY <1>3, <1>4

\* The start of a flow collection, its frame refused or pushed.
LEMMA FlowPushDone ==
  ASSUME NEW a, NEW q0, NEW q, NEW rs \in ReturnState, rs # "STREAM_START",
         Way(a, q0, q, Awaiting(rs), 0), Clear(q), ~q.scan_error,
         (rs = "DOC_END_EXPLICIT") <=> (q.frames = <<>>),
         Fits(q.frames, Awaiting(rs)),
         NEW e, NEW y, \/ e = "MAPPING_START" /\ y = "KEY"
                       \/ e = "SEQUENCE_START" /\ y = "SEQ",
         NEW context \in FlowContext, NEW indent \in Nat,
         NEW t \in InnerStates, OpenIn(t) = <<y>>
  PROVE  Done(a, Goto(PushFrame(Emit(q, e), context, indent, rs), t))
<1> DEFINE m == Emit(q, e)
           f == [type |-> context, indent |-> indent, return_state |-> rs]
           more == Append(q.frames, f)
           r == PushFrame(m, context, indent, rs)
           less == Withhold(m.out_buf)
           l == Levels(q.frames)
<1>1. /\ Good(q) /\ q.frames \in Seq(Frame) /\ FramesPlaced(q.frames)
      /\ (MaxDepth > 0 => Len(q.frames) <= MaxDepth) /\ l \in Seq(Stream!Level)
  BY WayTypes
<1>2. /\ e \in Stream!Event /\ e \in CollectionStarts /\ y \in Stream!Level
      /\ context \notin BlockContext /\ t \in State
  BY DEF Stream!Event, CollectionStarts, Stream!Level, FlowContext, BlockContext, InnerStates
<1>3. q.out_buf = <<>>
  <2>1. q.out_buf \in Seq(Stream!Event) /\ Len(q.out_buf) <= 0
    BY <1>1, FieldTypes DEF Way
  <2> QED BY <2>1, EmptySeq
<1>4. Good(m) /\ ~m.scan_error /\ m.frames = q.frames
  BY <1>1, <1>2, EmitGood, EmitScanError, EmitQuiet
<1>5. Good(r)
  BY <1>4, PushFrameGood
<1>6. \/ m.out_buf = <<>> /\ AtEventLimit(m) /\ m.stop_status = "ERR_LIMIT"
      \/ m.out_buf = <<e>> /\ m.stop_status = "NONE" /\ q.stop_status = "NONE"
  <2>1. CASE AtEventLimit(q)
    <3>1. m = StopWith(q, "ERR_LIMIT")
      BY <2>1 DEF Emit
    <3> QED BY <1>1, <1>3, <2>1, <3>1 DEF StopWith, Good, ParserRecord, AtEventLimit, Way
  <2>2. CASE ~AtEventLimit(q)
    <3>1. m = [q EXCEPT !.out_buf = Append(@, e)]
      BY <1>3, <2>2 DEF Emit, OutSize
    <3>2. Append(<<>>, e) = <<e>>
      OBVIOUS
    <3>3. q.stop_status = "NONE"
      BY <2>2 DEF Way
    <3> QED BY <1>1, <1>3, <3>1, <3>2, <3>3 DEF Good, ParserRecord
  <2> QED BY <2>1, <2>2
<1>7. \E b : Path(a, <<>>, b)
  BY <1>3 DEF Way
<1>8. m.has_anchor = q.has_anchor /\ m.has_tag = q.has_tag
  BY <1>1, <1>2, EmitQuiet
<1>9. \/ /\ MaxDepth > 0 /\ Len(m.frames) >= MaxDepth
         /\ r = StopWith([m EXCEPT !.out_buf = less], "ERR_LIMIT")
      \/ /\ ~(MaxDepth > 0 /\ Len(m.frames) >= MaxDepth)
         /\ r = [m EXCEPT !.frames = Append(@, f)]
  BY <1>2 DEF PushFrame
<1>10. less = <<>>
  BY <1>2, <1>6, WithholdOne, WithholdStart
<1> HIDE DEF m, less, f, l
<1>11. CASE /\ MaxDepth > 0 /\ Len(m.frames) >= MaxDepth
            /\ r = StopWith([m EXCEPT !.out_buf = less], "ERR_LIMIT")
  <2>1. r.stop_status # "NONE" /\ r.frames = m.frames /\ r.out_buf = <<>>
    BY <1>4, <1>6, <1>10, <1>11 DEF StopWith, Good, ParserRecord
  <2> HIDE DEF r
  <2>2. Halted(a, r)
    BY <1>7, <1>11, <2>1 DEF Halted, Reached
  <2>3. Done(a, Goto(r, t))
    BY <1>2, <1>5, <2>2, HaltedDone
  <2> QED BY <2>3 DEF r, m
<1>12. CASE /\ ~(MaxDepth > 0 /\ Len(m.frames) >= MaxDepth)
            /\ r = [m EXCEPT !.frames = Append(@, f)]
  <2>1. /\ r.frames = more /\ r.out_buf = m.out_buf /\ r.stop_status = m.stop_status
        /\ r.events_delivered = m.events_delivered
        /\ r.has_anchor = q.has_anchor /\ r.has_tag = q.has_tag
    BY <1>4, <1>8, <1>12 DEF Good, ParserRecord
  <2> HIDE DEF r
  <2>2. CASE m.out_buf = <<>> /\ AtEventLimit(m) /\ m.stop_status = "ERR_LIMIT"
    <3>1. AtEventLimit(r)
      BY <2>1, <2>2 DEF AtEventLimit
    <3>2. Halted(a, r)
      BY <1>7, <2>1, <2>2, <3>1 DEF Halted, Reached
    <3>3. Done(a, Goto(r, t))
      BY <1>2, <1>5, <3>2, HaltedDone
    <3> QED BY <3>3 DEF r, m
  <2>3. CASE m.out_buf = <<e>> /\ m.stop_status = "NONE" /\ q.stop_status = "NONE"
    <3>1. f \in Frame /\ f.return_state = rs
      BY DEF Frame, f
    <3>2. FramesPlaced(more) /\ more # <<>> /\ more \in Seq(Frame)
      BY <1>1, <3>1, PushPlaced
    <3>3. Levels(more) = l \o Parents(rs)
      BY <1>1, <3>1, LevelsAppend DEF l
    <3>4. MaxDepth > 0 => Len(more) <= MaxDepth
      <4>1. Len(more) = Len(q.frames) + 1 /\ Len(q.frames) \in Nat
        BY <1>1, <3>1
      <4> QED BY <1>4, <1>12, <4>1, LimitsAssumption
    <3> HIDE DEF more
    <3>5. Levels(more) \o <<y>> \in Room
      <4>1. Fits(more, <<y>>)
        BY <3>2, InnerFits
      <4> QED BY <3>2, <3>4, <4>1, FitsRoom
    <3>6. Advanced(Awaiting(rs), Parents(rs))
      BY AwaitingAdvances
    <3>7. /\ e \in Stream!Accepts(l \o Awaiting(rs))
          /\ Stream!After(l \o Awaiting(rs), e) = Levels(more) \o <<y>>
      <4>1. /\ l \o Parents(rs) \in Seq(Stream!Level)
            /\ e \in Stream!Accepts(l \o Awaiting(rs))
            /\ Stream!After(l \o Awaiting(rs), e) = Append(l \o Parents(rs), y)
        BY <1>1, <3>6, AdvancedStep DEF l
      <4>2. Levels(more) \o <<y>> = Append(Levels(more), y)
        BY <1>2, <3>3, <4>1, Words
      <4> QED BY <3>3, <4>1, <4>2
    <3>8. Path(a, <<e>>, Levels(more) \o <<y>>)
      <4>1. Path(a, <<>>, l \o Awaiting(rs))
        BY <1>3, <2>3 DEF Way, l, AtEventLimit
      <4>2. <<>> \in Seq(Stream!Event) /\ Append(<<>>, e) = <<e>>
        OBVIOUS
      <4>3. Path(a, Append(<<>>, e), Stream!After(l \o Awaiting(rs), e))
        BY <1>2, <3>5, <3>7, <4>1, <4>2, PathAppend
      <4> QED BY <3>7, <4>2, <4>3
    <3>9. Len(<<e>>) <= 1
      OBVIOUS
    <3>10. Way(a, r, r, <<y>>, 1)
      BY <1>5, <2>1, <2>3, <3>2, <3>8, <3>9 DEF Way
    <3>11. Clear(r)
      BY <2>1, <2>3 DEF Clear, Bare
    <3>12. Done(a, Goto(r, t))
      BY <2>1, <3>2, <3>10, <3>11, InnerDone
    <3> QED BY <3>12 DEF r, m
  <2> QED BY <1>6, <2>2, <2>3
<1> QED BY <1>9, <1>11, <1>12

\* A node of a flow collection, or the flow collection a block node is, its
\* properties read.
LEMMA FlowNodeAfterPropsDone ==
  ASSUME NEW a, NEW q0, NEW q, NEW rs \in ReturnState, rs = q.node_return,
         rs # "STREAM_START", Way(a, q0, q, Awaiting(rs), 0), ~q.scan_error,
         (rs = "DOC_END_EXPLICIT") <=> (q.frames = <<>>),
         Fits(q.frames, Awaiting(rs))
  PROVE  Done(a, FlowNodeAfterProps(q))
<1> DEFINE t == AttachProps(q)
           c == Consume(t)
           s == EmitScalarToken(q)
           w == Awaiting(rs)
           col == Col(q)
<1>1. /\ 0 \in 0..7 /\ "SCALAR" \in Stream!Leaf /\ "ALIAS" \in Stream!Leaf
  BY DEF Stream!Leaf
<1>2. Good(q) /\ col \in Nat
  BY WayFields, FieldTypes
<1> HIDE DEF col
<1>3. Way(a, q0, t, w, 0) /\ Clear(t)
  BY AttachWay
<1>4. ~t.scan_error /\ t.frames = q.frames
  BY <1>2 DEF AttachProps, Good, ParserRecord
<1> HIDE DEF t
<1>5. Way(a, q0, c, w, 0) /\ Clear(c)
  BY <1>3, ConsumeWay
<1>6. Good(t)
  BY <1>3, WayFields
<1>7. ~c.scan_error /\ c.frames = q.frames
  BY <1>4, <1>6 DEF Consume, Good, ParserRecord
<1> HIDE DEF c
<1>8. Way(a, q0, s, Parents(rs), 0 + 1) /\ Clear(s)
  <2>1. Advanced(w, Parents(rs))
    BY AwaitingAdvances
  <2> HIDE DEF w, s
  <2> QED BY <1>1, <2>1, EmitScalarTokenWay DEF w, s
<1> HIDE DEF s
<1>9. s.frames = q.frames
  <2>1. q.frames = q0.frames
    BY WayFields
  <2> QED BY <1>8, <2>1, WayFields
<1>10. Done(a, Goto(s, rs))
  BY <1>8, <1>9, ReturnDone
<1>11. Done(a, Goto(Emit(c, "ALIAS"), rs)) /\ Done(a, Goto(Emit(t, "SCALAR"), rs))
  <2>1. Fits(c.frames, w) /\ Fits(t.frames, w)
    BY <1>4, <1>7
  <2> QED BY <1>1, <1>3, <1>4, <1>5, <1>7, <2>1, LeafReturnDone
<1>12. /\ Done(a, Goto(PushFrame(Emit(c, "SEQUENCE_START"), "FLOW_SEQ", col, rs),
                       "FLOW_SEQ_LOOP"))
       /\ Done(a, Goto(PushFrame(Emit(c, "MAPPING_START"), "FLOW_MAP", col, rs),
                       "FLOW_MAP_LOOP"))
  <2>1. /\ "FLOW_SEQ" \in FlowContext /\ "FLOW_MAP" \in FlowContext
        /\ "FLOW_SEQ_LOOP" \in InnerStates /\ OpenIn("FLOW_SEQ_LOOP") = <<"SEQ">>
        /\ "FLOW_MAP_LOOP" \in InnerStates /\ OpenIn("FLOW_MAP_LOOP") = <<"KEY">>
    BY FlowLevels DEF FlowContext
  <2>2. Fits(c.frames, w) /\ ((rs = "DOC_END_EXPLICIT") <=> (c.frames = <<>>))
    BY <1>7
  <2>3. Done(a, Goto(PushFrame(Emit(c, "SEQUENCE_START"), "FLOW_SEQ", col, rs),
                     "FLOW_SEQ_LOOP"))
    BY <1>2, <1>5, <1>7, <2>1, <2>2, FlowPushDone
  <2>4. Done(a, Goto(PushFrame(Emit(c, "MAPPING_START"), "FLOW_MAP", col, rs),
                     "FLOW_MAP_LOOP"))
    BY <1>2, <1>5, <1>7, <2>1, <2>2, FlowPushDone
  <2> QED BY <2>3, <2>4
<1>13. FlowNodeAfterProps(q) \in
         {Goto(s, rs), Goto(Emit(c, "ALIAS"), rs), Goto(Emit(t, "SCALAR"), rs),
          Goto(PushFrame(Emit(c, "SEQUENCE_START"), "FLOW_SEQ", col, rs), "FLOW_SEQ_LOOP"),
          Goto(PushFrame(Emit(c, "MAPPING_START"), "FLOW_MAP", col, rs), "FLOW_MAP_LOOP")}
  BY DEF FlowNodeAfterProps, FlowOpen, s, c, t, col
<1> QED BY <1>10, <1>11, <1>12, <1>13

\* ST_FLOW_NODE.
LEMMA FlowNodeDone ==
  ASSUME NEW a, NEW q, AtStart(a, q), q.state = "FLOW_NODE"
  PROVE  Done(a, FlowNode(q))
<1> DEFINE c == ConsumeProps(q)
           rs == q.node_return
<1>1. q.state \in NodeStates /\ q.state \in TokenStates
  BY DEF NodeStates, TokenStates
<1>2. /\ Way(a, q, q, Awaiting(rs), 0) /\ NodePlaced(q) /\ StatePlaced(q)
      /\ Fits(q.frames, Awaiting(rs)) /\ OpenAt(q) = Awaiting(rs)
      /\ q.state \notin AwayStates \cup {"STREAM_START"}
      /\ rs \in ReturnState /\ Good(q)
  BY <1>1, NodeBegin
<1>3. /\ rs # "STREAM_START" /\ ((rs = "DOC_END_EXPLICIT") <=> (q.frames = <<>>))
      /\ ~q.scan_error /\ q.have_token
  BY <1>1, <1>2 DEF NodePlaced, AtStart
<1>4. Peek(q) = q
  BY <1>3 DEF Peek
<1>5. Done(a, FlowNodeAfterProps(q))
  BY <1>2, <1>3, FlowNodeAfterPropsDone
<1>6. Way(a, q, c, Awaiting(rs), 0)
  BY <1>2, ConsumePropsWay
<1>7. c.have_token => ~c.scan_error
  BY <1>2, <1>3, ConsumePropsGood
<1> HIDE DEF c
<1>8. c.frames = q.frames /\ c.node_return = rs /\ c.state = "FLOW_NODE"
  BY <1>6, WayFields
<1> HIDE DEF rs
<1>9. Done(a, c)
  BY <1>2, <1>6, <1>8, StayDone DEF PropsPlaced
<1>10. c.have_token => Done(a, FlowNodeAfterProps(c))
  <2>1. Fits(c.frames, Awaiting(rs)) /\ ((rs = "DOC_END_EXPLICIT") <=> (c.frames = <<>>))
    BY <1>2, <1>3, <1>8
  <2> QED BY <1>2, <1>3, <1>6, <1>7, <1>8, <2>1, FlowNodeAfterPropsDone
<1>11. \/ FlowNode(q) \in {FlowNodeAfterProps(q), c}
       \/ c.have_token /\ FlowNode(q) = FlowNodeAfterProps(c)
  BY <1>4 DEF FlowNode, PropsFailed, Peek, c
<1> QED BY <1>5, <1>9, <1>10, <1>11

=============================================================================
