--------------------------- MODULE ExpansionProofs ---------------------------
(***************************************************************************)
(* For every document, and whatever the limits: the expanded documents     *)
(* stay within the event limit, and expanding one ends.                    *)
(***************************************************************************)
EXTENDS ExpansionBounds, FiniteSetTheorems, SequenceTheorems, TLAPS

Call == [anchor : Nat, next : Int]
Color == {"WHITE", "GRAY", "BLACK"}

\* A document's list is within what the stream has left, and so is what the
\* passes may make of it.
Lists ==
  /\ base \in Nat /\ Len(events) \in Nat
  /\ MaxEvents > 0 => base + Len(events) <= MaxEvents
  /\ MaxEvents > 0 /\ phase \notin Ended => base < MaxEvents
  /\ phase \in {"MERGE", "CYCLES", "RESOLVE"} =>
       limit \in Nat /\ (MaxEvents > 0 => limit = MaxEvents - base)

Passes ==
  /\ phase \in Phase
  /\ pass \in 0..MaxPasses - 1
  /\ document.number \in Nat
  /\ phase \notin {"MERGE", "RESOLVE", "ERR_LIMIT", "ERR_PARSE"} => pass = 0

Search ==
  /\ path \in Seq(Call)
  /\ phase = "CYCLES" => color \in [Anchored(events) -> Color]

IInv == Lists /\ Passes /\ Search

-----------------------------------------------------------------------------

\* The limit of the passes is what the stream has left, if there is a limit.
LEMMA LimitLeft ==
  ASSUME Lists, phase \notin Ended
  PROVE  /\ Limit(Len(events)) \in Nat
         /\ MaxEvents > 0 => Limit(Len(events)) = MaxEvents - base
<1>1. MaxEvents \in Nat
  BY ExpansionLimits
<1> QED BY <1>1 DEF Lists, Limit

\* Anchored nodes are places in the list, and not endlessly many.
LEMMA AnchoredFinite ==
  ASSUME Len(events) \in Nat
  PROVE  Anchored(events) \subseteq Nat /\ IsFiniteSet(Anchored(events))
<1>1. Anchored(events) \subseteq 1..Len(events)
  BY DEF Anchored
<1>2. IsFiniteSet(1..Len(events))
  BY FS_Interval
<1> QED BY <1>1, <1>2, FS_Subset

\* A list that fits into the buffer is within what the stream has left.
LEMMA FittingList ==
  ASSUME Lists, phase \in {"MERGE", "RESOLVE"}, NEW list, Fits(list)
  PROVE  Len(list) \in Nat /\ (MaxEvents > 0 => base + Len(list) <= MaxEvents)
<1>1. Len(list) \in 0..limit
  BY DEF Fits
<1>2. MaxEvents \in Nat
  BY ExpansionLimits
<1> QED BY <1>1, <1>2 DEF Lists

\* The document that has been queued.
LEMMA QueuedLists ==
  ASSUME NEW before, NEW node \in Seq(WrittenEvent)
  PROVE  Len(Framed(before, node)) \in Nat /\ Len(Framed(before, node)) >= 2
<1> DEFINE front == <<Plain(before), Plain("DOC_START")>>
<1> DEFINE Set == {Plain(before), Plain("DOC_START")} \cup WrittenEvent
<1>1. front \in Seq(Set) /\ node \in Seq(Set)
  OBVIOUS
<1>2. Len(front) = 2 /\ Len(front \o node) = Len(front) + Len(node)
  BY <1>1
<1>3. Len(node) \in Nat
  OBVIOUS
<1> HIDE DEF front
<1>4. Framed(before, node) = front \o node
  BY DEF Framed, front
<1> QED BY <1>2, <1>3, <1>4

-----------------------------------------------------------------------------
(***************************************************************************)
(* The invariant.                                                          *)
(***************************************************************************)

\* It holds of the first document.
LEMMA InitIInv == Init => IInv
<1> SUFFICES ASSUME Init PROVE IInv
  OBVIOUS
<1>1. PICK node \in FirstNodes : events = Framed("STREAM_START", node)
  BY DEF Init
<1>2. Len(events) \in Nat /\ Len(events) >= 2
  BY <1>1, QueuedLists, ExpansionNodes
<1>3. MaxEvents \in Nat /\ MaxPasses \in Nat \ {0}
  BY ExpansionLimits
<1>4. Lists
  BY <1>2, <1>3 DEF Lists, Init, Queued, Ended
<1>5. Passes
  BY <1>3 DEF Passes, Init, Phase
<1>6. Search
  BY DEF Search, Init
<1> QED BY <1>4, <1>5, <1>6 DEF IInv

\* Binding names leaves the list as long as it was.
LEMMA BindKeeps == IInv /\ BindAnchors => IInv'
<1> SUFFICES ASSUME IInv, BindAnchors PROVE IInv'
  OBVIOUS
<1>1. Len(events) \in Nat
  BY DEF IInv, Lists
<1>2. Len(events') = Len(events)
  BY <1>1 DEF BindAnchors
<1>3. limit' \in Nat /\ (MaxEvents > 0 => limit' = MaxEvents - base)
  BY LimitLeft DEF IInv, BindAnchors, Ended
<1>4. Lists'
  BY <1>2, <1>3 DEF IInv, Lists, BindAnchors, Ended
<1>5. Passes'
  BY DEF IInv, Passes, BindAnchors, Phase, Ended
<1>6. Search'
  BY DEF IInv, Search, BindAnchors, search
<1> QED BY <1>4, <1>5, <1>6 DEF IInv

\* Nor does giving them back.
LEMMA UnbindKeeps == IInv /\ UnbindAnchors => IInv'
<1> SUFFICES ASSUME IInv, UnbindAnchors PROVE IInv'
  OBVIOUS
<1>1. Len(events) \in Nat
  BY DEF IInv, Lists
<1>2. Len(events') = Len(events)
  BY <1>1 DEF UnbindAnchors
<1>3. phase' \in {"ERR_LIMIT", "DONE"}
  BY DEF UnbindAnchors
<1>4. Lists'
  BY <1>2, <1>3 DEF IInv, Lists, UnbindAnchors, Ended
<1>5. Passes'
  BY <1>3 DEF IInv, Passes, UnbindAnchors, Phase, Ended
<1>6. Search'
  BY <1>3 DEF IInv, Search, UnbindAnchors
<1> QED BY <1>4, <1>5, <1>6 DEF IInv

\* A pass that changes something.
LEMMA EndPassKeeps ==
  ASSUME IInv, NEW list, NEW this, NEW following, phase = this,
         this \in {"MERGE", "RESOLVE"}, following \in {"TABLE", "UNBIND"},
         EndPass(list, this, following), UNCHANGED <<base, document, limit, setters, search>>
  PROVE  IInv'
<1>1. MaxPasses \in Nat \ {0} /\ MaxEvents \in Nat
  BY ExpansionLimits
<1>2. Lists'
  <2>1. CASE Fits(list)
    <3>1. Len(list) \in Nat /\ (MaxEvents > 0 => base + Len(list) <= MaxEvents)
      BY <2>1, FittingList DEF IInv
    <3> QED BY <2>1, <3>1 DEF IInv, Lists, EndPass, Ended
  <2>2. CASE ~Fits(list)
    BY <2>2 DEF IInv, Lists, EndPass, Ended
  <2> QED BY <2>1, <2>2
<1>3. Passes'
  BY <1>1 DEF IInv, Passes, EndPass, Phase, Ended
<1>4. Search'
  BY DEF IInv, Search, search, EndPass
<1> QED BY <1>2, <1>3, <1>4 DEF IInv

\* A pass that changes nothing.
LEMMA LastPassKeeps ==
  ASSUME IInv, NEW following, phase \in {"MERGE", "RESOLVE"}, following \in {"TABLE", "UNBIND"},
         LastPass(following), UNCHANGED <<base, document, limit, setters, search>>
  PROVE  IInv'
<1>1. MaxPasses \in Nat \ {0}
  BY ExpansionLimits
<1>2. phase' \in {"TABLE", "UNBIND", "ERR_LIMIT"}
  BY DEF LastPass
<1>3. Lists'
  BY <1>2 DEF IInv, Lists, LastPass, Ended
<1>4. Passes'
  BY <1>1, <1>2 DEF IInv, Passes, LastPass, Phase, Ended
<1>5. Search'
  BY <1>2 DEF IInv, Search, search, LastPass
<1> QED BY <1>3, <1>4, <1>5 DEF IInv

\* A pass of resolve_merges.
LEMMA MergeKeeps == IInv /\ MergePass => IInv'
<1> SUFFICES ASSUME IInv, MergePass PROVE IInv'
  OBVIOUS
<1> DEFINE lv == Levels(events)
<1> DEFINE list == MergedUpTo(events, lv, Len(events))
<1>1. CASE phase' = "ERR_PARSE" /\ UNCHANGED <<events, pass>>
  BY <1>1 DEF IInv, Lists, Passes, Search, MergePass, Phase, Ended, search
<1>2. CASE LastPass("TABLE")
  BY <1>2, LastPassKeeps DEF MergePass
<1>3. CASE EndPass(list, "MERGE", "TABLE")
  BY <1>3, EndPassKeeps DEF MergePass
<1> HIDE DEF list
<1>4. \/ phase' = "ERR_PARSE" /\ UNCHANGED <<events, pass>>
      \/ LastPass("TABLE")
      \/ EndPass(list, "MERGE", "TABLE")
  BY DEF MergePass, list
<1> QED BY <1>1, <1>2, <1>3, <1>4

\* A pass of resolve_aliases.
LEMMA ResolveKeeps == IInv /\ ResolvePass => IInv'
<1> SUFFICES ASSUME IInv, ResolvePass PROVE IInv'
  OBVIOUS
<1>1. CASE LastPass("UNBIND")
  BY <1>1, LastPassKeeps DEF ResolvePass
<1>2. CASE EndPass(ResolvedList(events, Levels(events)), "RESOLVE", "UNBIND")
  BY <1>2, EndPassKeeps DEF ResolvePass
<1> QED BY <1>1, <1>2 DEF ResolvePass

\* The table of the anchors, if there are any.
LEMMA TableKeeps == IInv /\ BuildTable => IInv'
<1> SUFFICES ASSUME IInv, BuildTable PROVE IInv'
  OBVIOUS
<1>1. \/ limit' \in Nat /\ (MaxEvents > 0 => limit' = MaxEvents - base)
      \/ phase' = "UNBIND"
  BY LimitLeft DEF IInv, BuildTable, Ended
<1>2. Lists'
  BY <1>1 DEF IInv, Lists, BuildTable, Ended
<1>3. Passes'
  BY DEF IInv, Passes, BuildTable, Phase, Ended
<1>4. Search'
  BY DEF IInv, Search, BuildTable, Color
<1> QED BY <1>2, <1>3, <1>4 DEF IInv

\* The steps of the search leave the list and the passes alone.
LEMMA SearchKeepsLists ==
  ASSUME IInv, UNCHANGED <<events, base, document, pass, limit>>, phase = "CYCLES",
         phase' \in {"CYCLES", "RESOLVE"}
  PROVE  Lists' /\ Passes'
BY DEF IInv, Lists, Passes, Phase, Ended

\* The next anchor to start from.
LEMMA RootKeeps == IInv /\ NextRoot => IInv'
<1> SUFFICES ASSUME IInv, NextRoot PROVE IInv'
  OBVIOUS
<1>1. Lists' /\ Passes'
  BY SearchKeepsLists DEF NextRoot
<1>2. PICK k \in DOMAIN color : color' = [color EXCEPT ![k] = "GRAY"] /\ path' = <<Enter(k)>>
  BY DEF NextRoot
<1>3. color \in [Anchored(events) -> Color] /\ events' = events
  BY DEF IInv, Search, NextRoot
<1>4. k \in Nat
  BY <1>2, <1>3, AnchoredFinite DEF IInv, Lists
<1>5. Enter(k) \in Call
  BY <1>4 DEF Enter, Call
<1>6. Search'
  BY <1>2, <1>3, <1>5 DEF Search, Color
<1> QED BY <1>1, <1>6 DEF IInv

\* No anchor is left to start from.
LEMMA NoRootKeeps == IInv /\ NoRootLeft => IInv'
<1> SUFFICES ASSUME IInv, NoRootLeft PROVE IInv'
  OBVIOUS
<1>1. Lists' /\ Passes'
  BY SearchKeepsLists DEF NoRootLeft
<1>2. Search'
  BY DEF IInv, Search, NoRootLeft
<1> QED BY <1>1, <1>2 DEF IInv

\* The call on the path that goes on.
LEMMA LastCall ==
  ASSUME path \in Seq(Call), path # <<>>
  PROVE  /\ Last(path) \in Call /\ Front(path) \in Seq(Call)
         /\ Len(Front(path)) = Len(path) - 1 /\ Len(path) \in Nat \ {0}
<1> DEFINE n == Len(path)
           m == n - 1
<1>1. n \in Nat \ {0} /\ path[n] \in Call
  <2>1. n \in Nat /\ n # 0
    OBVIOUS
  <2> QED BY <2>1
<1>2. m \in Nat /\ m <= n
  BY <1>1
<1>3. SubSeq(path, 1, m) \in Seq(Call) /\ Len(SubSeq(path, 1, m)) = m
  <2> HIDE DEF m
  <2> QED BY <1>2
<1> QED BY <1>1, <1>3 DEF Last, Front

\* An alias inside an anchor is followed.
LEMMA FollowKeeps == IInv /\ FollowAlias => IInv'
<1> SUFFICES ASSUME IInv, FollowAlias PROVE IInv'
  OBVIOUS
<1>1. Lists' /\ Passes'
  BY SearchKeepsLists DEF FollowAlias
<1>2. color \in [Anchored(events) -> Color] /\ events' = events
  BY DEF IInv, Search, FollowAlias
<1>3. PICK i \in Ahead(Last(path)) :
        \/ path' = <<>> /\ UNCHANGED color
        \/ /\ path' = Front(path) \o <<[Last(path) EXCEPT !.next = i + 1], Enter(TargetAt(i))>>
           /\ color' = [color EXCEPT ![TargetAt(i)] = "GRAY"]
  BY DEF FollowAlias
<1>4. CASE path' = <<>> /\ UNCHANGED color
  BY <1>1, <1>2, <1>4 DEF IInv, Search
<1>5. CASE /\ path' = Front(path) \o <<[Last(path) EXCEPT !.next = i + 1], Enter(TargetAt(i))>>
           /\ color' = [color EXCEPT ![TargetAt(i)] = "GRAY"]
  <2>1. TargetAt(i) \in DOMAIN color /\ i \in Int
    BY DEF Ahead
  <2>2. Enter(TargetAt(i)) \in Call
    BY <2>1, <1>2, AnchoredFinite DEF Enter, Call, IInv, Lists
  <2>3. path \in Seq(Call) /\ path # <<>>
    BY DEF IInv, Search, FollowAlias
  <2>4. Front(path) \in Seq(Call) /\ Last(path) \in Call
    BY <2>3, LastCall
  <2> DEFINE onward == [Last(path) EXCEPT !.next = i + 1]
  <2>5. onward \in Call
    BY <2>1, <2>4 DEF Call
  <2> HIDE DEF onward
  <2>6. <<onward, Enter(TargetAt(i))>> \in Seq(Call)
    BY <2>2, <2>5
  <2>7. path' \in Seq(Call)
    BY <1>5, <2>4, <2>6 DEF onward
  <2>8. Anchored(events)' = Anchored(events)
    BY <1>2 DEF Anchored
  <2>9. color' \in [Anchored(events)' -> Color]
    BY <1>2, <1>5, <2>8 DEF Color
  <2> QED BY <1>1, <2>7, <2>9 DEF IInv, Search
<1> QED BY <1>3, <1>4, <1>5

\* An anchor is left.
LEMMA LeaveKeeps == IInv /\ LeaveAnchor => IInv'
<1> SUFFICES ASSUME IInv, LeaveAnchor PROVE IInv'
  OBVIOUS
<1>1. Lists' /\ Passes'
  BY SearchKeepsLists DEF LeaveAnchor
<1>2. Front(path) \in Seq(Call)
  BY LastCall DEF IInv, Search, LeaveAnchor
<1>3. Search'
  BY <1>2 DEF IInv, Search, LeaveAnchor, Color
<1> QED BY <1>1, <1>3 DEF IInv

\* The list is delivered, and the next document begun.
LEMMA NextDocumentKeeps == IInv /\ NextDocument => IInv'
<1> SUFFICES ASSUME IInv, NextDocument PROVE IInv'
  OBVIOUS
<1>1. PICK node \in LaterNodes : events' = Framed("DOC_END", node)
  BY DEF NextDocument
<1>2. Len(events') \in Nat /\ Len(events') >= 2
  BY <1>1, QueuedLists, ExpansionNodes
<1>3. MaxEvents \in Nat /\ base' \in Nat
  BY ExpansionLimits DEF IInv, Lists, NextDocument
<1>4. Lists'
  BY <1>2, <1>3 DEF Lists, NextDocument, Queued, Ended
<1>5. Passes'
  BY DEF IInv, Passes, NextDocument, Phase
<1>6. Search'
  BY DEF IInv, Search, NextDocument, search
<1> QED BY <1>4, <1>5, <1>6 DEF IInv

\* Every step keeps the invariant.
LEMMA StepIInv == IInv /\ [Next]_vars => IInv'
<1> SUFFICES ASSUME IInv, [Next]_vars PROVE IInv'
  OBVIOUS
<1>1. CASE UNCHANGED vars
  BY <1>1 DEF IInv, Lists, Passes, Search, vars, search
<1>2. CASE Expand
  BY <1>2, BindKeeps, MergeKeeps, TableKeeps, RootKeeps, NoRootKeeps, FollowKeeps,
     LeaveKeeps, ResolveKeeps, UnbindKeeps DEF Expand
<1>3. CASE NextDocument
  BY <1>3, NextDocumentKeeps
<1>4. CASE Finished
  BY <1>1, <1>4 DEF Finished
<1> QED BY <1>1, <1>2, <1>3, <1>4 DEF Next

\* It holds always.
THEOREM ExpansionInvariant == Spec => []IInv
BY InitIInv, StepIInv, PTL DEF Spec

\* No more events are delivered than the limit allows, whatever aliases and
\* merge keys the documents have.
THEOREM ExpansionWithinLimitAlways == Spec => []ExpansionWithinLimit
<1>1. IInv => ExpansionWithinLimit
  BY DEF IInv, Lists, ExpansionWithinLimit
<1> QED BY <1>1, ExpansionInvariant, PTL

-----------------------------------------------------------------------------
(***************************************************************************)
(* Expanding ends.                                                         *)
(***************************************************************************)

LessToDo ==
  \/ PhasesLeft' < PhasesLeft
  \/ PhasesLeft' = PhasesLeft /\ StepsLeft' \in 0..StepsLeft - 1

\* The steps that end a phase.
LEMMA PhaseEnds ==
  ASSUME \/ phase = "BIND" /\ phase' \in {"MERGE", "TABLE"}
         \/ phase = "MERGE" /\ phase' \in {"TABLE", "ERR_LIMIT", "ERR_PARSE"}
         \/ phase = "TABLE" /\ phase' \in {"CYCLES", "UNBIND"}
         \/ phase = "CYCLES" /\ phase' = "RESOLVE"
         \/ phase = "RESOLVE" /\ phase' \in {"UNBIND", "ERR_LIMIT"}
         \/ phase = "UNBIND" /\ phase' \in {"DONE", "ERR_LIMIT"}
  PROVE  LessToDo
BY DEF LessToDo, PhasesLeft

\* A pass ends its phase, or is one less to make.
LEMMA PassIsLess ==
  ASSUME IInv, NEW list, NEW this, NEW following, phase = this,
         \/ this = "MERGE" /\ following = "TABLE"
         \/ this = "RESOLVE" /\ following = "UNBIND",
         EndPass(list, this, following) \/ LastPass(following)
  PROVE  LessToDo
<1>1. MaxPasses \in Nat \ {0} /\ pass \in 0..MaxPasses - 1
  BY ExpansionLimits DEF IInv, Passes
<1>2. CASE phase' \in {following, "ERR_LIMIT"}
  BY <1>2, PhaseEnds
<1>3. CASE phase' = this /\ pass' = pass + 1 /\ pass + 1 # MaxPasses
  <2>1. PhasesLeft' = PhasesLeft
    BY <1>3 DEF PhasesLeft
  <2>2. StepsLeft' \in 0..StepsLeft - 1
    BY <1>1, <1>3 DEF StepsLeft
  <2> QED BY <2>1, <2>2 DEF LessToDo
<1>4. \/ phase' \in {following, "ERR_LIMIT"}
      \/ phase' = this /\ pass' = pass + 1 /\ pass + 1 # MaxPasses
  BY DEF EndPass, LastPass
<1> QED BY <1>2, <1>3, <1>4

\* Of the anchors, those not entered yet can be counted.
LEMMA WhiteFinite ==
  ASSUME IInv, phase = "CYCLES"
  PROVE  IsFiniteSet(White) /\ Cardinality(White) \in Nat
<1>1. White \subseteq Anchored(events)
  BY DEF IInv, Search, White
<1>2. IsFiniteSet(Anchored(events))
  BY AnchoredFinite DEF IInv, Lists
<1> QED BY <1>1, <1>2, FS_Subset, FS_CardinalityType

\* An anchor that is entered is one less to enter, and one more to leave.
LEMMA EnteringIsLess ==
  ASSUME IInv, phase = "CYCLES", phase' = phase, NEW k \in DOMAIN color, color[k] = "WHITE",
         color' = [color EXCEPT ![k] = "GRAY"], Len(path') = Len(path) + 1
  PROVE  LessToDo
<1>1. k \in White /\ White' = White \ {k}
  BY DEF White, IInv, Search
<1>2. Cardinality(White') = Cardinality(White) - 1
  BY <1>1, WhiteFinite, FS_RemoveElement
<1>3. Cardinality(White) \in Nat /\ Cardinality(White') \in Nat
  BY <1>1, WhiteFinite, FS_RemoveElement, FS_CardinalityType
<1>4. Len(path) \in Nat
  BY DEF IInv, Search
<1>5. StepsLeft' \in 0..StepsLeft - 1
  BY <1>2, <1>3, <1>4 DEF StepsLeft
<1> QED BY <1>5 DEF LessToDo, PhasesLeft

\* A call that returns is one less on the path, and no anchor turns white.
LEMMA LeavingIsLess ==
  ASSUME IInv, phase = "CYCLES", phase' = phase, White' \subseteq White,
         Len(path') \in 0..Len(path) - 1
  PROVE  LessToDo
<1>1. Cardinality(White) \in Nat /\ Len(path) \in Nat
  BY WhiteFinite DEF IInv, Search
<1>2. IsFiniteSet(White') /\ Cardinality(White') <= Cardinality(White)
  BY WhiteFinite, FS_Subset
<1>3. Cardinality(White') \in Nat
  BY <1>2, FS_CardinalityType
<1>4. StepsLeft' \in 0..StepsLeft - 1
  BY <1>1, <1>2, <1>3 DEF StepsLeft
<1> QED BY <1>4 DEF LessToDo, PhasesLeft

\* An anchor that is started from has less left to do.
LEMMA RootIsLess == IInv /\ NextRoot => LessToDo
<1> SUFFICES ASSUME IInv, NextRoot PROVE LessToDo
  OBVIOUS
<1>1. PICK k \in DOMAIN color : /\ color[k] = "WHITE"
                               /\ color' = [color EXCEPT ![k] = "GRAY"]
                               /\ path' = <<Enter(k)>>
  BY DEF NextRoot
<1>2. Len(path') = Len(path) + 1
  BY <1>1 DEF NextRoot
<1> QED BY <1>1, <1>2, EnteringIsLess DEF NextRoot

\* So has one whose next alias is followed.
LEMMA FollowIsLess == IInv /\ FollowAlias => LessToDo
<1> SUFFICES ASSUME IInv, FollowAlias PROVE LessToDo
  OBVIOUS
<1>1. path \in Seq(Call) /\ path # <<>> /\ phase = "CYCLES" /\ phase' = phase
  BY DEF IInv, Search, FollowAlias
<1>2. PICK i \in Ahead(Last(path)) :
        IF color[TargetAt(i)] = "GRAY"
        THEN path' = <<>> /\ UNCHANGED color
        ELSE /\ path' = Front(path) \o <<[Last(path) EXCEPT !.next = i + 1], Enter(TargetAt(i))>>
             /\ color' = [color EXCEPT ![TargetAt(i)] = "GRAY"]
  BY DEF FollowAlias
<1>3. CASE color[TargetAt(i)] = "GRAY"
  <2>1. Len(path') \in 0..Len(path) - 1
    BY <1>1, <1>2, <1>3
  <2>2. White' \subseteq White
    BY <1>2, <1>3 DEF White
  <2> QED BY <1>1, <2>1, <2>2, LeavingIsLess
<1>4. CASE color[TargetAt(i)] # "GRAY"
  <2>1. /\ TargetAt(i) \in DOMAIN color
        /\ color[TargetAt(i)] # "BLACK" /\ color \in [Anchored(events) -> Color]
    BY <1>1 DEF Ahead, IInv, Search
  <2>2. color[TargetAt(i)] = "WHITE"
    BY <1>4, <2>1 DEF Color
  <2> DEFINE both == <<[Last(path) EXCEPT !.next = i + 1], Enter(TargetAt(i))>>
  <2>3. Len(Front(path) \o both) = Len(path) + 1
    <3>1. IInv' /\ path' = Front(path) \o both
      BY <1>2, <1>4, FollowKeeps
    <3>2. Len(Front(path)) = Len(path) - 1 /\ Len(path) \in Nat
      BY <1>1, LastCall
    <3>3. Len(Front(path) \o both) = Len(Front(path)) + Len(both)
      <4> DEFINE Calls == Call \cup {both[1], both[2]}
      <4>1. Front(path) \in Seq(Calls)
        BY <1>1, LastCall
      <4>2. both \in Seq(Calls)
        OBVIOUS
      <4> HIDE DEF both
      <4> QED BY <4>1, <4>2, ConcatProperties
    <3>4. Len(both) = 2
      OBVIOUS
    <3> HIDE DEF both
    <3> QED BY <3>2, <3>3, <3>4
  <2>4. Len(path') = Len(path) + 1
    BY <1>2, <1>4, <2>3
  <2> QED BY <1>1, <1>2, <1>4, <2>1, <2>2, <2>4, EnteringIsLess
<1> QED BY <1>3, <1>4

\* So has one that is left.
LEMMA LeaveIsLess == IInv /\ LeaveAnchor => LessToDo
<1> SUFFICES ASSUME IInv, LeaveAnchor PROVE LessToDo
  OBVIOUS
<1>1. Len(path') \in 0..Len(path) - 1
  BY LastCall DEF IInv, Search, LeaveAnchor
<1>2. White' \subseteq White
  BY DEF White, LeaveAnchor
<1> QED BY <1>1, <1>2, LeavingIsLess DEF LeaveAnchor

\* Every step of a document leaves less to do.
LEMMA StepIsLess == IInv /\ Expand => LessToDo
<1> SUFFICES ASSUME IInv, Expand PROVE LessToDo
  OBVIOUS
<1>1. CASE BindAnchors
  BY <1>1, PhaseEnds DEF BindAnchors
<1>2. CASE MergePass
  <2> DEFINE list == MergedUpTo(events, Levels(events), Len(events))
  <2>1. CASE phase' = "ERR_PARSE"
    BY <1>2, <2>1, PhaseEnds DEF MergePass
  <2>2. CASE EndPass(list, "MERGE", "TABLE") \/ LastPass("TABLE")
    BY <1>2, <2>2, PassIsLess DEF MergePass
  <2> QED BY <1>2, <2>1, <2>2 DEF MergePass
<1>3. CASE BuildTable
  BY <1>3, PhaseEnds DEF BuildTable
<1>4. CASE NextRoot
  BY <1>4, RootIsLess
<1>5. CASE NoRootLeft
  BY <1>5, PhaseEnds DEF NoRootLeft
<1>6. CASE FollowAlias
  BY <1>6, FollowIsLess
<1>7. CASE LeaveAnchor
  BY <1>7, LeaveIsLess
<1>8. CASE ResolvePass
  BY <1>8, PassIsLess DEF ResolvePass
<1>9. CASE UnbindAnchors
  BY <1>9, PhaseEnds DEF UnbindAnchors
<1> QED BY <1>1, <1>2, <1>3, <1>4, <1>5, <1>6, <1>7, <1>8, <1>9 DEF Expand

\* Merging and expanding a document end: there is always less to do, until
\* it is delivered or refused.
THEOREM ExpansionEndsAlways == Spec => ExpansionEnds
<1>1. IInv /\ [Next]_vars => [document' = document => LessToDo]_vars
  <2> SUFFICES ASSUME IInv, Next PROVE document' = document => LessToDo \/ UNCHANGED vars
    OBVIOUS
  <2>1. CASE Expand
    BY <2>1, StepIsLess
  <2>2. CASE NextDocument
    <3>1. document'.number = document.number + 1 /\ document.number \in Nat
      BY <2>2 DEF NextDocument, IInv, Passes
    <3> QED BY <3>1
  <2>3. CASE Finished
    BY <2>3 DEF Finished
  <2> QED BY <2>1, <2>2, <2>3 DEF Next
<1>2. Spec => [][document' = document => LessToDo]_vars
  BY <1>1, ExpansionInvariant, PTL DEF Spec
<1> QED BY <1>2 DEF ExpansionEnds, LessToDo

=============================================================================
