----------------------------- MODULE ArenaProofs -----------------------------
(***************************************************************************)
(* What is given out is the arena's, shared with nothing and aligned, for  *)
(* every width of a size_t and every sequence of calls.                    *)
(***************************************************************************)
EXTENDS Arena, SequenceTheorems, TLAPS

-----------------------------------------------------------------------------
(***************************************************************************)
(* Remainders.                                                             *)
(***************************************************************************)

\* A remainder is in range, and what it leaves is a multiple.
LEMMA Division ==
  ASSUME NEW a \in Nat, NEW n \in Nat \ {0}
  PROVE  /\ a % n \in 0..n - 1
         /\ a \div n \in Nat
         /\ a = n * (a \div n) + (a % n)
  OBVIOUS

\* The remainder of what is less than the divisor.
LEMMA SmallRemainder ==
  ASSUME NEW n \in Nat \ {0}, NEW a \in 0..n - 1
  PROVE  a % n = a
  OBVIOUS

\* A multiple leaves none.
LEMMA MultipleRemainder ==
  ASSUME NEW n \in Nat \ {0}, NEW q \in Nat
  PROVE  (n * q) % n = 0
  OBVIOUS

\* What is no more than SIZE_MAX does not wrap around.
LEMMA WrapSmall ==
  ASSUME NEW a \in 0..SizeMax
  PROVE  Wrap(a) = a
BY ArenaSizes, SmallRemainder DEF Wrap

\* Padding is less than the alignment and leads to a multiple of it.
LEMMA PaddingAligns ==
  ASSUME NEW a \in Nat, NEW n \in Nat \ {0}
  PROVE  /\ Padding(a, n) \in 0..n - 1
         /\ \E q \in Nat : a + Padding(a, n) = n * q
<1> DEFINE r == a % n
           d == a \div n
<1>1. r \in 0..n - 1 /\ d \in Nat /\ a = n * d + r
  BY Division
<1>2. Padding(a, n) = (n - r) % n
  BY DEF Padding
<1> HIDE DEF r, d
<1>3. CASE r = 0
  <2>1. n - r = n * 1
    BY <1>3
  <2>2. Padding(a, n) = 0
    BY <1>2, <2>1, MultipleRemainder
  <2>3. a + Padding(a, n) = n * d
    BY <1>1, <1>3, <2>2
  <2>4. Padding(a, n) \in 0..n - 1
    BY <2>2
  <2> QED
    BY <1>1, <2>3, <2>4
<1>4. CASE r # 0
  <2>1. n - r \in 0..n - 1
    BY <1>1, <1>4
  <2>2. Padding(a, n) = n - r
    BY <1>2, <2>1, SmallRemainder
  <2>3. a + Padding(a, n) = n * (d + 1)
    BY <1>1, <2>2
  <2>4. d + 1 \in Nat
    BY <1>1
  <2> QED
    BY <2>1, <2>2, <2>3, <2>4
<1> QED
  BY <1>3, <1>4

\* The next multiple of an alignment is an address, or the wrap.
LEMMA PaddingWithinWidth ==
  ASSUME NEW a \in 0..SizeMax, NEW n \in Powers
  PROVE  a + Padding(a, n) <= SizeMax + 1
<1>0. SizeMax \in Nat /\ n \in Nat \ {0} /\ a \in Nat
  BY ArenaSizes, PowersDivide
<1>1. PICK m \in 1..SizeMax + 1 : SizeMax + 1 = m * n
  BY PowersDivide
<1>2. PICK q \in Nat : a + Padding(a, n) = n * q
  BY <1>0, PaddingAligns
<1>3. Padding(a, n) \in 0..n - 1
  BY <1>0, PaddingAligns
<1>4. n * q < n * (m + 1)
  BY <1>0, <1>1, <1>2, <1>3
<1>5. q < m + 1
  BY <1>0, <1>1, <1>4
<1>6. n * q <= n * m
  BY <1>0, <1>1, <1>5
<1> QED
  BY <1>0, <1>1, <1>2, <1>6

\* A multiple of an alignment has no remainder.
LEMMA PaddedRemainder ==
  ASSUME NEW a \in Nat, NEW n \in Nat \ {0}
  PROVE  (a + Padding(a, n)) % n = 0
<1>1. PICK q \in Nat : a + Padding(a, n) = n * q
  BY PaddingAligns
<1> QED
  BY <1>1, MultipleRemainder

-----------------------------------------------------------------------------
(***************************************************************************)
(* Blocks and what is given out of them.                                   *)
(***************************************************************************)

Sound(b) ==
  /\ b.bytes = HeaderSize + b.cap
  /\ b.base + b.bytes <= SizeMax
  /\ b.used <= b.cap

\* What is given out lies in the used part of a block.
Holds(b, g) == Data(b) <= g.ptr /\ g.ptr + g.size <= Data(b) + b.used

Separate(g, h) == g.ptr + g.size <= h.ptr \/ h.ptr + h.size <= g.ptr

ArenaType ==
  /\ blocks \in Seq(Block) /\ given \in Seq(Given)
  /\ default_cap \in 0..SizeMax

BlocksSound == \A i \in 1..Len(blocks) : Sound(blocks[i])

BlocksApart ==
  \A i, j \in 1..Len(blocks) : i # j => Apart(blocks[i], blocks[j])

GivenHeld ==
  \A i \in 1..Len(given) : \E k \in 1..Len(blocks) : Holds(blocks[k], given[i])

GivenSeparate ==
  \A i, j \in 1..Len(given) : i < j => Separate(given[i], given[j])

ArenaInv ==
  ArenaType /\ BlocksSound /\ BlocksApart /\ GivenHeld /\ GivenSeparate /\ PointersAligned

\* Where a block's next aligned byte is: no sum wraps around, as the block
\* ends within the address space.
LEMMA OffsetInBlock ==
  ASSUME NEW b \in Block, Sound(b), NEW from \in 0..b.cap, NEW n \in Powers
  PROVE  LET at == AlignedOffset(b, from, n)
         IN  /\ at \in from..from + n - 1
             /\ at <= b.cap => /\ Data(b) + at \in 1..SizeMax
                               /\ Wrap(Data(b) + at) = Data(b) + at
                               /\ (Data(b) + at) % n = 0
<1> DEFINE a == Data(b) + from
           pad == Padding(a, n)
<1>0. /\ SizeMax \in Nat /\ HeaderSize \in Nat \ {0} /\ n \in Nat \ {0}
      /\ b.base \in 1..SizeMax /\ b.cap \in 0..SizeMax /\ b.bytes \in 0..SizeMax
  BY ArenaSizes, PowersDivide DEF Block
<1>1. /\ a \in 1..SizeMax
      /\ \A at \in 0..b.cap : Data(b) + at \in 1..SizeMax
      /\ Data(b) \in Nat \ {0}
  BY <1>0 DEF Sound, Data
<1>2. Wrap(a) = a
  BY <1>1, WrapSmall
<1>3. pad \in 0..n - 1
  BY <1>0, <1>1, PaddingAligns
<1>4. a + pad <= SizeMax + 1
  BY <1>0, <1>1, PaddingWithinWidth
<1>5. (a + pad) % n = 0
  BY <1>0, <1>1, PaddedRemainder
<1>6. AlignedOffset(b, from, n) = Wrap(from + pad)
  BY <1>2 DEF AlignedOffset
<1>7. from + pad \in 0..SizeMax /\ a + pad = Data(b) + (from + pad)
  <2> HIDE DEF pad
  <2> QED
    BY <1>0, <1>1, <1>3, <1>4
<1>8. Wrap(from + pad) = from + pad
  <2> HIDE DEF pad
  <2> QED
    BY <1>7, WrapSmall
<1>9. AlignedOffset(b, from, n) = from + pad
  BY <1>6, <1>8
<1>10. from + pad \in from..from + n - 1
  <2> HIDE DEF pad
  <2> QED
    BY <1>0, <1>3
<1>11. ASSUME from + pad <= b.cap
       PROVE  /\ Data(b) + (from + pad) \in 1..SizeMax
              /\ Wrap(Data(b) + (from + pad)) = Data(b) + (from + pad)
  <2> HIDE DEF pad, a
  <2>1. Data(b) + (from + pad) \in 1..SizeMax
    BY <1>0, <1>1, <1>7, <1>11
  <2> QED
    BY <2>1, WrapSmall
<1> HIDE DEF pad, a
<1> QED
  BY <1>5, <1>7, <1>9, <1>10, <1>11

\* A block of which more is used.
LEMMA UseMore ==
  ASSUME NEW b \in Block, Sound(b), NEW u \in 0..b.cap
  PROVE  LET c == [b EXCEPT !.used = u]
         IN  /\ c \in Block /\ Sound(c)
             /\ c.base = b.base /\ c.bytes = b.bytes /\ c.used = u
             /\ Data(c) = Data(b) /\ Data(b) \in Nat
<1>1. b.cap \in 0..SizeMax /\ b.base \in Nat /\ SizeMax \in Nat /\ HeaderSize \in Nat
  BY ArenaSizes DEF Block
<1>2. u \in 0..SizeMax
  BY <1>1
<1> QED
  BY <1>1, <1>2 DEF Block, Sound, Data

\* What lies in two blocks that are apart is separate.
LEMMA ApartSeparate ==
  ASSUME NEW b \in Block, NEW c \in Block, Sound(b), Sound(c), Apart(b, c),
         NEW g \in Given, NEW h \in Given, Holds(b, g), Holds(c, h)
  PROVE  Separate(g, h)
<1>1. /\ SizeMax \in Nat /\ HeaderSize \in Nat
      /\ b.base \in Nat /\ b.bytes \in Nat /\ b.cap \in Nat /\ b.used \in Nat
      /\ c.base \in Nat /\ c.bytes \in Nat /\ c.cap \in Nat /\ c.used \in Nat
      /\ g.ptr \in Nat /\ g.size \in Nat /\ h.ptr \in Nat /\ h.size \in Nat
  BY ArenaSizes DEF Block, Given
<1> QED
  BY <1>1 DEF Sound, Apart, Holds, Separate, Data

\* A block holds what it held when more of it is used.
LEMMA HoldsStill ==
  ASSUME NEW b \in Block, NEW c \in Block, NEW g \in Given,
         Data(c) = Data(b), b.used <= c.used, Holds(b, g)
  PROVE  Holds(c, g)
<1>1. /\ SizeMax \in Nat /\ HeaderSize \in Nat
      /\ Data(b) \in Nat /\ b.used \in Nat /\ c.used \in Nat
      /\ g.ptr \in Nat /\ g.size \in Nat
  BY ArenaSizes DEF Block, Given, Data
<1> QED
  BY <1>1 DEF Holds

\* What was given out stays in the blocks and apart, and the next joins it.
LEMMA GivenGrows ==
  ASSUME ArenaInv, blocks' \in Seq(Block),
         NEW g \in Given, given' = Append(given, g), g.ptr % g.align = 0,
         \A k \in 1..Len(blocks) : \E l \in 1..Len(blocks') :
           Data(blocks'[l]) = Data(blocks[k]) /\ blocks[k].used <= blocks'[l].used,
         \E l \in 1..Len(blocks') : Holds(blocks'[l], g),
         \A i \in 1..Len(given) : Separate(given[i], g)
  PROVE  given' \in Seq(Given) /\ GivenHeld' /\ GivenSeparate' /\ PointersAligned'
<1>1. /\ given \in Seq(Given) /\ blocks \in Seq(Block) /\ HeaderSize \in Nat
      /\ SizeMax \in Nat
  BY ArenaSizes DEF ArenaInv, ArenaType
<1>2. /\ given' \in Seq(Given)
      /\ Len(given') = Len(given) + 1
      /\ \A i \in 1..Len(given) : given'[i] = given[i]
      /\ given'[Len(given) + 1] = g
  BY <1>1, AppendProperties
<1>3. \A i \in 1..Len(given') : i \in 1..Len(given) \/ given'[i] = g
  BY <1>1, <1>2
<1>4. GivenHeld'
  <2> SUFFICES ASSUME NEW i \in 1..Len(given')
               PROVE  \E l \in 1..Len(blocks') : Holds(blocks'[l], given'[i])
    BY DEF GivenHeld, Holds, Data
  <2>1. CASE i \in 1..Len(given)
    <3>1. PICK k \in 1..Len(blocks) : Holds(blocks[k], given[i])
      BY <2>1 DEF ArenaInv, GivenHeld
    <3>2. PICK l \in 1..Len(blocks') :
            Data(blocks'[l]) = Data(blocks[k]) /\ blocks[k].used <= blocks'[l].used
      OBVIOUS
    <3>3. /\ blocks[k] \in Block /\ blocks'[l] \in Block /\ given[i] \in Given
          /\ given'[i] = given[i]
      BY <1>1, <1>2, <2>1
    <3>4. Holds(blocks'[l], given'[i])
      BY <3>1, <3>2, <3>3, HoldsStill
    <3> QED
      BY <3>4
  <2> QED
    BY <1>3, <2>1
<1>5. GivenSeparate'
  <2> SUFFICES ASSUME NEW i \in 1..Len(given'), NEW j \in 1..Len(given'), i < j
               PROVE  Separate(given'[i], given'[j])
    BY DEF GivenSeparate, Separate
  <2>1. i \in 1..Len(given) /\ given'[i] = given[i]
    BY <1>1, <1>2
  <2>2. CASE j \in 1..Len(given)
    BY <1>2, <2>1, <2>2 DEF ArenaInv, GivenSeparate
  <2>3. CASE given'[j] = g
    BY <2>1, <2>3
  <2> QED
    BY <1>3, <2>2, <2>3
<1>6. PointersAligned'
  BY <1>2, <1>3 DEF ArenaInv, PointersAligned
<1> QED
  BY <1>2, <1>4, <1>5, <1>6

-----------------------------------------------------------------------------
(***************************************************************************)
(* The calls keep the invariant.                                           *)
(***************************************************************************)

\* With no arena, or one that is new, nothing is given out.
LEMMA NothingGiven ==
  ASSUME given = <<>>
  PROVE  given \in Seq(Given) /\ GivenHeld /\ GivenSeparate /\ PointersAligned
BY DEF GivenHeld, GivenSeparate, PointersAligned

\* Before the arena is made.
LEMMA InitInv == Init => ArenaInv
<1> SUFFICES ASSUME Init PROVE ArenaInv
  OBVIOUS
<1>1. blocks = <<>> /\ given = <<>> /\ default_cap = 0
  BY DEF Init
<1>2. BlocksSound /\ BlocksApart
  BY <1>1 DEF BlocksSound, BlocksApart
<1> QED
  BY <1>1, <1>2, NothingGiven, ArenaSizes DEF ArenaInv, ArenaType

\* What block_new makes is apart from all blocks and ends within the space.
LEMMA NewBlockSound ==
  ASSUME NEW cap \in 0..SizeMax, NEW b \in NewBlocks(cap)
  PROVE  /\ b \in Block /\ b.cap = cap /\ b.used = 0 /\ Sound(b)
         /\ \A k \in 1..Len(blocks) : Apart(b, blocks[k])
<1>0. SizeMax \in Nat /\ HeaderSize \in Nat
  BY ArenaSizes
<1>1. cap <= SizeMax - HeaderSize /\ b \in Malloc(HeaderSize + cap, cap)
  BY <1>0 DEF NewBlocks
<1>2. \A k \in 1..Len(blocks) : Apart(b, blocks[k])
  BY <1>1 DEF Malloc
<1>3. /\ b \in [base : {n \in 1..SizeMax : n % Grain = 0}, bytes : {HeaderSize + cap},
                cap : {cap}, used : {0}]
      /\ b.base + (HeaderSize + cap) <= SizeMax
  BY <1>1 DEF Malloc
<1>4. b \in [base : 1..SizeMax, bytes : {HeaderSize + cap}, cap : {cap}, used : {0}]
  BY <1>3
<1>5. HeaderSize + cap \in 0..SizeMax /\ 0 \in 0..SizeMax
  BY <1>0, <1>1
<1>6. b \in Block /\ b.bytes = HeaderSize + cap /\ b.cap = cap /\ b.used = 0
  BY <1>4, <1>5 DEF Block
<1> QED
  BY <1>2, <1>3, <1>6 DEF Sound

\* oyl_arena_new: one block, none of it given out.
LEMMA NewInv == ArenaInv /\ New => ArenaInv'
<1> SUFFICES ASSUME ArenaInv, New PROVE ArenaInv'
  OBVIOUS
<1>1. PICK cap \in 0..SizeMax :
        (\E b \in NewBlocks(cap) : blocks' = <<b>>) /\ default_cap' = cap
  <2>1. PICK asked \in Sizes :
          LET first == IF asked < MinCapacity THEN MinCapacity ELSE asked
          IN  (\E b \in NewBlocks(first) : blocks' = <<b>>) /\ default_cap' = first
    BY DEF New
  <2> DEFINE first == IF asked < MinCapacity THEN MinCapacity ELSE asked
  <2>2. first \in Nat
    BY ArenaSizes
  <2>3. (\E b \in NewBlocks(first) : blocks' = <<b>>) /\ default_cap' = first
    BY <2>1
  <2> HIDE DEF first
  <2>4. ~(first > SizeMax - HeaderSize)
    BY <2>3 DEF NewBlocks
  <2>5. first \in 0..SizeMax
    BY <2>2, <2>4, ArenaSizes
  <2> QED
    BY <2>3, <2>5
<1>2. PICK b \in NewBlocks(cap) : blocks' = <<b>>
  BY <1>1
<1>3. b \in Block /\ Sound(b)
  BY NewBlockSound
<1>4. blocks'[1] = b /\ Len(blocks') = 1 /\ blocks' \in Seq(Block)
  BY <1>2, <1>3
<1>5. given' = <<>>
  BY DEF New
<1>6. given' \in Seq(Given) /\ GivenHeld' /\ GivenSeparate' /\ PointersAligned'
  BY <1>5 DEF GivenHeld, GivenSeparate, PointersAligned
<1>7. BlocksSound' /\ BlocksApart'
  BY <1>3, <1>4 DEF BlocksSound, BlocksApart, Sound
<1>8. ArenaType'
  BY <1>1, <1>4, <1>6 DEF ArenaType, Block, Given
<1> QED
  BY <1>6, <1>7, <1>8 DEF ArenaInv

\* oyl_arena_free: no block.
LEMMA FreeInv == Free => ArenaInv'
<1> SUFFICES ASSUME Free PROVE ArenaInv'
  OBVIOUS
<1>1. blocks' = <<>> /\ given' = <<>> /\ default_cap' = 0
  BY DEF Free
<1>2. BlocksSound' /\ BlocksApart'
  BY <1>1 DEF BlocksSound, BlocksApart
<1>3. given' \in Seq(Given) /\ GivenHeld' /\ GivenSeparate' /\ PointersAligned'
  BY <1>1 DEF GivenHeld, GivenSeparate, PointersAligned
<1> QED
  BY <1>1, <1>2, <1>3, ArenaSizes DEF ArenaInv, ArenaType

\* oyl_arena_reset: one block kept, none of it given out.
LEMMA ResetInv == ArenaInv /\ Reset => ArenaInv'
<1> SUFFICES ASSUME ArenaInv, Reset PROVE ArenaInv'
  OBVIOUS
<1>1. PICK k \in 1..Len(blocks) : blocks' = <<[blocks[k] EXCEPT !.used = 0]>>
  BY DEF Reset
<1>2. blocks[k] \in Block /\ Sound(blocks[k]) /\ SizeMax \in Nat
  BY ArenaSizes DEF ArenaInv, ArenaType, BlocksSound
<1>3. /\ blocks'[1] \in Block /\ Sound(blocks'[1])
      /\ Len(blocks') = 1 /\ blocks' \in Seq(Block)
  BY <1>1, <1>2 DEF Block, Sound
<1>4. given' = <<>> /\ given' \in Seq(Given) /\ Len(given') = 0
  BY DEF Reset
<1>5. ArenaType'
  BY <1>3, <1>4 DEF ArenaType, ArenaInv, Reset, Block, Given
<1>6. BlocksSound' /\ BlocksApart'
  BY <1>3 DEF BlocksSound, BlocksApart, Sound
<1>7. GivenHeld' /\ GivenSeparate' /\ PointersAligned'
  BY <1>4 DEF GivenHeld, GivenSeparate, PointersAligned
<1> QED
  BY <1>5, <1>6, <1>7 DEF ArenaInv

\* An allocation is within the capacity and in front of nothing else.
LEMMA AllocInHeadInv ==
  ASSUME ArenaInv, NEW size \in 0..SizeMax, NEW align \in 0..SizeMax,
         blocks # <<>>, AllocInHead(size, align)
  PROVE  ArenaInv'
<1> DEFINE b == blocks[1]
           at == AlignedOffset(b, b.used, align)
           c == [b EXCEPT !.used = at + size]
           g == [ptr |-> Wrap(Data(b) + at), size |-> size, align |-> align]
<1>0. /\ blocks \in Seq(Block) /\ 1 \in 1..Len(blocks) /\ Head(blocks) = b
      /\ b \in Block /\ Sound(b)
      /\ SizeMax \in Nat /\ HeaderSize \in Nat
  BY ArenaSizes DEF ArenaInv, ArenaType, BlocksSound
<1>1. /\ align \in Powers
      /\ at <= b.cap /\ size <= b.cap - at
      /\ blocks' = [blocks EXCEPT ![1] = c]
      /\ given' = Append(given, g)
      /\ default_cap' = default_cap
  BY <1>0 DEF AllocInHead, Allowed, Fits, Give
<1>2. b.used \in 0..b.cap /\ b.cap \in 0..SizeMax /\ Data(b) \in Nat
  BY <1>0, SMTT(30) DEF Block, Sound, Data
<1>a. at \in b.used..b.used + align - 1
  BY <1>0, <1>1, <1>2, OffsetInBlock
<1>3. /\ Data(b) + at \in 1..SizeMax
      /\ Wrap(Data(b) + at) = Data(b) + at
      /\ (Data(b) + at) % align = 0
  BY <1>0, <1>1, <1>2, OffsetInBlock
<1>4. /\ at \in Nat /\ b.used <= at /\ at + size \in 0..SizeMax /\ at + size <= b.cap
  <2>1. at <= b.cap /\ size <= b.cap - at
    BY <1>1
  <2> HIDE DEF b, at
  <2> QED
    BY <1>0, <1>2, <1>a, <2>1
<1>5. /\ c \in Block /\ Sound(c) /\ Data(c) = Data(b)
      /\ c.base = b.base /\ c.bytes = b.bytes /\ c.used = at + size
  <2> HIDE DEF at
  <2>1. at + size \in 0..b.cap
    BY <1>2, <1>4
  <2> QED
    BY <1>0, <2>1, UseMore
<1>6. g \in Given /\ g.ptr = Data(b) + at /\ g.size = size /\ g.align = align
  <2> HIDE DEF at, b
  <2>1. align \in 1..SizeMax
    BY <1>1, PowersDivide
  <2> QED
    BY <1>0, <1>3, <2>1 DEF Given
<1> HIDE DEF c, g
<1>7. /\ blocks' \in Seq(Block) /\ Len(blocks') = Len(blocks)
      /\ blocks'[1] = c
      /\ \A k \in 1..Len(blocks) : k # 1 => blocks'[k] = blocks[k]
  BY <1>0, <1>1, <1>5, ExceptSeq
<1> HIDE DEF b, at
<1>8. \A k \in 1..Len(blocks) :
        /\ Data(blocks'[k]) = Data(blocks[k]) /\ blocks[k].used <= blocks'[k].used
        /\ Sound(blocks'[k])
        /\ blocks'[k].base = blocks[k].base /\ blocks'[k].bytes = blocks[k].bytes
  <2> TAKE k \in 1..Len(blocks)
  <2>1. CASE k = 1
    BY <1>2, <1>4, <1>5, <1>7, <2>1 DEF b
  <2>2. CASE k # 1
    <3>1. blocks'[k] = blocks[k] /\ blocks[k] \in Block
      BY <1>0, <1>7, <2>2
    <3>2. blocks[k].used <= blocks[k].used
      BY <3>1, ArenaSizes DEF Block
    <3> QED
      BY <3>1, <3>2 DEF ArenaInv, BlocksSound
  <2> QED
    BY <2>1, <2>2
<1>9. BlocksSound' /\ BlocksApart'
  BY <1>7, <1>8 DEF ArenaInv, BlocksSound, BlocksApart, Sound, Apart
<1>10. Holds(c, g)
  BY <1>0, <1>2, <1>3, <1>4, <1>5, <1>6 DEF Holds
<1>11. ASSUME NEW i \in 1..Len(given)
       PROVE  Separate(given[i], g)
  <2>1. PICK k \in 1..Len(blocks) : Holds(blocks[k], given[i])
    BY DEF ArenaInv, GivenHeld
  <2>2. given[i] \in Given /\ blocks[k] \in Block /\ Sound(blocks[k])
    BY DEF ArenaInv, ArenaType, BlocksSound
  <2>3. CASE k = 1
    <3>1. Holds(b, given[i]) /\ given[i].ptr \in Nat /\ given[i].size \in Nat
      BY <2>1, <2>2, <2>3 DEF b, Given
    <3>2. given[i].ptr + given[i].size <= Data(b) + b.used
      BY <3>1 DEF Holds
    <3>3. b.used \in Nat
      BY <1>2
    <3>4. given[i].ptr + given[i].size <= Data(b) + at
      <4> DEFINE d == Data(b)
                 u == b.used
                 end == given[i].ptr + given[i].size
      <4>1. d \in Nat
        BY <1>2
      <4>2. at \in Nat /\ u <= at
        BY <1>4
      <4>3. end \in Nat
        BY <3>1
      <4>4. end <= d + u
        BY <3>2
      <4>5. u \in Nat
        BY <3>3
      <4> HIDE DEF d, u, end
      <4>6. end <= d + at
        BY <4>1, <4>2, <4>3, <4>4, <4>5
      <4> QED BY <4>6 DEF d, end
    <3> QED
      BY <1>6, <3>4 DEF Separate
  <2>4. CASE k # 1
    <3>1. Apart(blocks[k], c)
      BY <1>0, <1>5, <2>4 DEF ArenaInv, BlocksApart, Apart, b
    <3> QED
      BY <1>5, <1>6, <1>10, <2>1, <2>2, <3>1, ApartSeparate
  <2> QED
    BY <2>3, <2>4
<1>12. g.ptr % g.align = 0
  BY <1>3, <1>6
<1>13. given' \in Seq(Given) /\ GivenHeld' /\ GivenSeparate' /\ PointersAligned'
  BY <1>0, <1>1, <1>6, <1>7, <1>8, <1>10, <1>11, <1>12, GivenGrows
<1>14. ArenaType'
  BY <1>0, <1>1, <1>7, <1>13 DEF ArenaInv, ArenaType, Block, Given
<1> QED
  BY <1>9, <1>13, <1>14 DEF ArenaInv

\* A new block has room for what is asked for, wherever malloc puts it: its
\* capacity covers the padding, too, which the code does not look at again.
LEMMA AllocInNewInv ==
  ASSUME ArenaInv, NEW size \in 0..SizeMax, NEW align \in 0..SizeMax,
         blocks # <<>>, AllocInNew(size, align)
  PROVE  ArenaInv'
<1> DEFINE cap == NewCap(Head(blocks), size, align)
<1>0. /\ blocks \in Seq(Block) /\ blocks # <<>> /\ Head(blocks) \in Block
      /\ SizeMax \in Nat /\ HeaderSize \in Nat /\ default_cap \in 0..SizeMax
      /\ align \in Powers /\ align \in 1..SizeMax /\ size <= SizeMax - align
  BY ArenaSizes, PowersDivide, HeadTailProperties
  DEF ArenaInv, ArenaType, AllocInNew, Allowed
<1>1. cap \in 0..SizeMax /\ size + align <= cap
  <2>1. size + align \in 0..SizeMax
    BY <1>0
  <2>2. Wrap(size + align) = size + align
    BY <2>1, WrapSmall
  <2>3. Head(blocks).cap \in 0..SizeMax
    BY <1>0 DEF Block
  <2> DEFINE fits == IF default_cap < size + align THEN size + align ELSE default_cap
  <2>4. fits \in 0..SizeMax /\ size + align <= fits
    BY <1>0, <2>1
  <2>5. cap = IF Head(blocks).cap <= SizeMax \div 2 /\ fits < Head(blocks).cap * 2
              THEN Head(blocks).cap * 2 ELSE fits
    BY <2>2 DEF NewCap
  <2> HIDE DEF cap, fits
  <2> QED
    BY <1>0, <2>1, <2>3, <2>4, <2>5
<1>2. PICK nb \in NewBlocks(cap) :
        /\ blocks' = <<[nb EXCEPT !.used = AlignedOffset(nb, 0, align) + size]>> \o blocks
        /\ Give(nb, AlignedOffset(nb, 0, align), size, align)
  BY DEF AllocInNew
<1> HIDE DEF cap
<1>3. nb \in Block /\ nb.cap = cap /\ nb.used = 0 /\ Sound(nb)
  BY <1>1, NewBlockSound
<1>c. \A k \in 1..Len(blocks) : Apart(nb, blocks[k])
  BY <1>1, NewBlockSound
<1> DEFINE at == AlignedOffset(nb, 0, align)
           c == [nb EXCEPT !.used = at + size]
           g == [ptr |-> Wrap(Data(nb) + at), size |-> size, align |-> align]
<1>4. /\ at \in 0..align - 1
      /\ at <= nb.cap => /\ Data(nb) + at \in 1..SizeMax
                         /\ Wrap(Data(nb) + at) = Data(nb) + at
                         /\ (Data(nb) + at) % align = 0
  <2>1. 0 \in 0..nb.cap
    BY <1>1, <1>3
  <2>2. at \in 0..0 + align - 1
    BY <1>0, <1>3, <2>1, OffsetInBlock
  <2>3. at <= nb.cap => /\ Data(nb) + at \in 1..SizeMax
                        /\ Wrap(Data(nb) + at) = Data(nb) + at
                        /\ (Data(nb) + at) % align = 0
    BY <1>0, <1>3, <2>1, OffsetInBlock
  <2> HIDE DEF at
  <2> QED
    BY <1>0, <2>2, <2>3
<1>5. at + size \in 0..SizeMax /\ at <= nb.cap /\ at + size <= nb.cap
  <2> HIDE DEF at
  <2> QED
    BY <1>0, <1>1, <1>3, <1>4
<1>6. blocks' = <<c>> \o blocks /\ given' = Append(given, g) /\ default_cap' = default_cap
  BY <1>2 DEF Give
<1>7. /\ c \in Block /\ Sound(c) /\ Data(c) = Data(nb) /\ Data(nb) \in Nat
      /\ c.base = nb.base /\ c.bytes = nb.bytes /\ c.used = at + size
  <2> HIDE DEF at
  <2>1. nb.cap \in Nat
    BY <1>1, <1>3
  <2>2. at + size \in 0..nb.cap
    BY <1>5, <2>1
  <2> QED
    BY <1>3, <2>2, UseMore
<1>8. g \in Given /\ g.ptr = Data(nb) + at /\ g.size = size /\ g.align = align
  <2> HIDE DEF at
  <2> QED
    BY <1>0, <1>4, <1>5 DEF Given
<1> HIDE DEF c, g, at
<1>9. /\ blocks' \in Seq(Block) /\ Len(blocks') = Len(blocks) + 1
      /\ blocks'[1] = c
      /\ \A k \in 1..Len(blocks) : blocks'[k + 1] = blocks[k]
      /\ \A k \in 1..Len(blocks') : k = 1 \/ k - 1 \in 1..Len(blocks)
      /\ \A k \in 2..Len(blocks') : blocks'[k] = blocks[k - 1]
  <2>1. <<c>> \in Seq(Block) /\ Len(<<c>>) = 1 /\ <<c>>[1] = c
    BY <1>7
  <2> QED
    BY <1>0, <1>6, <2>1, ConcatProperties
<1>10. \A k \in 1..Len(blocks) : Apart(c, blocks[k]) /\ Apart(blocks[k], c)
  BY <1>c, <1>7 DEF Apart
<1>11. BlocksSound'
  <2> SUFFICES ASSUME NEW k \in 1..Len(blocks') PROVE Sound(blocks'[k])
    BY DEF BlocksSound, Sound
  <2>1. CASE k = 1
    BY <1>7, <1>9, <2>1
  <2>2. CASE k # 1
    <3>1. k - 1 \in 1..Len(blocks) /\ blocks'[k] = blocks[k - 1]
      BY <1>0, <1>9, <2>2
    <3> QED
      BY <3>1 DEF ArenaInv, BlocksSound
  <2> QED
    BY <2>1, <2>2
<1>12. BlocksApart'
  <2> SUFFICES ASSUME NEW i \in 1..Len(blocks'), NEW j \in 1..Len(blocks'), i # j
               PROVE  Apart(blocks'[i], blocks'[j])
    BY DEF BlocksApart, Apart
  <2>1. CASE i = 1
    BY <1>9, <1>10, <2>1
  <2>2. CASE j = 1
    BY <1>9, <1>10, <2>2
  <2>3. CASE i # 1 /\ j # 1
    <3>1. /\ i - 1 \in 1..Len(blocks) /\ j - 1 \in 1..Len(blocks) /\ i - 1 # j - 1
          /\ blocks'[i] = blocks[i - 1] /\ blocks'[j] = blocks[j - 1]
      BY <1>0, <1>9, <2>3
    <3> QED
      BY <3>1 DEF ArenaInv, BlocksApart
  <2> QED
    BY <2>1, <2>2, <2>3
<1>13. Holds(c, g)
  BY <1>0, <1>4, <1>7, <1>8 DEF Holds
<1>14. ASSUME NEW i \in 1..Len(given)
       PROVE  Separate(given[i], g)
  <2>1. PICK k \in 1..Len(blocks) : Holds(blocks[k], given[i])
    BY DEF ArenaInv, GivenHeld
  <2>2. given[i] \in Given /\ blocks[k] \in Block /\ Sound(blocks[k])
    BY DEF ArenaInv, ArenaType, BlocksSound
  <2> QED
    BY <1>7, <1>8, <1>10, <1>13, <2>1, <2>2, ApartSeparate
<1>15. g.ptr % g.align = 0
  BY <1>4, <1>5, <1>8
<1>16. \A k \in 1..Len(blocks) : \E l \in 1..Len(blocks') :
         Data(blocks'[l]) = Data(blocks[k]) /\ blocks[k].used <= blocks'[l].used
  <2> TAKE k \in 1..Len(blocks)
  <2>1. k + 1 \in 1..Len(blocks') /\ blocks'[k + 1] = blocks[k]
    BY <1>0, <1>9
  <2>2. blocks[k] \in Block
    BY <1>0
  <2>3. blocks[k].used <= blocks[k].used
    BY <2>2, ArenaSizes DEF Block
  <2> QED
    BY <2>1, <2>3
<1>17. \E l \in 1..Len(blocks') : Holds(blocks'[l], g)
  <2>1. 1 \in 1..Len(blocks')
    BY <1>0, <1>9
  <2> QED
    BY <1>9, <1>13, <2>1
<1>18. given' \in Seq(Given) /\ GivenHeld' /\ GivenSeparate' /\ PointersAligned'
  BY <1>6, <1>8, <1>9, <1>14, <1>15, <1>16, <1>17, GivenGrows
<1>19. ArenaType'
  BY <1>0, <1>6, <1>9, <1>18 DEF ArenaType, Block, Given
<1> QED
  BY <1>11, <1>12, <1>18, <1>19 DEF ArenaInv

-----------------------------------------------------------------------------
(***************************************************************************)
(* The theorems.                                                           *)
(***************************************************************************)

\* Nothing happens.
LEMMA StutterInv == ArenaInv /\ UNCHANGED vars => ArenaInv'
BY DEF vars, ArenaInv, ArenaType, BlocksSound, BlocksApart, GivenHeld, GivenSeparate,
       PointersAligned, Block, Given, Sound, Apart, Holds, Separate, Data

\* oyl_arena_alloc, whichever block it finds or makes.
LEMMA AllocateInv ==
  ASSUME ArenaInv, NEW size \in 0..SizeMax, NEW align \in 0..SizeMax,
         blocks # <<>>, Allocate(size, align)
  PROVE  ArenaInv'
<1>1. CASE AllocInHead(size, align)
  BY <1>1, AllocInHeadInv
<1>2. CASE AllocInNew(size, align)
  BY <1>2, AllocInNewInv
<1>3. CASE UNCHANGED vars
  BY <1>3, StutterInv
<1> QED
  BY <1>1, <1>2, <1>3 DEF Allocate, AllocFails

\* The inductive invariant: blocks are apart and within the address space,
\* and what was given out lies in their used parts.
THEOREM ArenaInvariant == Spec => []ArenaInv
<1>1. ArenaInv /\ [Next]_vars => ArenaInv'
  <2> SUFFICES ASSUME ArenaInv, [Next]_vars PROVE ArenaInv'
    OBVIOUS
  <2>1. CASE Alloc
    <3>1. PICK size \in Sizes, align \in Alignments :
            blocks # <<>> /\ Allocate(size, Alignment(align))
      BY <2>1 DEF Alloc
    <3>2. size \in 0..SizeMax /\ Alignment(align) \in 0..SizeMax
      BY ArenaSizes DEF Alignment
    <3> QED
      BY <3>1, <3>2, AllocateInv
  <2>2. CASE Dup
    <3>1. PICK len \in Sizes : blocks # <<>> /\ DupOf(len)
      BY <2>2 DEF Dup
    <3>2. len + 1 \in 0..SizeMax /\ 1 \in 0..SizeMax
      BY <3>1, ArenaSizes DEF DupOf
    <3> QED
      BY <3>1, <3>2, AllocateInv DEF DupOf
  <2>3. CASE Reset
    BY <2>3, ResetInv
  <2>4. CASE New
    BY <2>4, NewInv
  <2>5. CASE Free
    BY <2>5, FreeInv
  <2>6. CASE UNCHANGED vars
    BY <2>6, StutterInv
  <2> QED
    BY <2>1, <2>2, <2>3, <2>4, <2>5, <2>6 DEF Next
<1> QED
  BY <1>1, InitInv, PTL DEF Spec

\* What a block holds is within it.
LEMMA HeldWithin ==
  ASSUME NEW b \in Block, Sound(b), NEW g \in Given, Holds(b, g)
  PROVE  Within(g, b)
<1> DEFINE d == Data(b)
           end == g.ptr + g.size
<1>1. /\ b.base \in Nat /\ b.cap \in Nat /\ b.used \in Nat /\ HeaderSize \in Nat
      /\ g.ptr \in Nat /\ g.size \in Nat
  BY ArenaSizes DEF Block, Given
<1>2. d = b.base + HeaderSize /\ d \in Nat /\ end \in Nat
  BY <1>1 DEF Data
<1>3. b.bytes = HeaderSize + b.cap /\ b.used <= b.cap
  BY DEF Sound
<1>4. d <= g.ptr /\ end <= d + b.used
  BY DEF Holds
<1>5. b.base + b.bytes = d + b.cap
  BY <1>1, <1>2, <1>3
<1> HIDE DEF d, end
<1>6. end <= d + b.cap
  BY <1>1, <1>2, <1>3, <1>4
<1> QED BY <1>4, <1>5, <1>6 DEF Within, d, end

\* Whatever the width of a size_t, the sizes, the alignments and the places
\* malloc chooses, what the arena gives out is its own and shared with nothing.
THEOREM MemoryApartAlways == Spec => []MemoryApart
<1>1. ArenaInv => MemoryApart
  <2> SUFFICES ASSUME ArenaInv PROVE MemoryApart
    OBVIOUS
  <2>1. ASSUME NEW i \in 1..Len(given)
        PROVE  \E k \in 1..Len(blocks) : Within(given[i], blocks[k])
    <3>1. PICK k \in 1..Len(blocks) : Holds(blocks[k], given[i])
      BY DEF ArenaInv, GivenHeld
    <3>2. given[i] \in Given /\ blocks[k] \in Block /\ Sound(blocks[k])
      BY DEF ArenaInv, ArenaType, BlocksSound
    <3>3. Within(given[i], blocks[k])
      BY <3>1, <3>2, HeldWithin
    <3> QED
      BY <3>3
  <2> QED
    BY <2>1 DEF ArenaInv, GivenSeparate, Separate, MemoryApart
<1> QED
  BY <1>1, ArenaInvariant, PTL

\* Every pointer the arena ever gives out is aligned as asked for.
THEOREM PointersAlignedAlways == Spec => []PointersAligned
BY ArenaInvariant, PTL DEF ArenaInv

=============================================================================
