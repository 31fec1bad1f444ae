-------------------------------- MODULE Arena --------------------------------
(***************************************************************************)
(* The arena (oyl_arena.c): blocks from malloc, the newest of which is     *)
(* allocated from by moving a mark.  Sizes and addresses are of type       *)
(* size_t, so that sums wrap around; a block is where malloc puts it.      *)
(***************************************************************************)
EXTENDS Integers, Sequences

CONSTANTS
  Width,        \* the bits of a size_t
  HeaderSize,   \* sizeof(oyl_block)
  MinCapacity,  \* of the first block: 4096
  Grain,        \* what malloc aligns to
  Sizes,        \* the sizes and
  Alignments,   \*   alignments that are asked for
  MaxLive       \* the most allocations between two resets

\* SIZE_MAX, the last address.
SizeMax == 2^Width - 1

Powers == {2^k : k \in 0..Width - 1}

ASSUME ArenaSizes ==
  /\ Width \in Nat \ {0} /\ SizeMax \in Nat \ {0}
  /\ HeaderSize \in Nat \ {0} /\ MinCapacity \in Nat \ {0} /\ Grain \in Nat \ {0}
  /\ MaxLive \in Nat
  /\ Sizes \subseteq 0..SizeMax /\ Alignments \subseteq 0..SizeMax

\* Addresses wrap around to an address of every alignment.
ASSUME PowersDivide ==
  \A n \in Powers : n \in 1..SizeMax /\ \E m \in 1..SizeMax + 1 : SizeMax + 1 = m * n

VARIABLES
  blocks,       \* a->blocks, the newest (a->head) first; none without an arena
  default_cap,  \* a->default_cap
  given         \* history: what has been given out since the last reset

vars == <<blocks, default_cap, given>>

\* bytes, a history field: how many malloc was asked for.
Block == [base : 1..SizeMax, bytes : 0..SizeMax, cap : 0..SizeMax, used : 0..SizeMax]

Given == [ptr : 0..SizeMax, size : 0..SizeMax, align : 1..SizeMax]

Wrap(n) == n % (SizeMax + 1)

\* BLOCK_DATA.
Data(b) == b.base + HeaderSize

-----------------------------------------------------------------------------
(***************************************************************************)
(* Blocks.                                                                 *)
(***************************************************************************)

Apart(one, other) == one.base + one.bytes <= other.base \/ other.base + other.bytes <= one.base

\* What malloc may return: memory of no other block, whose end is an address.
Malloc(bytes, cap) ==
  {b \in [base : {n \in 1..SizeMax : n % Grain = 0}, bytes : {bytes}, cap : {cap}, used : {0}] :
     /\ b.base + bytes <= SizeMax
     /\ \A i \in 1..Len(blocks) : Apart(b, blocks[i])}

\* block_new.
NewBlocks(cap) == IF cap > SizeMax - HeaderSize THEN {} ELSE Malloc(HeaderSize + cap, cap)

\* How far an address is from the next that is aligned.
Padding(address, align) == (align - (address % align)) % align

\* Mutant: the offset is aligned, and not the address.
OffsetAligned(b, from, align) == Wrap(from + Padding(from, align))

\* aligned_offset.
AlignedOffset(b, from, align) == Wrap(from + Padding(Wrap(Data(b) + from), align))

Fits(b, at, size) == at <= b.cap /\ size <= b.cap - at

\* At least double, or fit the request, wherever its block starts.
NewCap(b, size, align) ==
  LET asked == Wrap(size + align)
      cap == IF default_cap < asked THEN asked ELSE default_cap
  IN  IF b.cap <= SizeMax \div 2 /\ cap < b.cap * 2 THEN b.cap * 2 ELSE cap

-----------------------------------------------------------------------------
(***************************************************************************)
(* The calls.                                                              *)
(***************************************************************************)

Init == blocks = <<>> /\ default_cap = 0 /\ given = <<>>

\* oyl_arena_new.
New ==
  /\ blocks = <<>>
  /\ \E cap \in Sizes :
       LET first == IF cap < MinCapacity THEN MinCapacity ELSE cap
       IN  /\ \E b \in NewBlocks(first) : blocks' = <<b>>
           /\ default_cap' = first
  /\ given' = <<>>

\* An alignment of 0 is none.
Alignment(align) == IF align = 0 THEN 1 ELSE align

\* Mutant: the size and its padding may wrap around.
AllowedAny(size, align) == align \in Powers

Allowed(size, align) == align \in Powers /\ size <= SizeMax - align

\* What is at an offset of block b.
Give(b, at, size, align) ==
  /\ given' = Append(given, [ptr |-> Wrap(Data(b) + at), size |-> size, align |-> align])
  /\ UNCHANGED default_cap

AllocInHead(size, align) ==
  LET b == Head(blocks)
      at == AlignedOffset(b, b.used, align)
  IN  /\ Allowed(size, align) /\ Fits(b, at, size)
      /\ blocks' = [blocks EXCEPT ![1].used = at + size]
      /\ Give(b, at, size, align)

AllocInNew(size, align) ==
  LET b == Head(blocks)
  IN  /\ Allowed(size, align) /\ ~Fits(b, AlignedOffset(b, b.used, align), size)
      /\ \E nb \in NewBlocks(NewCap(b, size, align)) :
           LET at == AlignedOffset(nb, 0, align)
           IN  /\ blocks' = <<[nb EXCEPT !.used = at + size]>> \o blocks
               /\ Give(nb, at, size, align)

\* Not a power of two, too large, or no memory: NULL.
AllocFails(size, align) ==
  LET b == Head(blocks)
  IN  /\ Allowed(size, align) => ~Fits(b, AlignedOffset(b, b.used, align), size)
      /\ UNCHANGED vars

\* oyl_arena_alloc.
Allocate(size, align) ==
  \/ AllocInHead(size, align)
  \/ AllocInNew(size, align)
  \/ AllocFails(size, align)

Alloc ==
  /\ blocks # <<>> /\ Len(given) < MaxLive
  /\ \E size \in Sizes, align \in Alignments : Allocate(size, Alignment(align))

\* oyl_arena_dup, which writes the terminator, too.
DupOf(len) == len # SizeMax /\ Allocate(len + 1, 1)

Dup ==
  /\ blocks # <<>> /\ Len(given) < MaxLive
  /\ \E len \in Sizes : DupOf(len)

\* Block k is the last of the largest.
Largest(k) ==
  \A i \in 1..Len(blocks) :
    blocks[i].cap <= blocks[k].cap /\ (i > k => blocks[i].cap < blocks[k].cap)

\* oyl_arena_reset: what was given out is not valid any more.
Reset ==
  /\ \E k \in 1..Len(blocks) :
       Largest(k) /\ blocks' = <<[blocks[k] EXCEPT !.used = 0]>>
  /\ given' = <<>>
  /\ UNCHANGED default_cap

\* oyl_arena_free.
Free ==
  /\ blocks # <<>>
  /\ blocks' = <<>> /\ default_cap' = 0 /\ given' = <<>>

Next == New \/ Alloc \/ Dup \/ Reset \/ Free

Spec == Init /\ [][Next]_vars

-----------------------------------------------------------------------------
(***************************************************************************)
(* The properties.                                                         *)
(***************************************************************************)

Within(g, b) == Data(b) <= g.ptr /\ g.ptr + g.size <= b.base + b.bytes

\* What is given out is memory of the arena, up to its last byte, and shares none of it with anything else that is still valid:
\* not across blocks, after a reset, or where sizes come near SIZE_MAX.
MemoryApart ==
  /\ \A i \in 1..Len(given) : \E k \in 1..Len(blocks) : Within(given[i], blocks[k])
  /\ \A i, j \in 1..Len(given) :
       i < j => \/ given[i].ptr + given[i].size <= given[j].ptr
                \/ given[j].ptr + given[j].size <= given[i].ptr

\* Every pointer has the alignment asked for, whatever malloc's is and
\* however much padding that takes.
PointersAligned == \A i \in 1..Len(given) : given[i].ptr % given[i].align = 0

=============================================================================
