------------------------------- MODULE Umalloc ------------------------------
(***************************************************************************)
(* The allocator of user programs (user/umalloc.c): malloc, free and       *)
(* morecore on the circular list of free blocks.                           *)
(*                                                                         *)
(* Addresses count headers.  base, in the data segment, is at 0 and the    *)
(* heap is 1..brk-1; a block at p has its header there and h.size[p]       *)
(* headers in all.  live holds the blocks the program has; sbrk() gives    *)
(* the memory up to MaxHeap, and then fails.                               *)
(***************************************************************************)
EXTENDS Integers, FiniteSets

CONSTANTS
  NALLOC,     \* what morecore() asks for at least (4096)
  MaxHeap     \* bound on the heap

Base == 0
Addrs == 0..MaxHeap
NoHeap == [ptr |-> [a \in Addrs |-> 0], size |-> [a \in Addrs |-> 0], freep |-> -1,
           brk |-> 1, live |-> {}]

\* The loop of free(): the block after which bp belongs.
RECURSIVE Place(_, _, _)
Place(h, p, bp) ==
  IF \/ bp > p /\ bp < h.ptr[p]
     \/ p >= h.ptr[p] /\ (bp > p \/ bp < h.ptr[p])
  THEN p ELSE Place(h, h.ptr[p], bp)

\* free() joins bp with the block above it, then with the one below.
JoinAbove(h, p, bp) ==
  IF bp + h.size[bp] = h.ptr[p]
  THEN [h EXCEPT !.size[bp] = @ + h.size[h.ptr[p]], !.ptr[bp] = h.ptr[h.ptr[p]]]
  ELSE [h EXCEPT !.ptr[bp] = h.ptr[p]]

\* Mutation: the block below gets the link of the block above it.
JoinBelow_skips(h, p, bp) ==
  IF p + h.size[p] = bp THEN [h EXCEPT !.size[p] = @ + h.size[bp], !.freep = p]
  ELSE [h EXCEPT !.ptr[p] = bp, !.freep = p]

JoinBelow(h, p, bp) ==
  IF p + h.size[p] = bp
  THEN [h EXCEPT !.size[p] = @ + h.size[bp], !.ptr[p] = h.ptr[bp], !.freep = p]
  ELSE [h EXCEPT !.ptr[p] = bp, !.freep = p]

Insert(h, p, bp) == JoinBelow(JoinAbove(h, p, bp), p, bp)
free(h, bp) == Insert([h EXCEPT !.live = @ \ {bp}], Place(h, h.freep, bp), bp)

\* morecore(): FALSE if sbrk() fails.
Units(nu) == IF nu < NALLOC THEN NALLOC ELSE nu
CanGrow(h, nu) == h.brk + Units(nu) <= MaxHeap + 1
morecore(h, nu) == free([h EXCEPT !.size[h.brk] = Units(nu), !.brk = @ + Units(nu)], h.brk)

\* malloc() once it has found p after prevp; the loop that looks for it; ret
\* is -1 for the null pointer.
Given(h, p) == [h |-> [h EXCEPT !.live = @ \union {p}], ret |-> p]
Split(h, p, n) == Given([h EXCEPT !.size[p] = @ - n, !.size[p + h.size[p] - n] = n], p + h.size[p] - n)
Take(h, prevp, p, n) ==
  IF h.size[p] = n THEN Given([h EXCEPT !.ptr[prevp] = h.ptr[p], !.freep = prevp], p)
  ELSE Split([h EXCEPT !.freep = prevp], p, n)

RECURSIVE Search(_, _, _, _), Start(_, _), More(_, _)
Start(h, n) == Search(h, h.freep, h.ptr[h.freep], n)
More(h, n) == IF CanGrow(h, n) THEN Start(morecore(h, n), n) ELSE [h |-> h, ret |-> -1]
Search(h, prevp, p, n) ==
  IF h.size[p] >= n THEN Take(h, prevp, p, n)
  ELSE IF p = h.freep THEN More(h, n)
  ELSE Search(h, p, h.ptr[p], n)

Begun(h) == IF h.freep = -1 THEN [h EXCEPT !.ptr[Base] = Base, !.freep = Base, !.size[Base] = 0] ELSE h
malloc(h, n) == Start(Begun(h), n)

-----------------------------------------------------------------------------
\* The free blocks, along the list.
RECURSIVE Listed(_, _, _)
Listed(h, p, seen) == IF p \in seen THEN seen ELSE Listed(h, h.ptr[p], seen \union {p})
FreeBlocks(h) == IF h.freep = -1 THEN {} ELSE Listed(h, h.freep, {}) \ {Base}
Extent(h, p) == p..p + h.size[p] - 1

\* A heap is sound if the free blocks and the program's blocks are disjoint
\* and are the whole heap; the list is one circle through base, in the order
\* of addresses but for one place; and no two free blocks are neighbours.
Sound(h) ==
  LET blocks == FreeBlocks(h) \union h.live
      list == FreeBlocks(h) \union {Base}
  IN /\ FreeBlocks(h) \cap h.live = {}
     /\ \A p, q \in blocks : p # q => Extent(h, p) \cap Extent(h, q) = {}
     /\ UNION {Extent(h, p) : p \in blocks} = 1..h.brk - 1
     /\ h.freep # -1 => /\ h.freep \in list
                        /\ \A p \in list : h.ptr[p] \in list
                        /\ Cardinality({p \in list : h.ptr[p] <= p}) = 1
     /\ \A p, q \in FreeBlocks(h) : p + h.size[p] # q

\* malloc(n): a block of n headers that nobody had, or no block and then no
\* free block is large enough and sbrk() fails; and no other block changes.
MallocRight(h, n, r) ==
  /\ IF r.ret = -1
     THEN ~CanGrow(h, n) /\ r.h.live = h.live /\ \A p \in FreeBlocks(h) : h.size[p] < n
     ELSE r.h.live = h.live \union {r.ret} /\ r.ret \notin h.live /\ r.h.size[r.ret] = n
  /\ \A p \in h.live : r.h.size[p] = h.size[p]
  /\ Sound(r.h)
FreeRight(h, bp, h2) ==
  h2.live = h.live \ {bp} /\ Sound(h2) /\ \A p \in h2.live : h2.size[p] = h.size[p]

\* Every call of every sequence of up to k calls on a heap of hs.
RECURSIVE HeapsRight(_, _, _)
HeapsRight(hs, sizes, k) ==
  k = 0 \/
    (/\ \A h \in hs : /\ \A n \in sizes : MallocRight(h, n, malloc(h, n))
                      /\ \A bp \in h.live : FreeRight(h, bp, free(h, bp))
     /\ HeapsRight(UNION {{malloc(h, n).h : n \in sizes} \union {free(h, bp) : bp \in h.live} : h \in hs},
                   sizes, k - 1))
=============================================================================
