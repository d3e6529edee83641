---------------------------- MODULE MemoryProofs ----------------------------
(***************************************************************************)
(* Proofs about memory: the buffers a pool hands out, and the arrays and   *)
(* regions of the tensors of an execution context.                         *)
(*                                                                         *)
(* BufferPool, for any buffers, sizes, size of the pool and alignment:     *)
(* blocks never overlap, together they are the whole pool, and no two free *)
(* blocks are neighbours.                                                  *)
(*                                                                         *)
(* TensorMemory, for every group of ranks and every set of tensors and of  *)
(* addresses: a flush looks at regions that exist, an allocated tensor     *)
(* keeps its memory, memory goes only when it may, a flush leaves none     *)
(* behind, and all ranks are left with the memory of the same tensors.     *)
(***************************************************************************)
EXTENDS BufferPool, TensorMemory, FiniteSetTheorems, WellFoundedInduction, TLAPS

-----------------------------------------------------------------------------
(***************************************************************************)
(* The pool of buffers.                                                    *)
(***************************************************************************)

Block == [ptr : Nat, size : Nat \ {0}, head : BOOLEAN]

\* A block of the pool; it is marked as the head when it is the first one.
InPool(b) ==
  /\ b.ptr \in Nat /\ b.size \in Nat \ {0}
  /\ Base <= b.ptr /\ b.ptr + b.size <= Base + PoolSize

Marked(b) == b \in Block /\ InPool(b) /\ (b.head <=> b.ptr = Base)

Clear(b, c) == b.ptr + b.size <= c.ptr \/ c.ptr + c.size <= b.ptr

In(a, b) == b.ptr <= a /\ a < b.ptr + b.size

IsFreeList(fl) ==
  /\ \A b \in fl : Marked(b)
  /\ \A b, c \in fl : b # c => Clear(b, c)
  /\ \A b, c \in fl : b.ptr + b.size # c.ptr

\* The sizes handed out are positive.
LEMMA AlignUp ==
  ASSUME NEW n \in Nat \ {0}
  PROVE  align_up(n) \in Nat \ {0} /\ align_up(n) >= n
<1> DEFINE m == n + Align - 1
           q == m \div Align
<1>1. m \in Nat /\ Align \in Nat \ {0} /\ m >= Align
  BY SizesAssumption
<1>2. q \in Int /\ Align * q <= m /\ m < Align * q + Align
  BY <1>1
<1>3. q * Align \in Int /\ q * Align = Align * q
  BY <1>1, <1>2
<1> QED BY <1>1, <1>2, <1>3 DEF align_up

\* A multiple leaves no remainder.
LEMMA Multiples ==
  ASSUME NEW a \in Nat \ {0}, NEW k \in Int
  PROVE  (a * k) % a = 0
<1> DEFINE x == a * k
           d == x \div a
           r == x % a
<1>1. x \in Int /\ d \in Int /\ r \in 0 .. a - 1 /\ x = a * d + r
  OBVIOUS
<1>2. k - d \in Int /\ a * (k - d) = r
  BY <1>1
<1>3. CASE k - d >= 1
  <2>1. a * (k - d) >= a
    BY <1>2, <1>3
  <2> QED BY <1>1, <1>2, <2>1
<1>4. CASE k - d <= -1
  <2>1. a * (k - d) <= -a
    BY <1>2, <1>4
  <2> QED BY <1>1, <1>2, <2>1
<1>5. CASE k - d = 0
  BY <1>1, <1>2, <1>5
<1> QED BY <1>2, <1>3, <1>4, <1>5

\* Whatever is cut off an aligned block begins at an aligned address.
LEMMA AlignedSizes ==
  ASSUME NEW n \in Nat, NEW p \in Nat, p % Align = 0
  PROVE  (p + align_up(n)) % Align = 0
<1> DEFINE q == (n + Align - 1) \div Align
           d == p \div Align
<1>1. Align \in Nat \ {0} /\ q \in Int /\ d \in Int
  BY SizesAssumption
<1>2. align_up(n) = q * Align
  BY DEF align_up
<1>3. p = Align * d
  BY <1>1
<1>4. p + align_up(n) = Align * (d + q) /\ d + q \in Int
  BY <1>1, <1>2, <1>3
<1> QED BY <1>1, <1>4, Multiples

-----------------------------------------------------------------------------
\* insert joins a block with its neighbours: the addresses stay the same, whatever
\* was clear of the old blocks is clear of the new ones, and nothing is adjacent.

\* What a block joins is what begins where it ends, or ends where it begins.
LEMMA Neighbours ==
  ASSUME NEW fl, IsFreeList(fl), NEW b, Marked(b), \A c \in fl : Clear(b, c)
  PROVE  /\ merge_next(fl, b) = {n \in fl : b.ptr + b.size = n.ptr}
         /\ merge_prev(fl, b) = {p \in fl : p.ptr + p.size = b.ptr}
<1> USE DEF IsFreeList, Marked, InPool, Clear, Block
<1>1. Base \in Nat \ {0}
  BY SizesAssumption DEF Base
<1>2. ASSUME NEW n \in fl, b.ptr + b.size = n.ptr
      PROVE  n \in merge_next(fl, b)
  <2>1. ~n.head
    BY <1>1, <1>2
  <2>2. \A c \in fl : b.ptr < c.ptr => n.ptr <= c.ptr
    BY <1>2
  <2> QED BY <1>2, <2>1, <2>2 DEF merge_next, Following, is_contiguous_before
<1>3. ASSUME NEW p \in fl, p.ptr + p.size = b.ptr
      PROVE  p \in merge_prev(fl, b)
  <2>1. ~b.head
    BY <1>1, <1>3
  <2>2. \A c \in fl : c.ptr <= b.ptr => c.ptr <= p.ptr
    BY <1>3
  <2> QED BY <1>3, <2>1, <2>2 DEF merge_prev, Previous, is_contiguous_before
<1>4. merge_next(fl, b) \subseteq {n \in fl : b.ptr + b.size = n.ptr}
  BY DEF merge_next, Following, is_contiguous_before
<1>5. merge_prev(fl, b) \subseteq {p \in fl : p.ptr + p.size = b.ptr}
  BY DEF merge_prev, Previous, is_contiguous_before
<1> QED BY <1>2, <1>3, <1>4, <1>5

\* The block that comes out, and the free blocks it takes the place of.
LEMMA Joins ==
  ASSUME NEW fl, IsFreeList(fl), NEW b, Marked(b), \A c \in fl : Clear(b, c)
  PROVE  \E new, gone :
           /\ insert(fl, b) = (fl \ gone) \cup {new}
           /\ Marked(new) /\ gone \subseteq fl
           /\ new.ptr <= b.ptr /\ b.ptr + b.size <= new.ptr + new.size
           /\ \A c \in gone : \/ c.ptr = b.ptr + b.size /\ c.ptr + c.size = new.ptr + new.size
                              \/ c.ptr + c.size = b.ptr /\ c.ptr = new.ptr
           /\ new.ptr = b.ptr \/ \E c \in gone : c.ptr = new.ptr /\ c.ptr + c.size = b.ptr
           /\ \/ new.ptr + new.size = b.ptr + b.size
              \/ \E c \in gone : c.ptr = b.ptr + b.size /\ c.ptr + c.size = new.ptr + new.size
           /\ \A c \in fl : c.ptr = b.ptr + b.size \/ c.ptr + c.size = b.ptr => c \in gone
<1> DEFINE N == merge_next(fl, b)
           P == merge_prev(fl, b)
           w == WithNext(fl, b)
           new == WithPrevious(fl, b, w)
<1>1. /\ N = {n \in fl : b.ptr + b.size = n.ptr}
      /\ P = {p \in fl : p.ptr + p.size = b.ptr}
  BY Neighbours
<1> USE DEF IsFreeList, Marked, InPool, Clear, Block
<1>2. /\ w \in Block /\ w.ptr = b.ptr /\ w.head = b.head
      /\ IF N = {} THEN w.size = b.size ELSE \E n \in N : w.size = b.size + n.size
  BY <1>1 DEF WithNext, merge
<1>3. /\ new \in Block /\ new.ptr + new.size = w.ptr + w.size
      /\ IF P = {} THEN new.ptr = b.ptr /\ new.head = b.head
                   ELSE \E p \in P : new.ptr = p.ptr /\ new.head = p.head
  BY <1>1, <1>2 DEF WithPrevious, merge
<1>4. \A m, n \in N : m = n
  BY <1>1
<1>5. \A m, n \in P : m = n
  BY <1>1
<1>6. insert(fl, b) = (fl \ (P \cup N)) \cup {new}
  BY DEF insert
<1>7. Marked(new)
  <2>1. new.ptr + new.size <= Base + PoolSize
    BY <1>1, <1>2, <1>3, SizesAssumption
  <2>2. Base <= new.ptr /\ (new.head <=> new.ptr = Base)
    BY <1>1, <1>3
  <2> QED BY <1>3, <2>1, <2>2
<1>8. new.ptr <= b.ptr /\ b.ptr + b.size <= new.ptr + new.size
  BY <1>1, <1>2, <1>3
<1>9. \A n \in N : n.ptr = b.ptr + b.size /\ n.ptr + n.size = new.ptr + new.size
  BY <1>1, <1>2, <1>3, <1>4
<1>10. \A p \in P : p.ptr + p.size = b.ptr /\ p.ptr = new.ptr
  BY <1>1, <1>3, <1>5
<1>11. new.ptr = b.ptr \/ \E c \in P : c.ptr = new.ptr /\ c.ptr + c.size = b.ptr
  BY <1>1, <1>3
<1>12. \/ new.ptr + new.size = b.ptr + b.size
       \/ \E c \in N : c.ptr = b.ptr + b.size /\ c.ptr + c.size = new.ptr + new.size
  BY <1>1, <1>2, <1>3, <1>9
<1>13. P \cup N \subseteq fl
  BY <1>1
<1>14. \A c \in fl : c.ptr = b.ptr + b.size \/ c.ptr + c.size = b.ptr => c \in P \cup N
  BY <1>1
<1> HIDE DEF N, P, new, w
<1> QED
  <2> WITNESS new
  <2> WITNESS P \cup N
  <2> QED BY <1>6, <1>7, <1>8, <1>9, <1>10, <1>11, <1>12, <1>13, <1>14

\* insert of a block that is clear of the free ones.
LEMMA Inserted ==
  ASSUME NEW fl, IsFreeList(fl), NEW b, Marked(b), \A c \in fl : Clear(b, c)
  PROVE  /\ IsFreeList(insert(fl, b))
         /\ \A a \in Int : (\E c \in insert(fl, b) : In(a, c)) <=> In(a, b) \/ \E c \in fl : In(a, c)
         /\ \A c \in insert(fl, b) : c.ptr = b.ptr \/ \E d \in fl : c.ptr = d.ptr
<1>1. PICK new, gone :
        /\ insert(fl, b) = (fl \ gone) \cup {new}
        /\ Marked(new) /\ gone \subseteq fl
        /\ new.ptr <= b.ptr /\ b.ptr + b.size <= new.ptr + new.size
        /\ \A c \in gone : \/ c.ptr = b.ptr + b.size /\ c.ptr + c.size = new.ptr + new.size
                           \/ c.ptr + c.size = b.ptr /\ c.ptr = new.ptr
        /\ new.ptr = b.ptr \/ \E c \in gone : c.ptr = new.ptr /\ c.ptr + c.size = b.ptr
        /\ \/ new.ptr + new.size = b.ptr + b.size
           \/ \E c \in gone : c.ptr = b.ptr + b.size /\ c.ptr + c.size = new.ptr + new.size
        /\ \A c \in fl : c.ptr = b.ptr + b.size \/ c.ptr + c.size = b.ptr => c \in gone
  BY Joins
<1> USE DEF IsFreeList, Marked, InPool, Clear, Block
<1>2. \A c \in fl \ gone : Clear(new, c)
  BY <1>1
<1>3. \A c \in fl \ gone : c.ptr + c.size # new.ptr /\ new.ptr + new.size # c.ptr
  BY <1>1
<1>4. new.ptr + new.size # new.ptr
  BY <1>1
<1>5. IsFreeList(insert(fl, b))
  BY <1>1, <1>2, <1>3, <1>4
<1>6. ASSUME NEW a \in Int
      PROVE  (\E c \in insert(fl, b) : In(a, c)) <=> In(a, b) \/ \E c \in fl : In(a, c)
  <2>1. ASSUME In(a, new) PROVE In(a, b) \/ \E c \in gone : In(a, c)
    BY <1>1, <2>1 DEF In
  <2>2. ASSUME In(a, b) PROVE In(a, new)
    BY <1>1, <2>2 DEF In
  <2>3. ASSUME NEW c \in gone, In(a, c) PROVE In(a, new)
    BY <1>1, <2>3 DEF In
  <2> QED BY <1>1, <2>1, <2>2, <2>3
<1>7. \A c \in insert(fl, b) : c.ptr = b.ptr \/ \E d \in fl : c.ptr = d.ptr
  BY <1>1
<1> QED BY <1>5, <1>6, <1>7

\* What is clear of the blocks before is clear of those after.
LEMMA StaysClear ==
  ASSUME NEW fl, IsFreeList(fl), NEW b, Marked(b), \A c \in fl : Clear(b, c),
         NEW h, h.ptr \in Nat, h.size \in Nat \ {0}, Clear(h, b), \A c \in fl : Clear(h, c)
  PROVE  \A c \in insert(fl, b) : Clear(h, c)
<1>1. SUFFICES ASSUME NEW c \in insert(fl, b), ~Clear(h, c) PROVE FALSE
  OBVIOUS
<1>2. Marked(c)
  BY Inserted DEF IsFreeList
<1>3. PICK a \in Int : In(a, h) /\ In(a, c)
  <2>1. h.ptr < c.ptr + c.size /\ c.ptr < h.ptr + h.size
    BY <1>1, <1>2 DEF Clear, Marked, InPool
  <2>2. c.ptr \in Nat /\ c.size \in Nat \ {0}
    BY <1>2 DEF Marked, InPool
  <2>3. CASE h.ptr <= c.ptr
    <3>1. In(c.ptr, h) /\ In(c.ptr, c)
      BY <2>1, <2>2, <2>3 DEF In
    <3> QED BY <2>2, <3>1
  <2>4. CASE c.ptr <= h.ptr
    <3>1. In(h.ptr, h) /\ In(h.ptr, c)
      BY <2>1, <2>2, <2>4 DEF In
    <3> QED BY <3>1
  <2> QED BY <2>2, <2>3, <2>4
<1>4. In(a, b) \/ \E d \in fl : In(a, d)
  BY <1>3, Inserted
<1> QED BY <1>3, <1>4 DEF In, Clear, IsFreeList, Marked, InPool

-----------------------------------------------------------------------------
\* The invariant.  Blocks are disjoint as intervals; what a buffer has is what it
\* asked for, rounded up, so that the same block comes back.

HeldWell ==
  \A x \in Holders :
    /\ InPool(held[x]) /\ held[x].ptr % Align = 0
    /\ held[x].asked \in Nat \ {0} /\ held[x].size = align_up(held[x].asked)

FreeWell == IsFreeList(free) /\ \A b \in free : b.ptr % Align = 0

Separate ==
  /\ \A x \in Holders : \A b \in free : Clear(held[x], b)
  /\ \A x, y \in Holders : x # y => Clear(held[x], held[y])

Filled ==
  up => \A a \in Space : (\E b \in free : In(a, b)) \/ \E x \in Holders : In(a, held[x])

Emptied == ~up => free = {} /\ Holders = {}

PoolInv == PoolTypeOK /\ HeldWell /\ FreeWell /\ Separate /\ Filled /\ Emptied

\* The constants, and the address of the pool.
LEMMA PoolFacts == Base \in Nat \ {0} /\ PoolSize \in Nat \ {0} /\ Align \in Nat \ {0} /\ Base % Align = 0
<1>1. Align \in Nat \ {0} /\ PoolSize \in Nat \ {0}
  BY SizesAssumption
<1>2. Align % Align = 0
  BY <1>1
<1> QED BY <1>1, <1>2 DEF Base

\* The whole pool as one free block.
LEMMA WholePool ==
  /\ IsFreeList({upstream_block}) /\ upstream_block.ptr % Align = 0
  /\ \A a \in Space : In(a, upstream_block)
<1>1. Marked(upstream_block)
  BY PoolFacts DEF Marked, Block, InPool, upstream_block
<1>2. upstream_block.ptr + upstream_block.size # upstream_block.ptr /\ upstream_block.ptr % Align = 0
  BY PoolFacts DEF upstream_block
<1>3. \A a \in Space : In(a, upstream_block)
  BY PoolFacts DEF Space, In, upstream_block
<1> QED BY <1>1, <1>2, <1>3 DEF IsFreeList

\* The invariant holds of the new pool (pool_memory_resource.hpp:56-67).
LEMMA InitPoolInv == PoolInit => PoolInv
<1> SUFFICES ASSUME PoolInit PROVE PoolInv
  OBVIOUS
<1>1. Holders = {} /\ free = {upstream_block} /\ up
  BY DEF PoolInit, Holders
<1>2. PoolTypeOK
  <2>1. upstream_block \in [ptr : Nat, size : Nat \ {0}, head : BOOLEAN]
    BY WholePool DEF IsFreeList, Marked, Block
  <2>2. held \in [Buffers -> [ptr : Nat, size : Nat, asked : Nat]]
    BY DEF PoolInit, Nothing
  <2>3. up \in BOOLEAN /\ stopped \in BOOLEAN
    BY DEF PoolInit
  <2> QED BY <1>1, <2>1, <2>2, <2>3 DEF PoolTypeOK
<1> QED BY <1>1, <1>2, WholePool DEF PoolInv, HeldWell, FreeWell, Separate, Filled, Emptied

-----------------------------------------------------------------------------
\* A buffer takes the first part of a free block, and the rest stays free.
LEMMA AllocatePoolInv ==
  ASSUME PoolInv, NEW x \in Buffers, allocate(x)
  PROVE  PoolInv'
<1> USE PoolFacts
<1>1. PICK n \in Sizes :
        /\ up /\ ~stopped /\ held[x] = Nothing /\ n > 0
        /\ \/ \E b \in get_block(free, align_up(n)) :
                /\ free' = allocate_and_insert_remainder(free, b, align_up(n))
                /\ held' = [held EXCEPT ![x] = [ptr |-> b.ptr, size |-> align_up(n), asked |-> n]]
                /\ UNCHANGED stopped
           \/ stopped' = TRUE /\ UNCHANGED <<free, held>>
        /\ UNCHANGED up
  BY Zenon DEF allocate
<1>2. CASE stopped' = TRUE /\ UNCHANGED <<free, held>>
  BY <1>1, <1>2 DEF PoolInv, PoolTypeOK, HeldWell, FreeWell, Separate, Filled, Emptied, Holders
<1>3. CASE \E b \in get_block(free, align_up(n)) :
             /\ free' = allocate_and_insert_remainder(free, b, align_up(n))
             /\ held' = [held EXCEPT ![x] = [ptr |-> b.ptr, size |-> align_up(n), asked |-> n]]
             /\ UNCHANGED stopped
  <2> DEFINE size == align_up(n)
  <2>1. PICK b \in get_block(free, size) :
          /\ free' = allocate_and_insert_remainder(free, b, size)
          /\ held' = [held EXCEPT ![x] = [ptr |-> b.ptr, size |-> size, asked |-> n]]
          /\ UNCHANGED stopped
    BY <1>3
  <2>2. n \in Nat \ {0} /\ size \in Nat \ {0}
    BY <1>1, SizesAssumption, AlignUp
  <2>3. b \in free /\ b.size >= size /\ Marked(b) /\ b.ptr % Align = 0
    BY DEF get_block, fits, PoolInv, FreeWell, IsFreeList
  <2> DEFINE h == held'[x]
  <2>4. /\ h = [ptr |-> b.ptr, size |-> size, asked |-> n]
        /\ \A y \in Buffers : y # x => held'[y] = held[y]
    BY <2>1 DEF PoolInv, PoolTypeOK
  <2>5. Holders' = Holders \cup {x} /\ x \notin Holders
    <3>1. h # Nothing
      BY <2>3, <2>4 DEF Nothing, Marked, InPool
    <3> QED BY <1>1, <2>4, <3>1 DEF Holders
  <2>6. h.ptr \in Nat /\ h.size \in Nat \ {0} /\ InPool(h) /\ h.ptr = b.ptr /\ h.size = size
    BY <2>2, <2>3, <2>4 DEF InPool, Marked
  <2> HIDE DEF size, h
  <2>7. IsFreeList(free \ {b}) /\ \A c \in free \ {b} : Clear(b, c)
    BY <2>3 DEF PoolInv, FreeWell, IsFreeList
  <2>8. \A c \in free \ {b} : Clear(h, c)
    BY <2>2, <2>3, <2>6, <2>7 DEF Clear, IsFreeList, Marked, InPool
  <2>9. /\ IsFreeList(free') /\ (\A c \in free' : c.ptr % Align = 0)
        /\ \A c \in free' : Clear(h, c)
        /\ \A y \in Holders : \A c \in free' : Clear(held[y], c)
        /\ \A a \in Int : (\E c \in free : In(a, c)) => In(a, h) \/ \E c \in free' : In(a, c)
    <3>1. CASE b.size = size
      <4>1. free' = free \ {b}
        BY <2>1, <2>2, <3>1 DEF allocate_and_insert_remainder
      <4>2. \A a \in Int : In(a, b) => In(a, h)
        BY <2>2, <2>3, <2>6, <3>1 DEF In, Marked, InPool
      <4> QED BY <2>7, <2>8, <4>1, <4>2 DEF PoolInv, FreeWell, Separate
    <3>2. CASE b.size > size
      <4> DEFINE r == rest(b, size)
                 fl == free \ {b}
      <4>1. free' = insert(fl, r)
        BY <2>1, <3>2 DEF allocate_and_insert_remainder
      <4>2. r.ptr = b.ptr + size /\ r.size = b.size - size /\ Marked(r)
        BY <2>2, <2>3, <3>2 DEF rest, Marked, InPool, Block
      <4>3. r.ptr % Align = 0
        <5>1. n \in Nat /\ b.ptr \in Nat /\ b.ptr % Align = 0
          BY <2>2, <2>3 DEF Marked, InPool
        <5>2. (b.ptr + align_up(n)) % Align = 0
          BY <5>1, AlignedSizes
        <5>3. r.ptr = b.ptr + align_up(n)
          BY <4>2 DEF size
        <5> QED BY <5>2, <5>3
      <4> HIDE DEF r, fl
      <4>4. IsFreeList(fl) /\ \A c \in fl : Clear(r, c)
        BY <2>2, <2>3, <2>7, <4>2 DEF fl, Clear, IsFreeList, Marked, InPool
      <4>5. Clear(h, r)
        BY <2>6, <4>2 DEF Clear
      <4>6. \A c \in insert(fl, r) : Clear(h, c)
        BY <2>6, <2>8, <4>2, <4>4, <4>5, StaysClear DEF fl
      <4>7. ASSUME NEW y \in Holders
            PROVE  \A c \in insert(fl, r) : Clear(held[y], c)
        <5>1. /\ held[y].ptr \in Nat /\ held[y].size \in Nat \ {0}
              /\ \A c \in free : Clear(held[y], c)
          BY DEF PoolInv, HeldWell, InPool, Separate
        <5>2. Clear(held[y], r)
          BY <2>2, <2>3, <4>2, <5>1 DEF Clear, Marked, InPool
        <5>3. \A c \in fl : Clear(held[y], c)
          BY <5>1 DEF fl
        <5> QED BY <4>2, <4>4, <5>1, <5>2, <5>3, StaysClear
      <4>8. \A c \in insert(fl, r) : c.ptr % Align = 0
        BY <4>2, <4>3, <4>4, Inserted DEF fl, PoolInv, FreeWell
      <4>9. ASSUME NEW a \in Int, NEW c \in free, In(a, c)
            PROVE  In(a, h) \/ \E d \in insert(fl, r) : In(a, d)
        <5>1. In(a, b) => In(a, h) \/ In(a, r)
          BY <2>2, <2>3, <2>6, <4>2 DEF In, Marked, InPool
        <5>2. In(a, h) \/ In(a, r) \/ \E d \in fl : In(a, d)
          BY <4>9, <5>1 DEF fl
        <5> QED BY <4>2, <4>4, <5>2, Inserted
      <4> QED BY <4>1, <4>2, <4>4, <4>6, <4>7, <4>8, <4>9, Inserted
    <3> QED BY <2>2, <2>3, <3>1, <3>2 DEF Marked, InPool
  <2>10. PoolTypeOK'
    BY <1>1, <2>1, <2>2, <2>3, <2>9 DEF PoolInv, PoolTypeOK, IsFreeList, Marked, Block
  <2>11. HeldWell'
    <3>1. h.asked = n /\ h.size = align_up(n) /\ h.ptr % Align = 0
      BY <2>3, <2>4, <2>6 DEF size
    <3>2. \A y \in Holders : held'[y] = held[y]
      BY <2>4, <2>5 DEF Holders
    <3>3. /\ InPool(held'[x]) /\ held'[x].ptr % Align = 0
          /\ held'[x].asked \in Nat \ {0} /\ held'[x].size = align_up(held'[x].asked)
      BY <2>2, <2>6, <3>1 DEF h
    <3>4. \A y \in Holders :
            /\ InPool(held'[y]) /\ held'[y].ptr % Align = 0
            /\ held'[y].asked \in Nat \ {0} /\ held'[y].size = align_up(held'[y].asked)
      BY <3>2 DEF PoolInv, HeldWell
    <3>5. \A y \in Holders' :
            /\ InPool(held'[y]) /\ held'[y].ptr % Align = 0
            /\ held'[y].asked \in Nat \ {0} /\ held'[y].size = align_up(held'[y].asked)
      BY <2>5, <3>3, <3>4
    <3> QED BY <3>5, Zenon DEF HeldWell, InPool, align_up
  <2>12. Separate'
    <3>1. \A y \in Holders : Clear(held[y], h) /\ Clear(h, held[y])
      BY <2>2, <2>3, <2>6 DEF PoolInv, HeldWell, Separate, Clear, InPool, Marked
    <3>2. \A y \in Holders : held'[y] = held[y]
      BY <2>4, <2>5 DEF Holders
    <3> QED BY <2>5, <2>9, <3>1, <3>2 DEF PoolInv, Separate, h
  <2>13. Filled'
    <3>1. \A y \in Holders : held'[y] = held[y]
      BY <2>4, <2>5 DEF Holders
    <3>2. \A a \in Space : a \in Int
      BY DEF Space
    <3> QED BY <1>1, <2>5, <2>9, <3>1, <3>2 DEF PoolInv, Filled, h
  <2> QED BY <1>1, <2>9, <2>10, <2>11, <2>12, <2>13 DEF PoolInv, FreeWell, Emptied
<1> QED BY <1>1, <1>2, <1>3

\* A block that comes back is the one that was handed out.
LEMMA DeallocatePoolInv ==
  ASSUME PoolInv, NEW x \in Buffers, deallocate(x)
  PROVE  PoolInv'
<1> USE PoolFacts
<1> DEFINE h == held[x]
           b == free_block(h.ptr, align_up(h.asked))
<1>1. /\ up /\ held[x] # Nothing /\ x \in Holders
      /\ free' = insert(free, b) /\ held' = [held EXCEPT ![x] = Nothing]
      /\ UNCHANGED <<up, stopped>>
  BY DEF deallocate, Holders
<1>2. /\ b.ptr = h.ptr /\ b.size = h.size /\ Marked(b) /\ b.ptr % Align = 0
      /\ InPool(h) /\ h.size \in Nat \ {0} /\ h.ptr \in Nat
  BY <1>1 DEF free_block, PoolInv, HeldWell, InPool, Marked, Block
<1>3. Holders' = Holders \ {x} /\ \A y \in Holders' : held'[y] = held[y]
  BY <1>1 DEF PoolInv, PoolTypeOK, Holders
<1> HIDE DEF b
<1>4. \A c \in free : Clear(b, c)
  BY <1>1, <1>2 DEF PoolInv, Separate, Clear
<1>5. IsFreeList(free)
  BY DEF PoolInv, FreeWell
<1>6. IsFreeList(insert(free, b)) /\ \A c \in insert(free, b) : c.ptr % Align = 0
  BY <1>2, <1>4, <1>5, Inserted DEF PoolInv, FreeWell
<1>7. ASSUME NEW y \in Holders', NEW c \in insert(free, b)
      PROVE  Clear(held'[y], c)
  <2>1. /\ held[y].ptr \in Nat /\ held[y].size \in Nat \ {0} /\ held'[y] = held[y]
        /\ \A d \in free : Clear(held[y], d)
    BY <1>3 DEF PoolInv, HeldWell, InPool, Separate
  <2>2. Clear(held[y], b)
    BY <1>1, <1>2, <1>3 DEF PoolInv, Separate, Clear
  <2> QED BY <1>2, <1>4, <1>5, <2>1, <2>2, StaysClear
<1>8. PoolTypeOK'
  <2>1. free' \subseteq [ptr : Nat, size : Nat \ {0}, head : BOOLEAN]
    BY <1>1, <1>6 DEF IsFreeList, Marked, Block
  <2>2. Nothing \in [ptr : Nat, size : Nat, asked : Nat]
    BY DEF Nothing
  <2> QED BY <1>1, <2>1, <2>2 DEF PoolInv, PoolTypeOK
<1>9. HeldWell'
  <2>1. \A y \in Holders' :
          /\ InPool(held'[y]) /\ held'[y].ptr % Align = 0
          /\ held'[y].asked \in Nat \ {0} /\ held'[y].size = align_up(held'[y].asked)
    BY <1>3 DEF PoolInv, HeldWell
  <2> QED BY <2>1, Zenon DEF HeldWell, InPool, align_up
<1>10. Separate'
  <2>1. \A y, z \in Holders' : y # z => Clear(held'[y], held'[z])
    BY <1>3 DEF PoolInv, Separate
  <2> QED BY <1>1, <1>7, <2>1, Zenon DEF Separate, Clear
<1>11. Filled'
  <2>1. ASSUME NEW a \in Space
        PROVE  (\E c \in insert(free, b) : In(a, c)) \/ \E y \in Holders' : In(a, held'[y])
    <3>1. a \in Int
      BY DEF Space
    <3>2. In(a, h) => In(a, b)
      BY <1>2 DEF In
    <3>3. (\E c \in free : In(a, c)) \/ \E y \in Holders : In(a, held[y])
      BY <1>1 DEF PoolInv, Filled
    <3>4. (\E c \in insert(free, b) : In(a, c)) <=> In(a, b) \/ \E c \in free : In(a, c)
      BY <1>2, <1>4, <1>5, <3>1, Inserted
    <3> QED BY <1>3, <3>2, <3>3, <3>4
  <2> QED BY <1>1, <2>1, Zenon DEF Filled, In, Space, Base
<1> QED BY <1>1, <1>6, <1>8, <1>9, <1>10, <1>11 DEF PoolInv, FreeWell, Emptied

\* Every call of the pool keeps the invariant.
LEMMA NextPoolInv == PoolInv /\ [PoolNext]_poolVars => PoolInv'
<1> SUFFICES ASSUME PoolInv, [PoolNext]_poolVars PROVE PoolInv'
  OBVIOUS
<1>1. ASSUME NEW x \in Buffers, allocate(x) PROVE PoolInv'
  BY <1>1, AllocatePoolInv
<1>2. ASSUME NEW x \in Buffers, deallocate(x) PROVE PoolInv'
  BY <1>2, DeallocatePoolInv
<1>3. CASE reset
  <2>1. Holders = {} /\ Holders' = {}
    BY <1>3 DEF reset, Holders
  <2> QED BY <1>3, <2>1
          DEF reset, PoolInv, PoolTypeOK, HeldWell, FreeWell, IsFreeList, Separate, Filled, Emptied
<1>4. CASE initialize
  <2>1. Holders' = {}
    BY <1>4 DEF initialize, PoolInv, Emptied, Holders
  <2>2. PoolTypeOK'
    BY <1>4, WholePool DEF initialize, PoolInv, PoolTypeOK, IsFreeList, Marked, Block
  <2> QED BY <1>4, <2>1, <2>2, WholePool
          DEF initialize, PoolInv, HeldWell, FreeWell, Separate, Filled, Emptied
<1>5. CASE UNCHANGED poolVars
  BY <1>5 DEF poolVars, PoolInv, PoolTypeOK, HeldWell, FreeWell, Separate, Filled, Emptied, Holders
<1> QED BY <1>1, <1>2, <1>3, <1>4, <1>5 DEF PoolNext

\* The invariant always holds.
LEMMA PoolInvariance == PoolSpec => []PoolInv
  BY InitPoolInv, NextPoolInv, PTL DEF PoolSpec

\* Every state of the pool is of its type.
THEOREM PoolTypeCorrect == PoolSpec => []PoolTypeOK
<1>1. PoolInv => PoolTypeOK
  BY DEF PoolInv
<1> QED BY <1>1, PoolInvariance, PTL

\* No two free blocks are ever neighbours, whatever is allocated and returned
\* (coalescing_free_list.hpp:146-171).
THEOREM JoinedAlways == PoolSpec => []Joined
<1>1. PoolInv => Joined
  BY DEF PoolInv, FreeWell, IsFreeList, Joined
<1> QED BY <1>1, PoolInvariance, PTL

\* Blocks that are clear of each other share no address.
LEMMA ClearExtents ==
  ASSUME NEW b, b.ptr \in Nat, b.size \in Nat, NEW c, c.ptr \in Nat, c.size \in Nat, Clear(b, c)
  PROVE  Extent(b) \cap Extent(c) = {}
  BY DEF Clear, Extent

\* An address is in the extent of a block when it is in the block.
LEMMA ExtentIn ==
  ASSUME NEW b, b.ptr \in Nat, b.size \in Nat
  PROVE  \A a : a \in Extent(b) <=> a \in Int /\ In(a, b)
  BY DEF Extent, In

\* What is free and what is held, together, are the pool.
LEMMA Whole ==
  ASSUME PoolInv, up
  PROVE  Space = (UNION {Extent(b) : b \in free}) \cup UNION {Owned(x) : x \in Buffers}
<1>1. \A b \in free : InPool(b)
  BY DEF PoolInv, FreeWell, IsFreeList, Marked
<1>2. \A x \in Holders : InPool(held[x]) /\ Owned(x) = Extent(held[x])
  BY DEF PoolInv, HeldWell, Owned, Holders
<1>3. \A x \in Buffers : x \notin Holders => Owned(x) = {}
  BY DEF Owned, Holders
<1>4. \A b : InPool(b) => Extent(b) \subseteq Space
  BY PoolFacts DEF InPool, Extent, Space
<1>5. ASSUME NEW a \in Space
      PROVE  (\E b \in free : a \in Extent(b)) \/ \E x \in Holders : a \in Extent(held[x])
  <2>1. a \in Int /\ ((\E b \in free : In(a, b)) \/ \E x \in Holders : In(a, held[x]))
    BY DEF PoolInv, Filled, Space
  <2>2. \A b : InPool(b) /\ In(a, b) => a \in Extent(b)
    BY <2>1, ExtentIn DEF InPool
  <2> QED BY <1>1, <1>2, <2>1, <2>2
<1>6. Holders \subseteq Buffers
  BY DEF Holders
<1>7. ASSUME NEW a \in Space
      PROVE  (\E b \in free : a \in Extent(b)) \/ \E x \in Buffers : a \in Owned(x)
  BY <1>2, <1>5, <1>6
<1>8. \A b \in free : Extent(b) \subseteq Space
  BY <1>1, <1>4
<1>9. \A x \in Buffers : Owned(x) \subseteq Space
  BY <1>2, <1>3, <1>4
<1> QED BY <1>7, <1>8, <1>9

\* Blocks never overlap, together they are the whole pool, and every buffer is
\* aligned and long enough (pool_memory_resource.hpp:155-175, aligned.hpp:48-51).
THEOREM NothingLostAlways == PoolSpec => []NothingLost
<1>1. ASSUME PoolInv PROVE NothingLost
  <2>1. \A b \in free : b.ptr \in Nat /\ b.size \in Nat
    BY <1>1 DEF PoolInv, FreeWell, IsFreeList, Marked, InPool
  <2>2. \A x \in Holders : held[x].ptr \in Nat /\ held[x].size \in Nat
    BY <1>1 DEF PoolInv, HeldWell, InPool
  <2>3. /\ \A a, b \in free : a # b => Clear(a, b)
        /\ \A x \in Holders, b \in free : Clear(held[x], b)
        /\ \A x, y \in Holders : x # y => Clear(held[x], held[y])
    BY <1>1 DEF PoolInv, FreeWell, IsFreeList, Separate
  <2>4. Disjoint
    BY <2>1, <2>2, <2>3, ClearExtents DEF Disjoint
  <2>5. Covered
    BY <1>1, Whole DEF Covered
  <2>6. Aligned
    <3>1. \A x \in Holders : held[x].ptr % Align = 0 /\ held[x].size >= held[x].asked
      BY <1>1, AlignUp DEF PoolInv, HeldWell
    <3> QED BY <1>1, <3>1 DEF Aligned, PoolInv, FreeWell
  <2> QED BY <2>4, <2>5, <2>6 DEF NothingLost
<1>2. PoolInv => NothingLost
  BY <1>1
<1> QED BY <1>2, PoolInvariance, PTL

-----------------------------------------------------------------------------
\* The pool is a heap.

\* The least number, from the order of finite sets: the intervals 0 .. k.
LEMMA LeastNumber ==
  ASSUME NEW T, T \subseteq Nat, T # {}
  PROVE  \E k \in T : \A m \in T : k <= m
<1> DEFINE I == {0 .. k : k \in T}
           R == StrictSubsetOrdering(Nat)
<1>1. IsWellFoundedOn(R, FiniteSubsetsOf(Nat))
  BY FS_StrictSubsetOrderingWellFounded
<1>2. \A k \in T : IsFiniteSet(0 .. k) /\ 0 .. k \in SUBSET Nat
  BY FS_Interval
<1>3. I \subseteq FiniteSubsetsOf(Nat) /\ I # {}
  BY <1>2 DEF FiniteSubsetsOf
<1>4. \E x \in I : \A y \in I : ~ (<<y, x>> \in R)
  <2> HIDE DEF I, R
  <2> QED BY <1>1, <1>3, WFMin
<1>5. PICK k \in T : \A y \in I : ~ (<<y, 0 .. k>> \in R)
  BY <1>4
<1>6. ASSUME NEW m \in T, m < k PROVE FALSE
  <2>1. 0 .. m \subseteq 0 .. k /\ k \in 0 .. k /\ k \notin 0 .. m
    BY <1>6
  <2>2. <<0 .. m, 0 .. k>> \in R
    BY <1>2, <2>1 DEF StrictSubsetOrdering
  <2> QED BY <1>5, <2>2
<1> QED BY <1>6

\* Best fit finds a block whenever some block fits.
LEMMA FindsOne ==
  ASSUME NEW fl, fl \subseteq Block, NEW n, NEW c \in fl, fits(c, n)
  PROVE  get_block(fl, n) # {}
<1> DEFINE F == {b \in fl : fits(b, n)}
           S == {b.size : b \in F}
<1>2. S \subseteq Nat /\ S # {}
  BY DEF Block
<1>3. PICK s \in S : \A m \in S : s <= m
  BY <1>2, LeastNumber
<1> DEFINE P == {b.ptr : b \in {d \in F : d.size = s}}
<1>4. P \subseteq Nat /\ P # {}
  BY DEF Block
<1>5. PICK p \in P : \A m \in P : p <= m
  BY <1>4, LeastNumber
<1>6. PICK b \in F : b.size = s /\ b.ptr = p
  OBVIOUS
<1>7. \A d \in F : b.size < d.size \/ (b.size = d.size /\ b.ptr <= d.ptr)
  BY <1>2, <1>3, <1>5, <1>6
<1> QED BY <1>6, <1>7 DEF get_block, is_better_fit

\* A run of free addresses lies in one free block, as no two are neighbours.
LEMMA RunInBlock ==
  ASSUME PoolInv, NEW p \in Nat, NEW n \in Nat \ {0},
         \A a \in p .. p + n - 1 : \E b \in free : In(a, b)
  PROVE  \E b \in free : fits(b, n)
<1> USE DEF PoolInv, FreeWell, IsFreeList, Marked, InPool
<1>1. PICK b \in free : In(p, b)
  OBVIOUS
<1>2. CASE p + n <= b.ptr + b.size
  BY <1>1, <1>2 DEF In, fits
<1>3. CASE b.ptr + b.size < p + n
  <2>1. b.ptr + b.size \in p .. p + n - 1
    BY <1>1, <1>3 DEF In
  <2>2. PICK c \in free : In(b.ptr + b.size, c)
    BY <2>1
  <2>3. c # b /\ b.ptr + b.size # c.ptr
    BY <2>2 DEF In
  <2>4. Clear(b, c)
    BY <2>3
  <2> QED BY <2>2, <2>3, <2>4 DEF Clear, In
<1> QED BY <1>1, <1>2, <1>3

\* What is held and asked for, in the terms of Heap.
HeapOwned == [x \in Buffers |-> Owned(x)]

\* A call that changes nobody's buffer leaves the heap as it is.
LEMMA SameOwned ==
  ASSUME UNCHANGED held
  PROVE  UNCHANGED HeapOwned
  BY DEF HeapOwned, Owned

\* A free block has room for a buffer at its beginning.
LEMMA HoleOfBlock ==
  ASSUME PoolInv, up, NEW b \in free, NEW n \in Nat \ {0}, fits(b, n)
  PROVE  b.ptr \in Space /\ Abstract!IsHole(b.ptr, n)
<1>1. InPool(b)
  BY DEF PoolInv, FreeWell, IsFreeList, Marked
<1>2. b.ptr .. b.ptr + n - 1 \subseteq Extent(b) /\ Extent(b) \subseteq Space
  BY <1>1, PoolFacts DEF fits, Extent, InPool, Space
<1>3. ASSUME NEW x \in Buffers
      PROVE  Extent(b) \cap Owned(x) = {}
  <2>1. CASE x \in Holders
    <3>1. Owned(x) = Extent(held[x])
      BY <2>1 DEF Owned, Holders
    <3>2. InPool(held[x]) /\ Clear(held[x], b)
      BY <2>1 DEF PoolInv, HeldWell, Separate
    <3> QED BY <1>1, <3>1, <3>2, ClearExtents DEF InPool
  <2>2. CASE x \notin Holders
    BY <2>2 DEF Owned, Holders
  <2> QED BY <2>1, <2>2
<1>4. b.ptr \in Space
  BY <1>1, PoolFacts DEF InPool, Space
<1> QED BY <1>2, <1>3, <1>4 DEF Abstract!IsHole, Abstract!Run, Abstract!Used

\* A hole of the heap lies in a free block.
LEMMA BlockOfHole ==
  ASSUME PoolInv, up, NEW p \in Space, NEW n \in Nat \ {0}, Abstract!IsHole(p, n)
  PROVE  \E b \in free : fits(b, n)
<1>1. p \in Nat
  BY PoolFacts DEF Space
<1>2. ASSUME NEW a \in p .. p + n - 1
      PROVE  \E b \in free : In(a, b)
  <2>1. a \in Space /\ \A x \in Buffers : a \notin Owned(x)
    BY DEF Abstract!IsHole, Abstract!Run, Abstract!Used
  <2>2. a \in Int /\ ((\E b \in free : In(a, b)) \/ \E x \in Holders : In(a, held[x]))
    BY <2>1 DEF PoolInv, Filled, Space
  <2>3. ASSUME NEW x \in Holders, In(a, held[x]) PROVE FALSE
    <3>1. InPool(held[x]) /\ x \in Buffers /\ Owned(x) = Extent(held[x])
      BY DEF PoolInv, HeldWell, Owned, Holders
    <3> QED BY <2>1, <2>2, <2>3, <3>1, ExtentIn DEF InPool
  <2> QED BY <2>2, <2>3
<1> QED BY <1>1, <1>2, RunInBlock

\* allocate takes a hole, or is refused when there is none.
LEMMA AllocateIsHeap ==
  ASSUME PoolInv, NEW x \in Buffers, allocate(x)
  PROVE  Abstract!Take(x) \/ Abstract!Refuse
<1>1. PICK n \in Sizes :
        /\ up /\ ~stopped /\ held[x] = Nothing /\ n > 0
        /\ \/ \E b \in get_block(free, align_up(n)) :
                /\ held' = [held EXCEPT ![x] = [ptr |-> b.ptr, size |-> align_up(n), asked |-> n]]
                /\ UNCHANGED stopped
           \/ /\ get_block(free, align_up(n)) = {}
              /\ stopped' = TRUE /\ UNCHANGED <<free, held>>
  BY Zenon DEF allocate
<1> DEFINE size == align_up(n)
<1>2. n \in Nat \ {0} /\ size \in Nat \ {0} /\ size \in {align_up(m) : m \in Sizes \ {0}}
  BY <1>1, SizesAssumption, AlignUp
<1> HIDE DEF size
<1>3. CASE \E b \in get_block(free, size) :
             /\ held' = [held EXCEPT ![x] = [ptr |-> b.ptr, size |-> size, asked |-> n]]
             /\ UNCHANGED stopped
  <2>1. PICK b \in get_block(free, size) :
          /\ held' = [held EXCEPT ![x] = [ptr |-> b.ptr, size |-> size, asked |-> n]]
          /\ UNCHANGED stopped
    BY <1>3
  <2>2. b \in free /\ fits(b, size)
    BY DEF get_block
  <2>3. b.ptr \in Space /\ Abstract!IsHole(b.ptr, size)
    BY <1>1, <1>2, <2>2, HoleOfBlock
  <2>4. /\ held'[x] = [ptr |-> b.ptr, size |-> size, asked |-> n]
        /\ \A y \in Buffers : y # x => held'[y] = held[y]
    BY <2>1 DEF PoolInv, PoolTypeOK
  <2>5. held'[x] # Nothing
    BY <1>2, <2>4 DEF Nothing
  <2>6. (Owned(x))' = b.ptr .. b.ptr + size - 1
    BY <2>4, <2>5 DEF Owned, Extent
  <2>7. \A y \in Buffers : y # x => (Owned(y))' = Owned(y)
    BY <2>4 DEF Owned, Extent
  <2>8. HeapOwned' = [HeapOwned EXCEPT ![x] = Abstract!Run(b.ptr, size)]
    BY <2>6, <2>7 DEF HeapOwned, Abstract!Run
  <2>9. HeapOwned[x] = {}
    BY <1>1 DEF HeapOwned, Owned
  <2>10. Abstract!Take(x)
    BY <1>1, <1>2, <2>1, <2>3, <2>8, <2>9, Zenon DEF Abstract!Take, HeapOwned
  <2> QED BY <2>10
<1>4. CASE get_block(free, size) = {} /\ stopped' = TRUE /\ UNCHANGED <<free, held>>
  <2>1. ASSUME NEW p \in Space, Abstract!IsHole(p, size) PROVE FALSE
    <3>1. PICK b \in free : fits(b, size)
      BY <1>1, <1>2, <2>1, BlockOfHole
    <3>2. free \subseteq Block
      BY DEF PoolInv, FreeWell, IsFreeList, Marked
    <3> QED BY <1>4, <3>1, <3>2, FindsOne
  <2>2. UNCHANGED HeapOwned
    BY <1>4, SameOwned
  <2>3. Abstract!Refuse
    BY <1>2, <1>4, <2>1, <2>2, Zenon DEF Abstract!Refuse, HeapOwned
  <2> QED BY <2>3
<1> QED BY <1>1, <1>3, <1>4 DEF size

\* deallocate gives the addresses of the buffer back.
LEMMA DeallocateIsHeap ==
  ASSUME PoolInv, NEW x \in Buffers, deallocate(x)
  PROVE  Abstract!Give(x)
<1>1. /\ held'[x] = Nothing /\ \A y \in Buffers : y # x => held'[y] = held[y]
      /\ ~stopped /\ UNCHANGED stopped
  BY DEF deallocate, PoolInv, PoolTypeOK
<1>2. (Owned(x))' = {} /\ \A y \in Buffers : y # x => (Owned(y))' = Owned(y)
  BY <1>1 DEF Owned, Extent
<1>3. HeapOwned' = [HeapOwned EXCEPT ![x] = {}]
  BY <1>2 DEF HeapOwned
<1> QED BY <1>1, <1>3, Zenon DEF Abstract!Give, HeapOwned

\* The pool implements the heap: no buffer is handed out twice, and an allocation
\* fails only when no free part of the pool is long enough
\* (pool_memory_resource.hpp:129-175, coalescing_free_list.hpp:194-209).
THEOREM HeapRefined == PoolSpec => HeapSpec
<1>1. PoolInit => Abstract!HeapInit
  BY DEF PoolInit, Abstract!HeapInit, Owned
<1>2. ASSUME PoolInv, [PoolNext]_poolVars
      PROVE  [Abstract!HeapNext]_<<HeapOwned, stopped>>
  <2>1. ASSUME NEW x \in Buffers, allocate(x) PROVE Abstract!HeapNext
    BY <1>2, <2>1, AllocateIsHeap DEF Abstract!HeapNext
  <2>2. ASSUME NEW x \in Buffers, deallocate(x) PROVE Abstract!HeapNext
    BY <1>2, <2>2, DeallocateIsHeap DEF Abstract!HeapNext
  <2>3. CASE reset \/ initialize \/ UNCHANGED poolVars
    BY <2>3, SameOwned DEF reset, initialize, poolVars
  <2> QED BY <1>2, <2>1, <2>2, <2>3 DEF PoolNext
<1>3. PoolInv /\ [PoolNext]_poolVars => [Abstract!HeapNext]_<<[x \in Buffers |-> Owned(x)], stopped>>
  BY <1>2 DEF HeapOwned
<1> QED BY <1>1, <1>3, PoolInvariance, PTL DEF PoolSpec, HeapSpec, Abstract!HeapSpec

-----------------------------------------------------------------------------
(***************************************************************************)
(* The memory of tensors.                                                  *)
(***************************************************************************)

\* An address is counted once more in registered than in unregistered as long
\* as a region is there, and never otherwise.
Accounting(r) ==
  \A a \in Addresses :
    registered[r][a] + result[r][a]
      = unregistered[r][a] + (IF region[r][a] = "none" THEN 0 ELSE 1)

\* The vectors outside a flush and in it; what a flush has registered again is
\* in use.
Phases(r) ==
  /\ pc[r] = "user" => \A a \in Addresses : result[r][a] = 0
  /\ pc[r] = "flush" => \A a \in Addresses :
       unregistered[r][a] = 0 /\ (registered[r][a] > 0 => region[r][a] = "created")

\* A tensor and its region have each other's address; a region without a tensor
\* is orphaned.
Ownership(r) ==
  /\ \A t \in Tensors : mpb[r][t] # nullptr =>
       /\ status[t] = "created" /\ t \notin Dense
       /\ region[r][mpb[r][t]] = "created" /\ owner[r][mpb[r][t]] = t
  /\ \A a \in Addresses : region[r][a] = "created" =>
       owner[r][a] \in Tensors /\ mpb[r][owner[r][a]] = a
  /\ \A a \in Addresses : region[r][a] = "orphaned" =>
       owner[r][a] \in Tensors \ Dense /\ status[owner[r][a]] = "gone"

\* Whose memory there is.
Memory(r) ==
  /\ \A t \in Tensors : status[t] = "created" =>
       t \in memory[r] /\ (t \notin Dense => mpb[r][t] # nullptr)
  /\ \A t \in memory[r] : \/ status[t] = "created" \/ t \in Dense
                          \/ \E a \in Addresses : region[r][a] = "orphaned" /\ owner[r][a] = t

\* The types of what a rank has.
RankOK(r) ==
  /\ mpb[r] \in [Tensors -> Addresses \cup {nullptr}]
  /\ region[r] \in [Addresses -> {"none", "created", "orphaned"}]
  /\ owner[r] \in [Addresses -> Tensors \cup {nullptr}]
  /\ memory[r] \in SUBSET Tensors
  /\ registered[r] \in [Addresses -> Nat]
  /\ unregistered[r] \in [Addresses -> Nat]
  /\ result[r] \in [Addresses -> Nat]
  /\ pc[r] \in {"user", "flush"}

\* What is so on a rank by itself.
RankInv(r) == Accounting(r) /\ Phases(r) /\ Ownership(r) /\ Memory(r)

\* The tensors whose memory a flush may not free.
Kept(r) == {t \in memory[r] : status[t] # "gone" \/ t \in Dense}

\* What ranks have in common: a flush frees what may go, all of it on a rank that
\* is done, and nothing else on one that is not.
Agreement ==
  \A q, r \in Ranks :
    /\ Kept(q) = Kept(r)
    /\ pc[q] = "user" /\ pc[r] = "user" => memory[q] = memory[r]
    /\ pc[q] = "user" /\ pc[r] = "flush" => memory[q] = Kept(q)

IInv == TypeOK /\ (\A r \in Ranks : RankInv(r)) /\ Agreement

-----------------------------------------------------------------------------

\* The multiset difference of natural counts has natural counts.
LEMMA DifferenceType ==
  ASSUME NEW m \in [Addresses -> Nat], NEW n \in [Addresses -> Nat]
  PROVE  /\ Difference(m, n) \in [Addresses -> Nat]
         /\ \A a \in Addresses : Difference(m, n)[a] = IF m[a] > n[a] THEN m[a] - n[a] ELSE 0
BY DEF Difference

\* A count stays natural when it goes up.
LEMMA CountUp ==
  ASSUME NEW f \in [Addresses -> Nat], NEW x \in Addresses
  PROVE  [f EXCEPT ![x] = @ + 1] \in [Addresses -> Nat]
<1>1. f[x] + 1 \in Nat  OBVIOUS
<1> QED  BY <1>1

\* ... and when it goes down from above zero.
LEMMA CountDown ==
  ASSUME NEW f \in [Addresses -> Nat], NEW x \in Addresses, f[x] > 0
  PROVE  [f EXCEPT ![x] = @ - 1] \in [Addresses -> Nat]
<1>1. f[x] - 1 \in Nat  OBVIOUS
<1> QED  BY <1>1

LEMMA RankTypes ==
  ASSUME TypeOK, NEW r \in Ranks
  PROVE  RankOK(r)
BY DEF TypeOK, RankOK

\* The invariant holds at the start.
LEMMA InitIInv == Init => IInv
<1> SUFFICES ASSUME Init PROVE IInv  OBVIOUS
<1>1. TypeOK  BY DEF Init, TypeOK
<1>2. ASSUME NEW r \in Ranks PROVE RankInv(r)
  BY MemoryAssumption DEF Init, RankInv, Accounting, Phases, Ownership, Memory
<1>3. Agreement  BY DEF Init, Agreement, Kept
<1> QED  BY <1>1, <1>2, <1>3 DEF IInv

\* When all ranks leave the step with the same memory, they agree.
LEMMA SameIsAgreement ==
  ASSUME TypeOK, InProgram, pc' = pc, \A q, r \in Ranks : memory'[q] = memory'[r]
  PROVE  Agreement'
BY DEF Agreement, Kept, InProgram, TypeOK

\* Before an operation of the program all ranks have the same memory.
LEMMA ProgramIsSame ==
  ASSUME IInv, InProgram
  PROVE  \A q, r \in Ranks : memory[q] = memory[r]
BY DEF IInv, Agreement, InProgram

\* A new region, at an address where there is none, keeps the invariant.
LEMMA AllocateKeeps ==
  ASSUME IInv, NEW t \in Tensors, NEW place \in [Ranks -> Addresses], Allocate(t, place)
  PROVE  IInv'
<1>0. TypeOK /\ InProgram /\ status[t] = "invalid" /\ t \notin Dense
  BY DEF IInv, Allocate
<1> DEFINE Row(r) ==
       /\ place[r] \in Addresses
       /\ region[r][place[r]] = "none"
       /\ region'[r] = [region[r] EXCEPT ![place[r]] = "created"]
       /\ owner'[r] = [owner[r] EXCEPT ![place[r]] = t]
       /\ memory'[r] = memory[r] \cup {t}
       /\ mpb'[r] = [mpb[r] EXCEPT ![t] = place[r]]
       /\ registered'[r] = [registered[r] EXCEPT ![place[r]] = @ + 1]
       /\ unregistered'[r] = unregistered[r]
       /\ result'[r] = result[r]
       /\ pc'[r] = pc[r] /\ pc[r] = "user"
       /\ status' = [status EXCEPT ![t] = "created"]
<1>1. ASSUME NEW r \in Ranks PROVE Row(r)
  BY DEF Allocate, InProgram
<1>2. TypeOK'
  <2>1. ASSUME NEW r \in Ranks
        PROVE  /\ mpb'[r] \in [Tensors -> Addresses \cup {nullptr}]
               /\ region'[r] \in [Addresses -> {"none", "created", "orphaned"}]
               /\ owner'[r] \in [Addresses -> Tensors \cup {nullptr}]
               /\ memory'[r] \in SUBSET Tensors
               /\ registered'[r] \in [Addresses -> Nat]
    <3>0. RankOK(r) /\ Row(r)  BY <1>0, <1>1, RankTypes
    <3>1. [registered[r] EXCEPT ![place[r]] = @ + 1] \in [Addresses -> Nat]
      BY <3>0, CountUp DEF RankOK
    <3> QED  BY <3>0, <3>1 DEF RankOK
  <2> QED  BY <2>1, <1>0 DEF TypeOK, Allocate
<1>3. ASSUME NEW r \in Ranks PROVE RankInv(r)'
  <2>0. RankInv(r) /\ RankOK(r) /\ Row(r)  BY <1>0, <1>1, RankTypes DEF IInv
  <2> USE MemoryAssumption, <1>0, <2>0 DEF RankInv, RankOK
  <2>1. Accounting(r)'
    <3>1. ASSUME NEW a \in Addresses
          PROVE  registered'[r][a] + result'[r][a]
                   = unregistered'[r][a] + (IF region'[r][a] = "none" THEN 0 ELSE 1)
      <4>1. registered[r][a] + result[r][a]
              = unregistered[r][a] + (IF region[r][a] = "none" THEN 0 ELSE 1)
        BY DEF Accounting
      <4>2. registered[r][a] \in Nat /\ result[r][a] \in Nat /\ unregistered[r][a] \in Nat
        OBVIOUS
      <4>3. registered'[r][a] = IF a = place[r] THEN registered[r][a] + 1 ELSE registered[r][a]
        OBVIOUS
      <4>4. region'[r][a] = IF a = place[r] THEN "created" ELSE region[r][a]
        OBVIOUS
      <4> QED  BY <4>1, <4>2, <4>3, <4>4
    <3> QED  BY ONLY <3>1 DEF Accounting
  <2>2. Phases(r)'
    <3>1. pc'[r] # "flush"  OBVIOUS
    <3>2. \A a \in Addresses : result'[r][a] = 0  BY DEF Phases
    <3> QED  BY ONLY <3>1, <3>2 DEF Phases
  <2>3. Ownership(r)'
    <3>0. \A u \in Tensors : mpb[r][u] # place[r]  BY DEF Ownership
    <3>1. /\ \A u \in Tensors : mpb'[r][u] = IF u = t THEN place[r] ELSE mpb[r][u]
          /\ \A a \in Addresses : /\ region'[r][a] = IF a = place[r] THEN "created" ELSE region[r][a]
                                  /\ owner'[r][a] = IF a = place[r] THEN t ELSE owner[r][a]
          /\ \A u \in Tensors : status'[u] = IF u = t THEN "created" ELSE status[u]
          /\ place[r] \in Addresses /\ mpb[r][t] = nullptr
      BY DEF TypeOK, Ownership
    <3>2. \A u \in Tensors : mpb'[r][u] # nullptr =>
            /\ status'[u] = "created" /\ u \notin Dense
            /\ region'[r][mpb'[r][u]] = "created" /\ owner'[r][mpb'[r][u]] = u
      BY <3>0, <3>1 DEF Ownership
    <3>3. \A a \in Addresses : region'[r][a] = "created" =>
            owner'[r][a] \in Tensors /\ mpb'[r][owner'[r][a]] = a
      BY <3>1 DEF Ownership
    <3>4. \A a \in Addresses : region'[r][a] = "orphaned" =>
            owner'[r][a] \in Tensors \ Dense /\ status'[owner'[r][a]] = "gone"
      BY <3>1 DEF Ownership
    <3> QED  BY ONLY <3>2, <3>3, <3>4 DEF Ownership
  <2>4. Memory(r)'  BY DEF TypeOK, Ownership, Memory
  <2> QED  BY <2>1, <2>2, <2>3, <2>4
<1>4. Agreement'
  <2>1. ASSUME NEW q \in Ranks, NEW r \in Ranks PROVE memory'[q] = memory'[r]
    <3>1. memory[q] = memory[r]  BY <1>0, ProgramIsSame
    <3>2. memory'[q] = memory[q] \cup {t} /\ memory'[r] = memory[r] \cup {t}  BY <1>1
    <3> QED  BY <3>1, <3>2
  <2>2. pc' = pc  BY DEF Allocate
  <2> QED  BY <1>0, <2>1, <2>2, SameIsAgreement
<1> QED  BY <1>2, <1>3, <1>4 DEF IInv

\* A dense tensor's array changes no region.
LEMMA AllocateDenseKeeps ==
  ASSUME IInv, NEW t \in Tensors, AllocateDense(t)
  PROVE  IInv'
<1>0. TypeOK /\ InProgram /\ status[t] = "invalid" /\ t \in Dense
  BY DEF IInv, AllocateDense
<1>1. /\ status' = [status EXCEPT ![t] = "created"]
      /\ \A r \in Ranks : memory'[r] = memory[r] \cup {t}
      /\ UNCHANGED <<mpb, region, owner, registered, unregistered, result, pc>>
  BY DEF AllocateDense, context
<1>2. TypeOK'  BY <1>0 DEF TypeOK, AllocateDense, context
<1>3. ASSUME NEW r \in Ranks PROVE RankInv(r)'
  <2>0. RankInv(r) /\ RankOK(r)  BY <1>0, RankTypes DEF IInv
  <2> USE MemoryAssumption, <1>0, <1>1, <2>0 DEF RankInv, RankOK
  <2>1. Accounting(r)'  BY DEF Accounting
  <2>2. Phases(r)'  BY DEF Phases
  <2>3. Ownership(r)'  BY DEF TypeOK, Ownership
  <2>4. Memory(r)'  BY DEF TypeOK, Ownership, Memory
  <2> QED  BY <2>1, <2>2, <2>3, <2>4
<1>4. Agreement'
  <2>1. \A q, r \in Ranks : memory'[q] = memory'[r]  BY <1>0, <1>1, ProgramIsSame
  <2> QED  BY <1>0, <1>1, <2>1, SameIsAgreement
<1> QED  BY <1>2, <1>3, <1>4 DEF IInv

\* A region that is deleted is unregistered, on every rank that of the tensor.
LEMMA DeallocateKeeps ==
  ASSUME IInv, NEW t \in Tensors, Deallocate(t)
  PROVE  IInv'
<1>0. TypeOK /\ InProgram /\ status[t] = "created" /\ t \notin Dense
  BY DEF IInv, Deallocate, HasRegion
<1> DEFINE Row(r) ==
       /\ mpb[r][t] \in Addresses
       /\ region[r][mpb[r][t]] = "created" /\ owner[r][mpb[r][t]] = t
       /\ unregistered'[r] = [unregistered[r] EXCEPT ![mpb[r][t]] = @ + 1]
       /\ memory'[r] = memory[r] \ {t}
       /\ region'[r] = [region[r] EXCEPT ![mpb[r][t]] = "none"]
       /\ mpb'[r] = [mpb[r] EXCEPT ![t] = nullptr]
       /\ owner'[r] = owner[r] /\ registered'[r] = registered[r] /\ result'[r] = result[r]
       /\ pc'[r] = pc[r] /\ pc[r] = "user"
       /\ status' = [status EXCEPT ![t] = "deallocated"]
<1>1. ASSUME NEW r \in Ranks PROVE Row(r)
  <2>1. mpb[r][t] \in Addresses /\ region[r][mpb[r][t]] = "created" /\ owner[r][mpb[r][t]] = t
    BY <1>0, RankTypes DEF RankOK, Deallocate, HasRegion, IInv, RankInv, Ownership
  <2> QED  BY <2>1 DEF Deallocate, InProgram
<1>2. TypeOK'
  <2>1. ASSUME NEW r \in Ranks
        PROVE  /\ mpb'[r] \in [Tensors -> Addresses \cup {nullptr}]
               /\ region'[r] \in [Addresses -> {"none", "created", "orphaned"}]
               /\ memory'[r] \in SUBSET Tensors
               /\ unregistered'[r] \in [Addresses -> Nat]
    <3>0. RankOK(r) /\ Row(r)  BY <1>0, <1>1, RankTypes
    <3>1. [unregistered[r] EXCEPT ![mpb[r][t]] = @ + 1] \in [Addresses -> Nat]
      BY <3>0, CountUp DEF RankOK
    <3> QED  BY <3>0, <3>1 DEF RankOK
  <2> QED  BY <2>1, <1>0 DEF TypeOK, Deallocate
<1>3. ASSUME NEW r \in Ranks PROVE RankInv(r)'
  <2>0. RankInv(r) /\ RankOK(r) /\ Row(r)  BY <1>0, <1>1, RankTypes DEF IInv
  <2> USE MemoryAssumption, <1>0, <2>0 DEF RankInv, RankOK
  <2>1. Accounting(r)'  BY DEF Accounting
  <2>2. Phases(r)'  BY DEF Phases
  <2>3. Ownership(r)'  BY DEF TypeOK, Ownership
  <2>4. Memory(r)'  BY DEF TypeOK, Ownership, Memory
  <2> QED  BY <2>1, <2>2, <2>3, <2>4
<1>4. Agreement'
  <2>1. ASSUME NEW q \in Ranks, NEW r \in Ranks PROVE memory'[q] = memory'[r]
    <3>1. memory[q] = memory[r]  BY <1>0, ProgramIsSame
    <3>2. memory'[q] = memory[q] \ {t} /\ memory'[r] = memory[r] \ {t}  BY <1>1
    <3> QED  BY <3>1, <3>2
  <2>2. pc' = pc  BY DEF Deallocate
  <2> QED  BY <1>0, <2>1, <2>2, SameIsAgreement
<1> QED  BY <1>2, <1>3, <1>4 DEF IInv

LEMMA DeallocateDenseKeeps ==
  ASSUME IInv, NEW t \in Tensors, DeallocateDense(t)
  PROVE  IInv'
<1>0. TypeOK /\ InProgram /\ status[t] = "created" /\ t \in Dense
  BY DEF IInv, DeallocateDense
<1>1. /\ status' = [status EXCEPT ![t] = "deallocated"]
      /\ \A r \in Ranks : memory'[r] = memory[r] \ {t}
      /\ UNCHANGED <<mpb, region, owner, registered, unregistered, result, pc>>
  BY DEF DeallocateDense, context
<1>2. TypeOK'  BY <1>0 DEF TypeOK, DeallocateDense, context
<1>3. ASSUME NEW r \in Ranks PROVE RankInv(r)'
  <2>0. RankInv(r) /\ RankOK(r)  BY <1>0, RankTypes DEF IInv
  <2> USE MemoryAssumption, <1>0, <1>1, <2>0 DEF RankInv, RankOK
  <2>1. Accounting(r)'  BY DEF Accounting
  <2>2. Phases(r)'  BY DEF Phases
  <2>3. Ownership(r)'  BY DEF TypeOK, Ownership
  <2>4. Memory(r)'  BY DEF TypeOK, Ownership, Memory
  <2> QED  BY <2>1, <2>2, <2>3, <2>4
<1>4. Agreement'
  <2>1. \A q, r \in Ranks : memory'[q] = memory'[r]  BY <1>0, <1>1, ProgramIsSame
  <2> QED  BY <1>0, <1>1, <2>1, SameIsAgreement
<1> QED  BY <1>2, <1>3, <1>4 DEF IInv

\* The region of a tensor that is let go is there to be marked, and no other
\* tensor's.
LEMMA DropKeeps ==
  ASSUME IInv, NEW t \in Tensors, Drop(t)
  PROVE  IInv'
<1>0. TypeOK /\ InProgram /\ status[t] # "gone"
  BY DEF IInv, Drop
<1> DEFINE Row(r) ==
       /\ region'[r] = [a \in Addresses |->
                          IF a = mpb[r][t] THEN "orphaned" ELSE region[r][a]]
       /\ mpb'[r] = [mpb[r] EXCEPT ![t] = nullptr]
       /\ owner'[r] = owner[r] /\ memory'[r] = memory[r]
       /\ registered'[r] = registered[r] /\ unregistered'[r] = unregistered[r]
       /\ result'[r] = result[r]
       /\ pc'[r] = pc[r] /\ pc[r] = "user"
       /\ status' = [status EXCEPT ![t] = "gone"]
<1>1. ASSUME NEW r \in Ranks PROVE Row(r)
  BY DEF Drop, InProgram, context
<1>2. TypeOK'
  <2>1. ASSUME NEW r \in Ranks
        PROVE  /\ mpb'[r] \in [Tensors -> Addresses \cup {nullptr}]
               /\ region'[r] \in [Addresses -> {"none", "created", "orphaned"}]
    <3>0. RankOK(r) /\ Row(r)  BY <1>0, <1>1, RankTypes
    <3> QED  BY <3>0 DEF RankOK
  <2> QED  BY <2>1, <1>0 DEF TypeOK, Drop, context
<1>3. ASSUME NEW r \in Ranks PROVE RankInv(r)'
  <2>0. RankInv(r) /\ RankOK(r) /\ Row(r)  BY <1>0, <1>1, RankTypes DEF IInv
  <2> USE MemoryAssumption, <1>0, <2>0 DEF RankInv, RankOK
  <2>1. Accounting(r)'  BY DEF Accounting, Ownership
  <2>2. Phases(r)'  BY DEF Phases
  <2>3. Ownership(r)'  BY DEF TypeOK, Ownership
  <2>4. Memory(r)'
    <3>1. \A u \in Tensors : status'[u] = "created" =>
            u \in memory'[r] /\ (u \notin Dense => mpb'[r][u] # nullptr)
      BY DEF TypeOK, Memory
    <3>2. ASSUME NEW u \in memory'[r]
          PROVE  \/ status'[u] = "created" \/ u \in Dense
                 \/ \E a \in Addresses : region'[r][a] = "orphaned" /\ owner'[r][a] = u
      <4>1. CASE u = t /\ status[t] = "created" /\ t \notin Dense
        <5>1. mpb[r][t] \in Addresses /\ owner[r][mpb[r][t]] = t
          BY <4>1 DEF TypeOK, Memory, Ownership
        <5> QED  BY <4>1, <5>1
      <4>2. CASE \E a \in Addresses : region[r][a] = "orphaned" /\ owner[r][a] = u
        BY <4>2 DEF TypeOK
      <4> QED  BY <4>1, <4>2 DEF TypeOK, Memory
    <3> QED  BY <3>1, <3>2 DEF Memory
  <2> QED  BY <2>1, <2>2, <2>3, <2>4
<1>4. Agreement'
  <2>1. ASSUME NEW q \in Ranks, NEW r \in Ranks PROVE memory'[q] = memory'[r]
    <3>1. memory[q] = memory[r]  BY <1>0, ProgramIsSame
    <3>2. memory'[q] = memory[q] /\ memory'[r] = memory[r]  BY <1>1
    <3> QED  BY <3>1, <3>2
  <2>2. pc' = pc  BY DEF Drop, context
  <2> QED  BY <1>0, <2>1, <2>2, SameIsAgreement
<1> QED  BY <1>2, <1>3, <1>4 DEF IInv

\* The flush begins with each region once in result.
LEMMA FlushKeeps ==
  ASSUME IInv, Flush
  PROVE  IInv'
<1>0. TypeOK /\ InProgram  BY DEF IInv, Flush
<1> DEFINE Row(r) ==
       /\ result'[r] \in [Addresses -> Nat]
       /\ \A a \in Addresses :
            result'[r][a] = IF registered[r][a] > unregistered[r][a]
                            THEN registered[r][a] - unregistered[r][a] ELSE 0
       /\ registered'[r] = [a \in Addresses |-> 0]
       /\ unregistered'[r] = [a \in Addresses |-> 0]
       /\ pc'[r] = "flush" /\ pc[r] = "user"
       /\ UNCHANGED <<status, mpb, region, owner, memory>>
<1>1. ASSUME NEW r \in Ranks PROVE Row(r)
  <2>1. result'[r] = Difference(registered[r], unregistered[r])  BY DEF Flush
  <2>2. registered[r] \in [Addresses -> Nat] /\ unregistered[r] \in [Addresses -> Nat]
    BY <1>0, RankTypes DEF RankOK
  <2>3. /\ Difference(registered[r], unregistered[r]) \in [Addresses -> Nat]
        /\ \A a \in Addresses :
             Difference(registered[r], unregistered[r])[a]
               = IF registered[r][a] > unregistered[r][a]
                 THEN registered[r][a] - unregistered[r][a] ELSE 0
    BY <2>2, DifferenceType
  <2> QED  BY <2>1, <2>3 DEF Flush, InProgram
<1>2. TypeOK'
  <2>1. result' = [r \in Ranks |-> Difference(registered[r], unregistered[r])]  BY DEF Flush
  <2>2. result' \in [Ranks -> [Addresses -> Nat]]  BY <1>1, <2>1
  <2> QED  BY <1>0, <2>2 DEF TypeOK, Flush
<1>3. ASSUME NEW r \in Ranks PROVE RankInv(r)'
  <2>0. RankInv(r) /\ RankOK(r) /\ Row(r)  BY <1>0, <1>1, RankTypes DEF IInv
  <2> USE MemoryAssumption, <1>0, <2>0 DEF RankInv, RankOK
  <2>1. Accounting(r)'  BY DEF Accounting, Phases
  <2>2. Phases(r)'  BY DEF Phases
  <2>3. Ownership(r)'  BY DEF Ownership
  <2>4. Memory(r)'  BY DEF Memory
  <2> QED  BY <2>1, <2>2, <2>3, <2>4
<1>4. Agreement'
  BY <1>0, <1>1 DEF IInv, Agreement, Kept
<1> QED  BY <1>2, <1>3, <1>4 DEF IInv

\* A rank that a step of another one leaves as it was keeps its invariant.
LEMMA OthersKeep ==
  ASSUME NEW q \in Ranks, RankInv(q), status' = status, mpb' = mpb, owner' = owner,
         unregistered' = unregistered,
         region'[q] = region[q], memory'[q] = memory[q], registered'[q] = registered[q],
         result'[q] = result[q], pc'[q] = pc[q]
  PROVE  RankInv(q)'
BY DEF RankInv, Accounting, Phases, Ownership, Memory

LEMMA FreeRegionKeeps ==
  ASSUME IInv, NEW r \in Ranks, NEW a \in Addresses, FreeRegion(r, a)
  PROVE  IInv'
<1>0. /\ TypeOK /\ RankInv(r) /\ RankOK(r) /\ pc[r] = "flush" /\ result[r][a] > 0
      /\ region[r][a] = "orphaned"
      /\ UNCHANGED <<status, mpb, owner, registered, unregistered, pc>>
  BY RankTypes DEF IInv, FreeRegion, IsNext
<1>1. /\ memory'[r] = memory[r] \ {owner[r][a]}
      /\ region'[r] = [region[r] EXCEPT ![a] = "none"]
      /\ result'[r] = [result[r] EXCEPT ![a] = @ - 1]
      /\ \A q \in Ranks : q # r => /\ memory'[q] = memory[q] /\ region'[q] = region[q]
                                   /\ result'[q] = result[q]
  BY <1>0 DEF FreeRegion, TypeOK
<1>2. TypeOK'
  <2>1. /\ region'[r] \in [Addresses -> {"none", "created", "orphaned"}]
        /\ memory'[r] \in SUBSET Tensors
        /\ result'[r] \in [Addresses -> Nat]
    BY <1>0, <1>1, RankTypes, CountDown DEF RankOK
  <2>2. /\ DOMAIN region' = Ranks /\ region' = [q \in Ranks |-> region'[q]]
        /\ DOMAIN memory' = Ranks /\ memory' = [q \in Ranks |-> memory'[q]]
        /\ DOMAIN result' = Ranks /\ result' = [q \in Ranks |-> result'[q]]
    BY <1>0 DEF FreeRegion, TypeOK
  <2>3. /\ region' \in [Ranks -> [Addresses -> {"none", "created", "orphaned"}]]
        /\ memory' \in [Ranks -> SUBSET Tensors]
        /\ result' \in [Ranks -> [Addresses -> Nat]]
    <3>1. ASSUME NEW q \in Ranks
          PROVE  /\ region'[q] \in [Addresses -> {"none", "created", "orphaned"}]
                 /\ memory'[q] \in SUBSET Tensors
                 /\ result'[q] \in [Addresses -> Nat]
      BY <2>1, <1>0, <1>1, RankTypes DEF RankOK
    <3> QED  BY <3>1, <2>2
  <2> QED  BY <1>0, <2>3 DEF TypeOK
<1>3. ASSUME NEW q \in Ranks PROVE RankInv(q)'
  <2>1. CASE q = r
    <3> USE MemoryAssumption, <1>0, <1>1 DEF RankInv, RankOK
    <3>1. Accounting(r)'  BY DEF Accounting
    <3>2. Phases(r)'  BY DEF Phases, Accounting
    <3>3. Ownership(r)'  BY DEF TypeOK, Ownership
    <3>4. Memory(r)'  BY DEF TypeOK, Ownership, Memory
    <3> QED  BY <2>1, <3>1, <3>2, <3>3, <3>4
  <2>2. CASE q # r
    <3>1. RankInv(q)  BY DEF IInv
    <3> QED  BY <2>2, <3>1, <1>0, <1>1, OthersKeep
  <2> QED  BY <2>1, <2>2
<1>4. Agreement'
  <2>1. owner[r][a] \notin Dense /\ status[owner[r][a]] = "gone"
    BY <1>0 DEF RankInv, Ownership
  <2>2. \A q \in Ranks : Kept(q)' = Kept(q)  BY <1>0, <1>1, <2>1 DEF Kept
  <2> QED  BY <1>0, <1>1, <2>2 DEF IInv, Agreement
<1> QED  BY <1>2, <1>3, <1>4 DEF IInv

LEMMA KeepRegionKeeps ==
  ASSUME IInv, NEW r \in Ranks, NEW a \in Addresses, KeepRegion(r, a)
  PROVE  IInv'
<1>0. /\ TypeOK /\ RankInv(r) /\ RankOK(r) /\ pc[r] = "flush" /\ result[r][a] > 0
      /\ region[r][a] # "orphaned"
      /\ UNCHANGED <<status, mpb, region, owner, memory, unregistered, pc>>
  BY RankTypes DEF IInv, KeepRegion, IsNext
<1>1. /\ registered'[r] = [registered[r] EXCEPT ![a] = @ + 1]
      /\ result'[r] = [result[r] EXCEPT ![a] = @ - 1]
      /\ \A q \in Ranks : q # r => registered'[q] = registered[q] /\ result'[q] = result[q]
  BY <1>0 DEF KeepRegion, TypeOK
<1>2. TypeOK'
  <2>1. registered'[r] \in [Addresses -> Nat] /\ result'[r] \in [Addresses -> Nat]
    BY <1>0, <1>1, RankTypes, CountUp, CountDown DEF RankOK
  <2>2. /\ registered' = [q \in Ranks |-> registered'[q]]
        /\ result' = [q \in Ranks |-> result'[q]]
    BY <1>0 DEF KeepRegion, TypeOK
  <2>3. /\ registered' \in [Ranks -> [Addresses -> Nat]]
        /\ result' \in [Ranks -> [Addresses -> Nat]]
    <3>1. ASSUME NEW q \in Ranks
          PROVE  registered'[q] \in [Addresses -> Nat] /\ result'[q] \in [Addresses -> Nat]
      BY <2>1, <1>0, <1>1, RankTypes DEF RankOK
    <3> QED  BY <3>1, <2>2
  <2> QED  BY <1>0, <2>3 DEF TypeOK
<1>3. ASSUME NEW q \in Ranks PROVE RankInv(q)'
  <2>1. CASE q = r
    <3> USE MemoryAssumption, <1>0, <1>1 DEF RankInv, RankOK
    <3>1. Accounting(r)'  BY DEF Accounting
    <3>2. Phases(r)'  BY DEF Phases, Accounting
    <3>3. Ownership(r)'  BY DEF Ownership
    <3>4. Memory(r)'  BY DEF Memory
    <3> QED  BY <2>1, <3>1, <3>2, <3>3, <3>4
  <2>2. CASE q # r
    <3>1. RankInv(q)  BY DEF IInv
    <3> QED  BY <2>2, <3>1, <1>0, <1>1, OthersKeep
  <2> QED  BY <2>1, <2>2
<1>4. Agreement'
  BY <1>0 DEF IInv, Agreement, Kept
<1> QED  BY <1>2, <1>3, <1>4 DEF IInv

\* A rank that returns from a flush has nothing left that may go.
LEMMA FlushReturnsKeeps ==
  ASSUME IInv, NEW r \in Ranks, FlushReturns(r)
  PROVE  IInv'
<1>0. /\ TypeOK /\ RankInv(r) /\ RankOK(r) /\ pc[r] = "flush"
      /\ \A a \in Addresses : result[r][a] = 0
      /\ pc' = [pc EXCEPT ![r] = "user"]
      /\ UNCHANGED <<status, mpb, region, owner, memory, registered, unregistered, result>>
  BY RankTypes DEF IInv, FlushReturns
<1>1. pc'[r] = "user" /\ \A q \in Ranks : q # r => pc'[q] = pc[q]
  BY <1>0 DEF TypeOK
<1>2. TypeOK'  BY <1>0 DEF TypeOK
<1>3. ASSUME NEW q \in Ranks PROVE RankInv(q)'
  <2>1. CASE q = r
    BY <2>1, <1>0, <1>1 DEF RankInv, Accounting, Phases, Ownership, Memory
  <2>2. CASE q # r
    <3>1. RankInv(q)  BY DEF IInv
    <3> QED  BY <2>2, <3>1, <1>0, <1>1, OthersKeep
  <2> QED  BY <2>1, <2>2
<1>4. Agreement'
  <2>1. ASSUME NEW a \in Addresses PROVE region[r][a] # "orphaned"
    BY <1>0, RankTypes DEF RankOK, RankInv, Accounting, Phases
  <2>2. memory[r] = Kept(r)
    BY <1>0, <2>1 DEF RankInv, Memory, Kept, TypeOK
  <2>3. \A q \in Ranks : Kept(q)' = Kept(q)  BY <1>0 DEF Kept
  <2>4. \A q, s \in Ranks : Kept(q) = Kept(s)  BY DEF IInv, Agreement
  <2>5. \A q \in Ranks : q # r /\ pc[q] = "user" => memory[q] = Kept(q)
    BY <1>0 DEF IInv, Agreement
  <2>6. ASSUME NEW q \in Ranks, pc'[q] = "user" PROVE memory'[q] = Kept(q)
    BY <2>6, <2>2, <2>5, <1>0, <1>1
  <2> QED  BY <2>3, <2>4, <2>6 DEF Agreement
<1> QED  BY <1>2, <1>3, <1>4 DEF IInv

LEMMA StutterKeeps ==
  ASSUME IInv, UNCHANGED vars
  PROVE  IInv'
BY DEF IInv, TypeOK, RankInv, Accounting, Phases, Ownership, Memory, Agreement, Kept, vars

\* The inductive invariant: what the vectors hold, who owns what, and what the
\* ranks have in common.
THEOREM Invariance == Spec => []IInv
<1>1. IInv /\ [Next]_vars => IInv'
  <2> SUFFICES ASSUME IInv, [Next]_vars PROVE IInv'  OBVIOUS
  <2> QED  BY AllocateKeeps, AllocateDenseKeeps, DeallocateKeeps, DeallocateDenseKeeps,
              DropKeeps, FlushKeeps, FreeRegionKeeps, KeepRegionKeeps, FlushReturnsKeeps,
              StutterKeeps DEF Next, FlushStep
<1> QED  BY InitIInv, <1>1, PTL DEF Spec

-----------------------------------------------------------------------------

\* The state of the tensors, the regions and the context keeps its type.
THEOREM TypeCorrect == Spec => []TypeOK
BY Invariance, PTL DEF IInv

\* Whatever addresses are used again, a flush looks at no deleted region
\* (execution_context.hpp:301-311).
THEOREM FlushSeesRegionsCorrect == Spec => []FlushSeesRegions
<1>1. IInv => FlushSeesRegions
  <2> SUFFICES ASSUME IInv, NEW r \in Ranks, NEW a \in Addresses, result[r][a] > 0
               PROVE  region[r][a] # "none"
    BY DEF FlushSeesRegions
  <2>1. TypeOK /\ Accounting(r) /\ Phases(r)  BY DEF IInv, RankInv
  <2> QED  BY <2>1, RankTypes DEF RankOK, Accounting, Phases
<1> QED  BY <1>1, Invariance, PTL

\* An allocated tensor has its memory and its region until it is deallocated or
\* let go (tensor_impl.hpp:221-306).
THEOREM InUseCorrect == Spec => []InUse
<1>1. IInv => InUse
  BY MemoryAssumption DEF IInv, RankInv, Ownership, Memory, InUse
<1> QED  BY <1>1, Invariance, PTL

\* Ranks that are not in a flush have the memory of the same tensors, wherever
\* their heaps put the regions and however they overtook one another in the
\* flushes (execution_context.hpp:299-318).
THEOREM SameMemoryCorrect == Spec => []SameMemory
<1>1. IInv => SameMemory  BY DEF IInv, Agreement, SameMemory
<1> QED  BY <1>1, Invariance, PTL

\* No step frees memory that the program can still use.
THEOREM OnlyUnreferencedCorrect == Spec => OnlyUnreferenced
<1>1. IInv /\ [Next]_vars
        => [\A r \in Ranks : \A t \in memory[r] :
              t \notin memory'[r] => status'[t] \in {"deallocated", "gone"}]_vars
  <2> SUFFICES ASSUME IInv, Next, NEW r \in Ranks, NEW t \in memory[r], t \notin memory'[r]
               PROVE  status'[t] \in {"deallocated", "gone"}
    OBVIOUS
  <2>0. TypeOK /\ Ownership(r)  BY DEF IInv, RankInv
  <2>1. ASSUME NEW u \in Tensors, Deallocate(u) PROVE status'[t] = "deallocated"
    <3>1. t = owner[r][mpb[r][u]] /\ owner[r][mpb[r][u]] = u
      BY <2>0, <2>1, RankTypes, MemoryAssumption DEF RankOK, Deallocate, HasRegion, Ownership
    <3> QED  BY <2>0, <2>1, <3>1 DEF Deallocate, TypeOK
  <2>2. ASSUME NEW u \in Tensors, DeallocateDense(u) PROVE status'[t] = "deallocated"
    BY <2>0, <2>2 DEF DeallocateDense, TypeOK
  <2>3. ASSUME NEW q \in Ranks, NEW a \in Addresses, FreeRegion(q, a) PROVE status'[t] = "gone"
    BY <2>0, <2>3 DEF FreeRegion, TypeOK, Ownership
  <2>4. ASSUME NEW u \in Tensors, NEW place \in [Ranks -> Addresses], Allocate(u, place)
        PROVE  FALSE
    BY <2>0, <2>4 DEF Allocate
  <2>5. ASSUME NEW u \in Tensors, AllocateDense(u) \/ Drop(u) PROVE FALSE
    BY <2>0, <2>5 DEF AllocateDense, Drop
  <2>6. ASSUME Flush \/ \E q \in Ranks : FlushReturns(q) \/ \E a \in Addresses : KeepRegion(q, a)
        PROVE  FALSE
    BY <2>6 DEF Flush, FlushReturns, KeepRegion
  <2> QED  BY <2>1, <2>2, <2>3, <2>4, <2>5, <2>6 DEF Next, FlushStep
<1> QED  BY <1>1, Invariance, PTL DEF Spec, OnlyUnreferenced

\* A flush leaves no memory of a tensor that has been let go, unless it is dense
\* (execution_context.hpp:299-318).
THEOREM ReclaimsAllCorrect == Spec => ReclaimsAll
<1>1. IInv /\ IInv' /\ [Next]_vars
        => [\A r \in Ranks : pc[r] = "flush" /\ pc'[r] = "user" =>
              \A t \in memory[r] : status[t] = "gone" => t \in Dense]_vars
  <2> SUFFICES ASSUME IInv, Next, NEW r \in Ranks, pc[r] = "flush", pc'[r] = "user",
                      NEW t \in memory[r], status[t] = "gone"
               PROVE  t \in Dense
    OBVIOUS
  <2>0. TypeOK /\ RankInv(r)  BY DEF IInv
  <2>1. FlushReturns(r)
    <3>1. PICK q \in Ranks : FlushStep(q)
      BY DEF Next, Allocate, AllocateDense, Deallocate, DeallocateDense, Drop, Flush, InProgram
    <3>2. FlushReturns(q)  BY <3>1 DEF FlushStep, FreeRegion, KeepRegion
    <3> QED  BY <3>2, <2>0 DEF FlushReturns, TypeOK
  <2>2. \A a \in Addresses : region[r][a] # "orphaned"
    BY <2>0, <2>1, RankTypes DEF RankOK, FlushReturns, RankInv, Accounting, Phases
  <2> QED  BY <2>0, <2>2 DEF RankInv, Memory
<1> QED  BY <1>1, Invariance, PTL DEF Spec, ReclaimsAll
=============================================================================
