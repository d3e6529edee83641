----------------------------- MODULE BufferPool -----------------------------
(***************************************************************************)
(* The pool of host memory (src/tamm/mr): one block taken from the system, *)
(* cut up by best fit for the buffers of the kernels and joined again when *)
(* they are returned.  The list of free blocks is kept by address, and is  *)
(* a set here.                                                             *)
(***************************************************************************)
EXTENDS Integers, FiniteSets

CONSTANTS
  Buffers,    \* the variables of kernels that hold a buffer
  Sizes,      \* the sizes they ask for
  PoolSize,   \* the size of the pool
  Align       \* RMM_ALLOCATION_ALIGNMENT

ASSUME SizesAssumption ==
  Sizes \subseteq Nat /\ PoolSize \in Nat \ {0} /\ Align \in Nat \ {0}

VARIABLES
  free,       \* free_blocks_
  held,       \* the block of each buffer, and the size asked for
  up,         \* whether there is a pool
  stopped     \* tamm_terminate was called

poolVars == <<free, held, up, stopped>>

\* The system returns aligned memory; address 0 is nullptr.
Base == Align
Nothing == [ptr |-> 0, size |-> 0, asked |-> 0]
upstream_block == [ptr |-> Base, size |-> PoolSize, head |-> TRUE]

align_up(n) == ((n + Align - 1) \div Align) * Align
is_contiguous_before(a, b) == a.ptr + a.size = b.ptr /\ ~b.head
merge(a, b) == [ptr |-> a.ptr, size |-> a.size + b.size, head |-> a.head]
fits(b, n) == b.size >= n

\* The free block after b, and the one before, when b joins it.
Following(fl, b) == {n \in fl : b.ptr < n.ptr /\ \A c \in fl : b.ptr < c.ptr => n.ptr <= c.ptr}
Previous(fl, b) == {p \in fl : p.ptr <= b.ptr /\ \A c \in fl : c.ptr <= b.ptr => c.ptr <= p.ptr}
MutMergeNext(fl, b) == {} \* a mutant: nothing joins the block after it
merge_next(fl, b) == {n \in Following(fl, b) : is_contiguous_before(b, n)}
merge_prev(fl, b) == {p \in Previous(fl, b) : is_contiguous_before(p, b)}

WithNext(fl, b) == IF merge_next(fl, b) = {} THEN b ELSE merge(b, CHOOSE n \in merge_next(fl, b) : TRUE)
WithPrevious(fl, b, c) ==
  IF merge_prev(fl, b) = {} THEN c ELSE merge(CHOOSE p \in merge_prev(fl, b) : TRUE, c)
insert(fl, b) ==
  (fl \ (merge_prev(fl, b) \cup merge_next(fl, b))) \cup {WithPrevious(fl, b, WithNext(fl, b))}

\* The smallest block that fits; the first of these by address.
is_better_fit(a, b) == a.size < b.size \/ (a.size = b.size /\ a.ptr <= b.ptr)
get_block(fl, n) == {b \in fl : fits(b, n) /\ \A c \in fl : fits(c, n) => is_better_fit(b, c)}

MutRest(b, n) == [ptr |-> b.ptr + n, size |-> b.size - n, head |-> TRUE] \* a mutant: cut off for ever
rest(b, n) == [ptr |-> b.ptr + n, size |-> b.size - n, head |-> FALSE]
allocate_and_insert_remainder(fl, b, n) ==
  IF b.size > n THEN insert(fl \ {b}, rest(b, n)) ELSE fl \ {b}

MutFreeBlock(p, n) == [ptr |-> p, size |-> n - Align, head |-> p = Base] \* a mutant: less comes back
free_block(p, n) == [ptr |-> p, size |-> n, head |-> p = Base]

PoolInit ==
  /\ free = {upstream_block} /\ up = TRUE /\ stopped = FALSE
  /\ held = [x \in Buffers |-> Nothing]

\* allocate of a size is nullptr for none, and ends the program without a block.
allocate(x) == \E n \in Sizes :
  /\ up /\ ~stopped /\ held[x] = Nothing
  /\ n > 0
  /\ LET size == align_up(n)
         found == get_block(free, size)
     IN \/ \E b \in found :
             /\ free' = allocate_and_insert_remainder(free, b, size)
             /\ held' = [held EXCEPT ![x] = [ptr |-> b.ptr, size |-> size, asked |-> n]]
             /\ UNCHANGED stopped
        \/ found = {} /\ stopped' = TRUE /\ UNCHANGED <<free, held>>
  /\ UNCHANGED up

deallocate(x) ==
  /\ up /\ ~stopped /\ held[x] # Nothing
  /\ free' = insert(free, free_block(held[x].ptr, align_up(held[x].asked)))
  /\ held' = [held EXCEPT ![x] = Nothing]
  /\ UNCHANGED <<up, stopped>>

\* The pool goes and comes between computations, when no kernel holds a buffer.
reset ==
  /\ up /\ ~stopped /\ \A x \in Buffers : held[x] = Nothing
  /\ up' = FALSE /\ free' = {}
  /\ UNCHANGED <<held, stopped>>
initialize ==
  /\ ~up /\ up' = TRUE /\ free' = {upstream_block}
  /\ UNCHANGED <<held, stopped>>

PoolNext == reset \/ initialize \/ \E x \in Buffers : allocate(x) \/ deallocate(x)

PoolSpec == PoolInit /\ [][PoolNext]_poolVars

-----------------------------------------------------------------------------
Space == Base .. Base + PoolSize - 1
Extent(b) == b.ptr .. b.ptr + b.size - 1
Owned(x) == IF held[x] = Nothing THEN {} ELSE Extent(held[x])
Holders == {x \in Buffers : held[x] # Nothing}

PoolTypeOK ==
  /\ up \in BOOLEAN /\ stopped \in BOOLEAN
  /\ free \subseteq [ptr : Nat, size : Nat \ {0}, head : BOOLEAN]
  /\ held \in [Buffers -> [ptr : Nat, size : Nat, asked : Nat]]

Disjoint ==
  /\ \A a, b \in free : a # b => Extent(a) \cap Extent(b) = {}
  /\ \A x \in Holders, b \in free : Extent(held[x]) \cap Extent(b) = {}
  /\ \A x, y \in Holders : x # y => Extent(held[x]) \cap Extent(held[y]) = {}
Covered == up => Space = (UNION {Extent(b) : b \in free}) \cup UNION {Owned(x) : x \in Buffers}
Aligned ==
  /\ \A x \in Holders : held[x].ptr % Align = 0 /\ held[x].size >= held[x].asked
  /\ \A b \in free : b.ptr % Align = 0

(* No two blocks overlap, free or held, and together they are the whole    *)
(* pool: nothing is lost, however the pool is cut up and joined.  Every    *)
(* buffer starts at a multiple of the alignment and has the size asked     *)
(* for, although the size of the pool need not be a multiple.              *)
NothingLost == Disjoint /\ Covered /\ Aligned

(* Whatever is returned joins what is free beside it: no two free blocks   *)
(* are neighbours, so the pool is one block when all buffers are returned. *)
Joined == \A a, b \in free : a.ptr + a.size # b.ptr

(* The pool is a heap: no buffer is handed out twice, and the program ends *)
(* for want of memory only when no part of the pool that is free is long   *)
(* enough.                                                                 *)
Abstract == INSTANCE Heap WITH
  owned <- [x \in Buffers |-> Owned(x)], refused <- stopped,
  Requests <- {align_up(n) : n \in Sizes \ {0}}
HeapSpec == Abstract!HeapSpec

=============================================================================
