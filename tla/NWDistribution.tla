--------------------------- MODULE NWDistribution ---------------------------
(***************************************************************************)
(* Distribution_NW (distribution.hpp): the non-zero blocks of a tensor in  *)
(* the order of their keys, laid one after the other, and cut at block     *)
(* boundaries into one part for each process.  Block k is the k-th in that *)
(* order; indices into hash_ and proc_offsets_ start at 1 here.            *)
(*                                                                         *)
(* std::lower_bound and std::upper_bound are modelled by what they return  *)
(* on a sorted range.                                                      *)
(***************************************************************************)
EXTENDS Integers, Sequences

CONSTANTS BlockCounts, ProcCounts, Sizes

ASSUME DistributionAssumption ==
  BlockCounts \subseteq Nat \ {0} /\ ProcCounts \subseteq Nat \ {0} /\ Sizes \subseteq Nat

VARIABLES nblocks, nproc,
          size,        \* block_size of each block
          hash,        \* hash_[k].offset_: a size, then an offset
          offset,      \* the running offset, in the end total_size_
          i, itr,      \* the loop index and the block the next part begins with
          procOffsets, \* proc_offsets_
          pc

input == <<nblocks, nproc, size>>
vars == <<input, hash, offset, i, itr, procOffsets, pc>>

Blocks == 1 .. nblocks
Procs == 0 .. nproc - 1

TypeOK ==
  /\ nblocks \in BlockCounts /\ nproc \in ProcCounts
  /\ size \in [Blocks -> Sizes]
  /\ hash \in [Blocks -> Nat]
  /\ offset \in Nat
  /\ i \in 0 .. nblocks + nproc + 1
  /\ itr \in 1 .. nblocks + 1
  /\ procOffsets \in Seq(Nat)
  /\ pc \in {"sum", "procs", "done", "aborted"}

Init ==
  /\ nblocks \in BlockCounts /\ nproc \in ProcCounts
  /\ size \in [Blocks -> Sizes]
  /\ hash = size
  /\ offset = 0
  /\ i = 1 /\ itr = 1
  /\ procOffsets = <<>>
  /\ pc = "sum"

SumOffsets ==
  /\ pc = "sum" /\ i <= nblocks
  /\ hash' = [hash EXCEPT ![i] = offset]
  /\ offset' = offset + hash[i]
  /\ i' = i + 1
  /\ UNCHANGED <<input, itr, procOffsets, pc>>

\* EXPECTS(offset > 0)
EndSum ==
  /\ pc = "sum" /\ i = nblocks + 1
  /\ pc' = IF offset > 0 THEN "procs" ELSE "aborted"
  /\ i' = 0
  /\ UNCHANGED <<input, hash, offset, itr, procOffsets>>

PerProc == IF offset \div nproc > 1 THEN offset \div nproc ELSE 1

\* std::lower_bound(hash + from, end, v)
IsLowerBound(j, from, v) ==
  /\ j \in from .. nblocks + 1
  /\ \A m \in from .. j - 1 : hash[m] < v
  /\ j <= nblocks => hash[j] >= v

\* The part of process i begins with block itr, or is empty at the end.
BeginPart ==
  /\ pc = "procs" /\ i < nproc
  /\ procOffsets' = Append(procOffsets, IF itr <= nblocks THEN hash[itr] ELSE offset)
  /\ itr' \in itr .. nblocks + 1 /\ IsLowerBound(itr', itr, (i + 1) * PerProc)
  /\ i' = i + 1
  /\ UNCHANGED <<input, hash, offset, pc>>

EndParts ==
  /\ pc = "procs" /\ i = nproc
  /\ procOffsets' = Append(procOffsets, offset)
  /\ pc' = "done"
  /\ UNCHANGED <<input, hash, offset, i, itr>>

Next == SumOffsets \/ EndSum \/ BeginPart \/ EndParts \/ (pc \in {"done", "aborted"} /\ UNCHANGED vars)

Spec == Init /\ [][Next]_vars

-----------------------------------------------------------------------------

\* locate: one less than std::upper_bound(proc_offsets_, the offset of the block);
\* -1 fails an EXPECTS.
IsProcOf(p, k) ==
  /\ p \in -1 .. nproc
  /\ \A q \in 0 .. p : procOffsets[q + 1] <= hash[k]
  /\ p < nproc => procOffsets[p + 2] > hash[k]

OffsetIn(p, k) == hash[k] - procOffsets[p + 1]

BufSize(p) == procOffsets[p + 2] - procOffsets[p + 1]

\* Every block that is not empty is located on a process of the distribution,
\* inside the buffer of that process (distribution.hpp:270-293).
Placed ==
  pc = "done" =>
    \A k \in Blocks : size[k] > 0 =>
      \E p \in Procs : /\ IsProcOf(p, k)
                       /\ OffsetIn(p, k) >= 0 /\ OffsetIn(p, k) + size[k] <= BufSize(p)

\* Blocks on one process do not overlap (distribution.hpp:280-284).
Apart ==
  pc = "done" =>
    \A j, k \in Blocks, p \in Procs :
      j < k /\ IsProcOf(p, j) /\ IsProcOf(p, k)
        => OffsetIn(p, j) + size[j] <= OffsetIn(p, k)

\* The buffers are together as large as the blocks, and none exceeds the average
\* by more than a block or, on the last process, the remainder of the division
\* (distribution.hpp:243-256).
Balanced ==
  pc = "done" =>
    /\ procOffsets[1] = 0 /\ procOffsets[nproc + 1] = offset
    /\ \A p \in Procs : \/ BufSize(p) < PerProc + nproc
                        \/ \E k \in Blocks : BufSize(p) < PerProc + size[k]
=============================================================================
