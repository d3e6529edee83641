---------------------------- MODULE TensorMemory ----------------------------
(***************************************************************************)
(* Who frees a tensor's memory: the tensor, when the program calls         *)
(* deallocate(), or the execution context, when the program has let the    *)
(* tensor go without doing so and calls flush_and_sync().                  *)
(*                                                                         *)
(* The context keeps the addresses of the memory regions of its tensors in *)
(* two vectors, of those registered and of those unregistered since.  An   *)
(* address may be used again for another region while both vectors still   *)
(* hold it: a region is a heap object, freed with its tensor.              *)
(*                                                                         *)
(* All ranks run the same operations, and what an operation does on a rank *)
(* touches that rank only: an operation is one step of all of them.  But   *)
(* every rank has a heap of its own, where the region of a tensor has      *)
(* another address, and within a flush each rank goes at its own pace.     *)
(***************************************************************************)
EXTENDS Integers

CONSTANTS Ranks,      \* the ranks of the process group
          Tensors,    \* the tensors a program creates
          Dense,      \* those created with a processor grid (DenseTensorImpl)
          Addresses,  \* where the heap may place a MemoryRegion
          nullptr

ASSUME MemoryAssumption ==
  Dense \subseteq Tensors /\ Addresses \subseteq Nat /\ nullptr \notin Addresses \cup Tensors

VARIABLES status,        \* allocation_status_ of each tensor; "gone" after its destructor
          mpb,           \* on each rank, mpb_ of each tensor
          region,        \* allocation_status_ of the region at an address, if there is one
          owner,         \* the tensor whose array the region at an address stands for
          memory,        \* the tensors whose global array exists, as the rank has it
          registered,    \* how often an address is in mem_regs_to_dealloc_
          unregistered,  \* how often an address is in unregistered_mem_regs_
          result,        \* in flush_and_sync: the addresses it has still to look at
          pc             \* is the rank in flush_and_sync?

vars == <<status, mpb, region, owner, memory, registered, unregistered, result, pc>>
context == <<registered, unregistered, result, pc>>

TypeOK ==
  /\ status \in [Tensors -> {"invalid", "created", "deallocated", "gone"}]
  /\ mpb \in [Ranks -> [Tensors -> Addresses \cup {nullptr}]]
  /\ region \in [Ranks -> [Addresses -> {"none", "created", "orphaned"}]]
  /\ owner \in [Ranks -> [Addresses -> Tensors \cup {nullptr}]]
  /\ memory \in [Ranks -> SUBSET Tensors]
  /\ registered \in [Ranks -> [Addresses -> Nat]]
  /\ unregistered \in [Ranks -> [Addresses -> Nat]]
  /\ result \in [Ranks -> [Addresses -> Nat]]
  /\ pc \in [Ranks -> {"user", "flush"}]

Init ==
  /\ status = [t \in Tensors |-> "invalid"]
  /\ mpb = [r \in Ranks |-> [t \in Tensors |-> nullptr]]
  /\ region = [r \in Ranks |-> [a \in Addresses |-> "none"]]
  /\ owner = [r \in Ranks |-> [a \in Addresses |-> nullptr]]
  /\ memory = [r \in Ranks |-> {}]
  /\ registered = [r \in Ranks |-> [a \in Addresses |-> 0]]
  /\ unregistered = [r \in Ranks |-> [a \in Addresses |-> 0]]
  /\ result = [r \in Ranks |-> [a \in Addresses |-> 0]]
  /\ pc = [r \in Ranks |-> "user"]

-----------------------------------------------------------------------------

\* All ranks are at the next operation of the program.
InProgram == \A r \in Ranks : pc[r] = "user"

\* Mutant: a new region is not registered with the context.
MutNotRegistered(t, place) ==
  /\ InProgram /\ status[t] = "invalid" /\ t \notin Dense
  /\ \A r \in Ranks : region[r][place[r]] = "none"
  /\ region' = [r \in Ranks |-> [region[r] EXCEPT ![place[r]] = "created"]]
  /\ owner' = [r \in Ranks |-> [owner[r] EXCEPT ![place[r]] = t]]
  /\ memory' = [r \in Ranks |-> memory[r] \cup {t}]
  /\ mpb' = [r \in Ranks |-> [mpb[r] EXCEPT ![t] = place[r]]]
  /\ status' = [status EXCEPT ![t] = "created"]
  /\ UNCHANGED context

\* TensorImpl::allocate: a new region, at any free address of each rank.
Allocate(t, place) ==
  /\ InProgram /\ status[t] = "invalid" /\ t \notin Dense
  /\ \A r \in Ranks : region[r][place[r]] = "none"
  /\ region' = [r \in Ranks |-> [region[r] EXCEPT ![place[r]] = "created"]]
  /\ owner' = [r \in Ranks |-> [owner[r] EXCEPT ![place[r]] = t]]
  /\ memory' = [r \in Ranks |-> memory[r] \cup {t}]
  /\ mpb' = [r \in Ranks |-> [mpb[r] EXCEPT ![t] = place[r]]]
  /\ registered' = [r \in Ranks |-> [registered[r] EXCEPT ![place[r]] = @ + 1]]
  /\ status' = [status EXCEPT ![t] = "created"]
  /\ UNCHANGED <<unregistered, result, pc>>

\* DenseTensorImpl::allocate: the array has no region.
AllocateDense(t) ==
  /\ InProgram /\ status[t] = "invalid" /\ t \in Dense
  /\ memory' = [r \in Ranks |-> memory[r] \cup {t}]
  /\ status' = [status EXCEPT ![t] = "created"]
  /\ UNCHANGED <<mpb, region, owner, context>>

\* The tensor is allocated and points to a region on every rank.
HasRegion(t) ==
  /\ status[t] = "created"
  /\ \A r \in Ranks : mpb[r][t] # nullptr /\ region[r][mpb[r][t]] \in {"created", "orphaned"}

\* Mutant: the region is deleted without the context being told.
MutNotUnregistered(t) ==
  /\ InProgram /\ t \notin Dense /\ HasRegion(t)
  /\ memory' = [r \in Ranks |-> memory[r] \ {owner[r][mpb[r][t]]}]
  /\ region' = [r \in Ranks |-> [region[r] EXCEPT ![mpb[r][t]] = "none"]]
  /\ mpb' = [r \in Ranks |-> [mpb[r] EXCEPT ![t] = nullptr]]
  /\ status' = [status EXCEPT ![t] = "deallocated"]
  /\ UNCHANGED <<owner, context>>

\* Mutant: mpb_ keeps the address of the deleted region.
MutKeepsPointer(t) ==
  /\ InProgram /\ t \notin Dense /\ HasRegion(t)
  /\ unregistered' = [r \in Ranks |-> [unregistered[r] EXCEPT ![mpb[r][t]] = @ + 1]]
  /\ memory' = [r \in Ranks |-> memory[r] \ {owner[r][mpb[r][t]]}]
  /\ region' = [r \in Ranks |-> [region[r] EXCEPT ![mpb[r][t]] = "none"]]
  /\ status' = [status EXCEPT ![t] = "deallocated"]
  /\ UNCHANGED <<mpb, owner, registered, result, pc>>

\* TensorImpl::deallocate: the region is unregistered, its array destroyed, and
\* the region deleted.
Deallocate(t) ==
  /\ InProgram /\ t \notin Dense /\ HasRegion(t)
  /\ unregistered' = [r \in Ranks |-> [unregistered[r] EXCEPT ![mpb[r][t]] = @ + 1]]
  /\ memory' = [r \in Ranks |-> memory[r] \ {owner[r][mpb[r][t]]}]
  /\ region' = [r \in Ranks |-> [region[r] EXCEPT ![mpb[r][t]] = "none"]]
  /\ mpb' = [r \in Ranks |-> [mpb[r] EXCEPT ![t] = nullptr]]
  /\ status' = [status EXCEPT ![t] = "deallocated"]
  /\ UNCHANGED <<owner, registered, result, pc>>

DeallocateDense(t) ==
  /\ InProgram /\ status[t] = "created" /\ t \in Dense
  /\ memory' = [r \in Ranks |-> memory[r] \ {t}]
  /\ status' = [status EXCEPT ![t] = "deallocated"]
  /\ UNCHANGED <<mpb, region, owner, context>>

\* The last handle of the tensor goes: ~TensorImpl leaves the region to the
\* context.
Drop(t) ==
  /\ InProgram /\ status[t] # "gone"
  /\ region' = [r \in Ranks |-> [a \in Addresses |->
                   IF a = mpb[r][t] THEN "orphaned" ELSE region[r][a]]]
  /\ mpb' = [r \in Ranks |-> [mpb[r] EXCEPT ![t] = nullptr]]
  /\ status' = [status EXCEPT ![t] = "gone"]
  /\ UNCHANGED <<owner, memory, context>>

-----------------------------------------------------------------------------

\* Mutant: an unregistered address is left out altogether.
MutDifference(m, n) == [a \in Addresses |-> IF n[a] > 0 THEN 0 ELSE m[a]]

\* std::set_difference of the two sorted vectors, where an address counts as
\* often as it occurs.
Difference(m, n) ==
  [a \in Addresses |-> IF m[a] > n[a] THEN m[a] - n[a] ELSE 0]

\* flush_and_sync begins with a barrier: no rank looks at its vectors before
\* all have come.
Flush ==
  /\ InProgram
  /\ result' = [r \in Ranks |-> Difference(registered[r], unregistered[r])]
  /\ registered' = [r \in Ranks |-> [a \in Addresses |-> 0]]
  /\ unregistered' = [r \in Ranks |-> [a \in Addresses |-> 0]]
  /\ pc' = [r \in Ranks |-> "flush"]
  /\ UNCHANGED <<status, mpb, region, owner, memory>>

\* The loop of a rank goes by rising address.
IsNext(r, a) == result[r][a] > 0 /\ \A b \in Addresses : result[r][b] > 0 => a <= b

\* Mutant: what is registered goes, in use or not.
MutFreesAll(r, a) ==
  /\ pc[r] = "flush" /\ IsNext(r, a)
  /\ memory' = [memory EXCEPT ![r] = @ \ {owner[r][a]}]
  /\ region' = [region EXCEPT ![r][a] = "none"]
  /\ result' = [result EXCEPT ![r][a] = @ - 1]
  /\ UNCHANGED <<status, mpb, owner, registered, unregistered, pc>>

\* An orphaned region goes with its array ...
FreeRegion(r, a) ==
  /\ pc[r] = "flush" /\ IsNext(r, a)
  /\ region[r][a] = "orphaned"
  /\ memory' = [memory EXCEPT ![r] = @ \ {owner[r][a]}]
  /\ region' = [region EXCEPT ![r][a] = "none"]
  /\ result' = [result EXCEPT ![r][a] = @ - 1]
  /\ UNCHANGED <<status, mpb, owner, registered, unregistered, pc>>

\* ... and any other is registered again.
KeepRegion(r, a) ==
  /\ pc[r] = "flush" /\ IsNext(r, a)
  /\ region[r][a] # "orphaned"
  /\ registered' = [registered EXCEPT ![r][a] = @ + 1]
  /\ result' = [result EXCEPT ![r][a] = @ - 1]
  /\ UNCHANGED <<status, mpb, region, owner, memory, unregistered, pc>>

FlushReturns(r) ==
  /\ pc[r] = "flush" /\ \A a \in Addresses : result[r][a] = 0
  /\ pc' = [pc EXCEPT ![r] = "user"]
  /\ UNCHANGED <<status, mpb, region, owner, memory, registered, unregistered, result>>

FlushStep(r) == (\E a \in Addresses : FreeRegion(r, a) \/ KeepRegion(r, a)) \/ FlushReturns(r)

Next ==
  \/ \E t \in Tensors : \E place \in [Ranks -> Addresses] : Allocate(t, place)
  \/ \E t \in Tensors : AllocateDense(t) \/ Deallocate(t) \/ DeallocateDense(t) \/ Drop(t)
  \/ Flush
  \/ \E r \in Ranks : FlushStep(r)

Spec == Init /\ [][Next]_vars

-----------------------------------------------------------------------------

\* The flush looks at no region that has been deleted, however often its
\* address was registered, unregistered and used again
\* (execution_context.hpp:301-311).
FlushSeesRegions ==
  \A r \in Ranks : \A a \in Addresses : result[r][a] > 0 => region[r][a] # "none"

\* An allocated tensor has its memory, and its region is its own
\* (tensor_impl.hpp:292-294).
InUse ==
  \A r \in Ranks : \A t \in Tensors : status[t] = "created" =>
    /\ t \in memory[r]
    /\ t \notin Dense => /\ mpb[r][t] # nullptr
                         /\ region[r][mpb[r][t]] = "created" /\ owner[r][mpb[r][t]] = t

\* Whatever addresses the heaps of the ranks give, ranks that are not in a flush
\* have the memory of the same tensors: where one rank destroys an array, a
\* collective call, all do (execution_context.hpp:299-318).
SameMemory ==
  \A q, r \in Ranks : pc[q] = "user" /\ pc[r] = "user" => memory[q] = memory[r]

\* Memory goes only when its tensor is deallocated or cannot be referenced any
\* more.
OnlyUnreferenced ==
  [][\A r \in Ranks : \A t \in memory[r] :
       t \notin memory'[r] => status'[t] \in {"deallocated", "gone"}]_vars

\* A flush leaves no memory of tensors that cannot be referenced any more, but
\* for dense ones, of which the context does not know
\* (tensor_construction.rst:228-236, execution_context.hpp:299-318).
ReclaimsAll ==
  [][\A r \in Ranks : pc[r] = "flush" /\ pc'[r] = "user" =>
       \A t \in memory[r] : status[t] = "gone" => t \in Dense]_vars
=============================================================================
