---------------------------- MODULE BlockKernels ----------------------------
(***************************************************************************)
(* What is done to blocks in memory: setting, adding and multiplying       *)
(* (block_set_plan.hpp, block_assign_plan.hpp, blockops_cpu.hpp,           *)
(* kernels/assign.hpp, kernels/multiply.hpp).  A block is its dimensions   *)
(* and a buffer, the last dimension running fastest; labels are any        *)
(* values.  hptt and gemm are what their names say.                        *)
(***************************************************************************)
EXTENDS Integers, SequencesExt, FiniteSetsExt

LOCAL Elements(s) == {s[k] : k \in DOMAIN s}
First(s, x) == CHOOSE k \in DOMAIN s : s[k] = x /\ \A j \in 1 .. k - 1 : s[j] # x
unique(s) == FoldLeft(LAMBDA acc, x : IF x \in Elements(acc) THEN acc ELSE Append(acc, x), <<>>, s)
Product(s) == FoldLeft(LAMBDA acc, n : acc * n, 1, s)
Dot(s, x) == FoldLeft(LAMBDA acc, k : acc + s[k] * x[k], 0, [k \in DOMAIN s |-> k])
SumOver(S, op(_)) == MapThenSumSet(op, S)

\* All indices of loops with these dimensions, and whether x comes before y.
Indices(dims) ==
  {x \in [DOMAIN dims -> 0 .. Max({0} \cup Elements(dims))] : \A k \in DOMAIN dims : x[k] < dims[k]}
Before(x, y) == \E k \in DOMAIN x : x[k] < y[k] /\ \A j \in 1 .. k - 1 : x[j] = y[j]

exclusive_product(dims) == [k \in DOMAIN dims |-> Product(SubSeq(dims, k + 1, Len(dims)))]

-----------------------------------------------------------------------------
\* Loops over the unique labels of one or two blocks; a label that comes twice in
\* a block steps along the diagonal.

\* Mutant: a label that comes twice steps along the first of its modes.
MutU2ald(labels, dims, uniqueLabels) ==
  [u \in DOMAIN uniqueLabels |->
     IF uniqueLabels[u] \in Elements(labels)
     THEN exclusive_product(dims)[First(labels, uniqueLabels[u])] ELSE 0]
u2ald(labels, dims, uniqueLabels) ==
  [u \in DOMAIN uniqueLabels |->
     SumOver({k \in DOMAIN labels : labels[k] = uniqueLabels[u]}, LAMBDA k : exclusive_product(dims)[k])]

\* The last dimension seen for a label counts.
unique_label_dims(labels, dims, uniqueLabels) ==
  [u \in DOMAIN uniqueLabels |->
     dims[CHOOSE k \in DOMAIN labels : labels[k] = uniqueLabels[u]
            /\ \A j \in DOMAIN labels : labels[j] = uniqueLabels[u] => j <= k]]

ipgen_loop_set(buf, ld, value, dims) ==
  [o \in DOMAIN buf |-> IF \E x \in Indices(dims) : Dot(ld, x) = o THEN value ELSE buf[o]]
ipgen_loop_add(buf, ld, value, dims) ==
  [o \in DOMAIN buf |-> buf[o] + value * Cardinality({x \in Indices(dims) : Dot(ld, x) = o})]

Reaches(x, o, ld) == Dot(ld, x) = o
\* Of several values assigned to one place the last stays.
ipgen_loop_assign(lbuf, lld, scale, rbuf, rld, dims) ==
  [o \in DOMAIN lbuf |->
     LET to == {x \in Indices(dims) : Reaches(x, o, lld)}
         last == CHOOSE x \in to : \A y \in to : x = y \/ Before(y, x)
     IN IF to = {} THEN lbuf[o] ELSE scale * rbuf[Dot(rld, last)]]
ipgen_loop_update(lbuf, lld, scale, rbuf, rld, dims) ==
  [o \in DOMAIN lbuf |->
     lbuf[o] + SumOver({x \in Indices(dims) : Reaches(x, o, lld)}, LAMBDA x : scale * rbuf[Dot(rld, x)])]

flat_set(buf, value) == [o \in DOMAIN buf |-> value]
flat_add(buf, value) == [o \in DOMAIN buf |-> buf[o] + value]
flat_assign(lbuf, scale, rbuf) == [o \in DOMAIN lbuf |-> scale * rbuf[o]]
flat_update(lbuf, scale, rbuf) == [o \in DOMAIN lbuf |-> lbuf[o] + scale * rbuf[o]]

\* dst = beta * dst + scale * src, mode k of dst being mode perm[k] of src.
index_permute_hptt(beta, dst, scale, src, perm, sdims) ==
  LET ddims == [k \in DOMAIN perm |-> sdims[perm[k]]]
      Source(x) == [j \in DOMAIN sdims |-> x[First(perm, j)]]
      IndexOf(o) == CHOOSE x \in Indices(ddims) : Dot(exclusive_product(ddims), x) = o
  IN [o \in DOMAIN dst |-> beta * dst[o] + scale * src[Dot(exclusive_product(sdims), Source(IndexOf(o)))]]

-----------------------------------------------------------------------------
BlockSetPlan(labels, isAssign, dims, buf, value) ==
  LET u == unique(labels)
      ld == u2ald(labels, dims, u)
      ud == unique_label_dims(labels, dims, u)
  IN CASE Len(u) = Len(labels) /\ isAssign  -> flat_set(buf, value)
       [] Len(u) = Len(labels) /\ ~isAssign -> flat_add(buf, value)
       [] Len(u) < Len(labels) /\ isAssign  -> ipgen_loop_set(buf, ld, value, ud)
       [] Len(u) < Len(labels) /\ ~isAssign -> ipgen_loop_add(buf, ld, value, ud)

are_permutations(s, t) ==
  Len(s) = Len(t) /\ Elements(s) = Elements(t) /\ Cardinality(Elements(s)) = Len(s)

\* The first plan that the labels allow.
PlanFor(llabels, rlabels) ==
  CASE ~are_permutations(llabels, rlabels) -> "ipgen_loop"
    [] llabels = rlabels                   -> "flat"
    [] OTHER                               -> "hptt"

BlockAssignPlan(llabels, rlabels, isAssign, ldims, lbuf, scale, rdims, rbuf) ==
  LET u == unique(llabels \o rlabels)
      ud == unique_label_dims(llabels \o rlabels, ldims \o rdims, u)
      lld == u2ald(llabels, ldims, u)
      rld == u2ald(rlabels, rdims, u)
      perm == [k \in DOMAIN llabels |-> First(rlabels, llabels[k])]
      plan == PlanFor(llabels, rlabels)
  IN CASE plan = "flat" /\ isAssign        -> flat_assign(lbuf, scale, rbuf)
       [] plan = "flat" /\ ~isAssign       -> flat_update(lbuf, scale, rbuf)
       [] plan = "hptt"                    ->
            index_permute_hptt(IF isAssign THEN 0 ELSE 1, lbuf, scale, rbuf, perm, rdims)
       [] plan = "ipgen_loop" /\ isAssign  -> ipgen_loop_assign(lbuf, lld, scale, rbuf, rld, ud)
       [] plan = "ipgen_loop" /\ ~isAssign -> ipgen_loop_update(lbuf, lld, scale, rbuf, rld, ud)

-----------------------------------------------------------------------------
\* The product of blocks: both are brought into an order of modes where gemm can
\* be called, for every slice.

\* One loop per mode of the destination, each with the stride of the first mode
\* that has its label.
ip_gen_loop(dst, ddims, dlabels, scale, src, sdims, slabels, isAssign) ==
  LET loops == SubSeq(unique(dlabels \o slabels), 1, Len(ddims))
      Stride(labels, dims, l) == IF l \in Elements(labels) THEN exclusive_product(dims)[First(labels, l)] ELSE 0
      Dim(l) == IF l \in Elements(dlabels) THEN ddims[First(dlabels, l)] ELSE sdims[First(slabels, l)]
      ld(labels, dims) == [k \in DOMAIN loops |-> Stride(labels, dims, loops[k])]
      over == [k \in DOMAIN loops |-> Dim(loops[k])]
  IN IF isAssign THEN ipgen_loop_assign(dst, ld(dlabels, ddims), scale, src, ld(slabels, sdims), over)
     ELSE ipgen_loop_update(dst, ld(dlabels, ddims), scale, src, ld(slabels, sdims), over)

assign(dst, ddims, dlabels, scale, src, sdims, slabels, isAssign) ==
  IF are_permutations(slabels, dlabels)
  THEN index_permute_hptt(IF isAssign THEN 0 ELSE 1, dst, scale, src,
                          [k \in DOMAIN dlabels |-> First(slabels, dlabels[k])], sdims)
  ELSE ip_gen_loop(dst, ddims, dlabels, scale, src, sdims, slabels, isAssign)

\* The modes of one block whose labels are in the others or not, as <<label, dim>>.
Modes(labels, dims, in, notIn) ==
  SelectSeq([k \in DOMAIN labels |-> <<labels[k], dims[k]>>],
            LAMBDA m : (\A s \in in : m[1] \in Elements(s)) /\ (\A t \in notIn : m[1] \notin Elements(t)))
LabelsOf(modes) == [k \in DOMAIN modes |-> modes[k][1]]
DimsOf(modes) == [k \in DOMAIN modes |-> modes[k][2]]

\* A gemm for every batch adds into the same slice of c, for one slice of the
\* modes only in a and one of those only in b.
gemm(c, alpha, a, b, beta, ari, bri, B, M, N, K) ==
  [o \in DOMAIN c |->
     LET i == o \div (M * N)
         m == (o % (M * N)) \div N
         n == o % N
     IN beta * c[o] + alpha * SumOver(0 .. K - 1, LAMBDA k :
          a[((ari * B + i) * M + m) * K + k] * b[((bri * B + i) * K + k) * N + n])]
gemm_wrapper(c, alpha, a, b, beta, AR, BR, B, M, N, K) ==
  FoldLeft(LAMBDA acc, s : gemm(acc, alpha, a, b, beta, (s - 1) \div BR, (s - 1) % BR, B, M, N, K),
           c, [s \in 1 .. AR * BR |-> s])

Zeros(dims) == [o \in 0 .. Product(dims) - 1 |-> 0]

BInter(breduce, batch, inner, bouter) == breduce \o batch \o inner \o bouter

Transposed(x, modes) ==
  assign(Zeros(x.dims), DimsOf(modes), LabelsOf(modes), 1, x.buf, x.dims, x.labels, TRUE)

block_multiply(alpha, a, b, beta, c, isAssign) ==
  LET batch   == Modes(c.labels, c.dims, {a.labels, b.labels}, {})
      aouter  == Modes(c.labels, c.dims, {a.labels}, {b.labels})
      bouter  == Modes(c.labels, c.dims, {b.labels}, {a.labels})
      inner   == Modes(a.labels, a.dims, {b.labels}, {c.labels})
      areduce == Modes(a.labels, a.dims, {}, {b.labels, c.labels})
      breduce == Modes(b.labels, b.dims, {}, {a.labels, c.labels})
      size(modes) == Product(DimsOf(modes))
      ainter  == areduce \o batch \o aouter \o inner
      binter  == BInter(breduce, batch, inner, bouter)
      cinter  == batch \o aouter \o bouter
      product == gemm_wrapper(Zeros(c.dims), alpha, Transposed(a, ainter), Transposed(b, binter), beta,
                              size(areduce), size(breduce), size(batch), size(aouter), size(bouter), size(inner))
  IN assign(c.buf, c.dims, c.labels, 1, product, DimsOf(cinter), LabelsOf(cinter), isAssign)
=============================================================================
