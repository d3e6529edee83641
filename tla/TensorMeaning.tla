--------------------------- MODULE TensorMeaning ----------------------------
(***************************************************************************)
(* What operations do to whole tensors when they are executed one at a     *)
(* time: the meaning of a program, against which the scheduled and         *)
(* distributed execution is compared.  A tensor holds one number, and the  *)
(* operation at position k of the program has scale factor k.              *)
(***************************************************************************)
EXTENDS TensorOps, FiniteSetsExt

\* A product has two operands, which may be the same tensor.
Product(f, S) ==
  LET a == CHOOSE t \in S : TRUE
      b == IF S = {a} THEN a ELSE CHOOSE t \in S \ {a} : TRUE
  IN f[a] * f[b]

\* The value of the right-hand side: alpha * (sum or product of the operands),
\* or what the function of a map returns for them.
Value(op, k, mem) ==
  CASE op.kind = "mult" -> k * Product(mem, op.rhs)
    [] op.kind = "add"  -> k * SumFunctionOnSet(mem, op.rhs)
    [] op.kind = "map"  -> k + SumFunctionOnSet(mem, op.rhs)
    [] OTHER            -> k

\* The contents of the tensors, and what each scan has seen.  Allocating and
\* deallocating leave a value that nothing else produces.
Apply(op, k, st) ==
  CASE op.kind = "scan" -> [st EXCEPT !.seen[k] = st.mem[op.lhs]]
    [] op.kind \in {"alloc", "dealloc"} -> [st EXCEPT !.mem[op.lhs] = -k]
    [] OTHER -> [st EXCEPT !.mem[op.lhs] =
                   (IF op.assign THEN 0 ELSE st.mem[op.lhs]) + Value(op, k, st.mem)]

\* The operations ops[order[first]], ..., ops[order[last]] one after the other.
RunFrom(st, ops, order, first, last) ==
  LET after[k \in first - 1 .. last] ==
        IF k < first THEN st ELSE Apply(ops[order[k]], order[k], after[k - 1])
  IN after[last]
=============================================================================
