--------------------------- MODULE TensorRoutines ---------------------------
(***************************************************************************)
(* Programs that call the routines on whole tensors and files one after    *)
(* the other (tamm_utils.hpp, tamm_io.hpp, eigen_utils.hpp).  All ranks    *)
(* run the same program, each at its own pace: a rank waits for others     *)
(* only in the collective calls of RoutinePhases.  A program may end and     *)
(* start again on another machine, where only the files are left.          *)
(*                                                                         *)
(* Values are integers.  norm is modelled by the square it is the root of. *)
(***************************************************************************)
EXTENDS TensorAccess

CONSTANTS Machines \* the machines a program may run on

ASSUME RoutinesAssumption == \A m \in Machines : m.ranks \in Nat \ {0} /\ m.ppn \in Nat \ {0}

VARIABLES program,           \* the number of the program
          at, phase,         \* the call a rank is in, and the phase of it
          pos, buf,          \* the block a rank has got to in a loop, and its buffer
          local,             \* <<the call a rank is in, what it has computed in it>>
          next,              \* the ticket a rank has drawn
          joined, posted,    \* by call and rank: the phases in which ranks have met, what
                             \* they have sent
          result,            \* <<a rank's last call, what it has returned>>
          own,               \* the local tensors of a rank
          files

ranks == <<at, phase, pos, buf, local, next, result, own>>
places == <<memory, arrays, files>>
sent == <<joined, posted>>
vars == <<machine, program, ranks, sent, places>>

Nothing == <<"nothing", 0>>

\* Computed once.
ProgramOf == Table([p \in DOMAIN Programs |-> Programs[p]])
PhasesOf == Table([id \in CallIds |-> Phases(Programs[id[1]][id[2]])])
Offsets == Table([k \in DOMAIN Elements |-> FileOffset(k[1], k[2])])

\* What newly allocated tensors hold.
NewMemory ==
  [t \in Tensors |-> [b \in NonZero(t) |-> [k \in DOMAIN Elements[t, b] |-> Garbage]]]

\* The value that rank r is given for an element.
ValueAt(c, r, x) ==
  CASE c.do = "identity_matrix" -> 0
    [] c.do = "eigen_to_tamm_tensor_acc" -> IF r < Len(c.parts) THEN c.parts[r + 1][x] ELSE 0
    [] OTHER -> c.values[x]

-----------------------------------------------------------------------------
(* What is done with the buffer of a block.                                *)

\* The blocks on the diagonal of a tensor whose two dimensions are tiled alike.
OnDiagonal(b) == b[1] = b[2]

\* Mutant: the elements of a row are taken.
MutDiagonalPos(t, b, i) == i + 1

\* The position of the i-th element of the diagonal in the buffer of such a block.
DiagonalPos(t, b, i) == i * BlockDims(Shape(t), b)[1] + i + 1

DiagonalOf(t, b, buffer) ==
  [i \in 1 .. BlockDims(Shape(t), b)[1] |-> buffer[DiagonalPos(t, b, i - 1)]]

Prints == {"print_max_above_threshold", "print_tensor", "print_tensor_all", "tensor_to_string",
           "print_dense_tensor"}

\* Does the loop do anything for the block?
Visits(c, ph, b) ==
  /\ "file" \in {ph.from.in, ph.to.in} => b \in NonZero(ph.over)
  /\ c.do \in Prints \cup {"compute_tensor_size"} => b \in NonZero(ph.over)
  /\ c.do \in {"diagonal", "trace", "trace_sqr", "identity_matrix", "update_diagonal"}
       /\ ph.from = Memory(c.t) => OnDiagonal(b)
  /\ c.do = "get_tensor_element" => Where[c.t, c.coord].block = b
  /\ c.do = "update_tensor_val" => b \in NonZero(ph.over) /\ Where[c.t, c.coord].block = b

Filled(c, r, t, b) == [k \in DOMAIN Elements[t, b] |-> ValueAt(c, r, Elements[t, b][k])]

\* What is got for a block of t.
Fetched(c, r, t, b, from) ==
  LET xs == Elements[t, b]
      Written(f, k) == IF k \in DOMAIN f THEN f[k] ELSE Garbage
  IN  CASE from.in = "memory" -> Get(from.name, b)
        [] from.in = "array" -> DenseGet(from.name, t, b)
        [] from.in = "patch" ->
             [k \in DOMAIN xs |-> At(from.name, [d \in DOMAIN xs[k] |-> xs[k][d] + c.lo[d]])]
        [] from.in = "local" -> [k \in DOMAIN xs |-> local[r][2][xs[k]]]
        [] from.in = "file" -> [k \in DOMAIN xs |-> Written(files[from.name], Offsets[t, b] + k)]
        [] from.in = "values" -> Filled(c, r, t, b)

UpdatedVal(c, b, buffer) ==
  LET s == Shape(c.t)
      dims == BlockDims(s, b)
      offs == BlockOffsets(s, b)
      rd(x) == (c.coord[x] - offs[x]) * ProductSeq(SubSeq(dims, x + 1, Len(dims)))
      valPos == SumSeq([x \in DOMAIN dims |-> rd(x)])
  IN  [buffer EXCEPT ![valPos + 1] = c.val]

\* The block with other elements on its diagonal.
UpdatedDiagonal(c, b, buffer, new) ==
  LET On(k) == {i \in DOMAIN new : k = DiagonalPos(c.t, b, i - 1)}
  IN  [k \in DOMAIN buffer |-> IF On(k) = {} THEN buffer[k] ELSE new[CHOOSE i \in On(k) : TRUE]]

ScaledBlock(c, buffer) == [k \in DOMAIN buffer |-> c.alpha * buffer[k]]
SetVal(c, buffer) == [k \in DOMAIN buffer |-> c.alpha]

\* What a call turns the buffer into.
Changed(c, r, ph, b, buffer) ==
  CASE c.do \in {"scale_ip", "apply_ewise"} -> ScaledBlock(c, buffer)
    [] c.do = "set_val_ip" -> SetVal(c, buffer)
    [] c.do \in {"update_tensor", "update_tensor_general"} -> Filled(c, r, c.t, b)
    [] c.do = "update_tensor_val" -> UpdatedVal(c, b, buffer)
    [] c.do = "update_diagonal" ->
         LET old == DiagonalOf(c.t, b, buffer)
             first == BlockOffsets(Shape(c.t), b)[1]
         IN  UpdatedDiagonal(c, b, buffer, [i \in DOMAIN old |-> old[i] + c.dvec[first + i]])
    [] c.do = "identity_matrix" /\ ph.how = "root" ->
         UpdatedDiagonal(c, b, buffer, [i \in 1 .. BlockDims(Shape(c.t), b)[1] |-> 1])
    [] OTHER -> buffer

-----------------------------------------------------------------------------
(* What a rank computes from the blocks it has got.                        *)

LocalStart(c) ==
  CASE c.do = "diagonal" -> <<>>
    [] c.do \in Prints -> {}
    [] c.do \in {"tamm_tensor_to_vector", "tamm_to_eigen_tensor", "retile_rank2_tensor"} ->
         [x \in Coords(Shape(c.t)) |-> 0]
    [] c.do \in {"max_element", "min_element"} ->
         [val |-> 0, block |-> [d \in DOMAIN Shape(c.t) |-> 0],
          coord |-> [d \in DOMAIN Shape(c.t) |-> 0]]
    [] OTHER -> 0

Squares(s) == SumSeq([k \in DOMAIN s |-> s[k] * s[k]])

\* The first element that Better prefers to what was found so far.
Extreme(t, b, buffer, found, Better(_, _)) ==
  LET Look(acc, k) ==
        IF Better(buffer[k], acc.val)
        THEN [val |-> buffer[k], block |-> b,
              coord |-> [d \in DOMAIN b |-> Elements[t, b][k][d] - BlockOffsets(Shape(t), b)[d]]]
        ELSE acc
  IN  FoldLeft(Look, found, [k \in DOMAIN buffer |-> k])

MaxElement(t, b, buffer, found) ==
  LET Larger(v, w) == w < v IN Extreme(t, b, buffer, found, Larger)
MinElement(t, b, buffer, found) ==
  LET Smaller(v, w) == w > v IN Extreme(t, b, buffer, found, Smaller)

LinfNorm(buffer, found) ==
  FoldLeft(LAMBDA acc, v : IF Abs(acc) < Abs(v) THEN v ELSE acc, found, buffer)

AboveThreshold(c, b, buffer) ==
  {<<Elements[c.t, b][k], buffer[k]>> :
     k \in {j \in DOMAIN buffer : Abs(buffer[j]) > c.tol /\ Asked(c, Elements[c.t, b][j])}}

TraceOf(t, b, buffer) == SumSeq(DiagonalOf(t, b, buffer))
TraceSqr(t, b, buffer) == Squares(DiagonalOf(t, b, buffer))

\* patch_copy: the elements of the block in the place of the whole.
PatchCopy(t, b, buffer, whole) ==
  [x \in DOMAIN whole |-> LET w == Where[t, x] IN IF w.block = b THEN buffer[w.pos] ELSE whole[x]]

Gathered(c, b, buffer, acc) ==
  CASE c.do = "sum" -> acc + SumSeq(buffer)
    [] c.do = "norm" -> acc + Squares(buffer)
    [] c.do = "linf_norm" -> LinfNorm(buffer, acc)
    [] c.do = "trace" -> acc + TraceOf(c.t, b, buffer)
    [] c.do = "trace_sqr" -> acc + TraceSqr(c.t, b, buffer)
    [] c.do = "diagonal" -> acc \o DiagonalOf(c.t, b, buffer)
    [] c.do = "max_element" -> MaxElement(c.t, b, buffer, acc)
    [] c.do = "min_element" -> MinElement(c.t, b, buffer, acc)
    [] c.do \in {"tamm_tensor_to_vector", "tamm_to_eigen_tensor", "retile_rank2_tensor"} ->
         PatchCopy(c.t, b, buffer, acc)
    [] c.do \in Prints -> acc \cup AboveThreshold(c, b, buffer)
    [] c.do = "get_tensor_element" -> buffer[Where[c.t, c.coord].pos]
    [] c.do = "compute_tensor_size" -> acc + Len(buffer)
    [] c.do = "get_scalar" -> buffer[1]

\* What a call returns from what the ranks have sent each other, or by itself.
Returned(c, r, all) ==
  LET Best(Better(_, _)) ==
        CHOOSE s \in Ranks : \A q \in Ranks :
          /\ ~Better(all[q][1], all[s][1])
          /\ q < s => Better(all[s][1], all[q][1])
  IN  CASE c.do \in {"sum", "norm", "trace", "trace_sqr"} ->
             SumSeq([k \in 1 .. machine.ranks |-> all[k - 1][1]])
        [] c.do = "linf_norm" ->
             LET Larger(v, w) == Abs(v) > Abs(w) IN all[Best(Larger)][1]
        [] c.do = "max_element" -> LET Larger(v, w) == v.val > w.val IN all[Best(Larger)][1]
        [] c.do = "min_element" -> LET Smaller(v, w) == v.val < w.val IN all[Best(Smaller)][1]
        [] c.do = "diagonal" -> all[0][1]
        [] OTHER -> local[r][2]

-----------------------------------------------------------------------------
(* The steps of a rank.                                                    *)

calls == ProgramOf[program]
PastEnd == Len(calls) + 1
Running(r) == at[r] < PastEnd /\ calls[at[r]].do # "restart"
HasPhase(r) == Running(r) /\ phase[r] <= Len(PhasesOf[program, at[r]])
Call(r) == calls[at[r]]
Phase(r) == PhasesOf[program, at[r]][phase[r]]

\* The ranks that rank r does the phase with.
Group(r, ph) == IF ph.task \in {Always, next[r]} THEN Members(ph.who, Call(r), r) ELSE {}

\* Does rank r do the phase?
Does(r, ph) ==
  /\ r \in Group(r, ph)
  /\ ph.kind = "loop" /\ ph.how = "root" => r = 0

\* Does rank s meet others in phase p of call k, or has it?
Met(s, k, p) == p \in joined[k][s]
Meets(s, k, p) == Met(s, k, p) \/ (at[s] = k /\ phase[s] = p /\ Does(s, Phase(s)))

Advance(r) == phase' = [phase EXCEPT ![r] = @ + 1]

PassBy(r) ==
  /\ HasPhase(r) /\ ~Does(r, Phase(r))
  /\ Advance(r)
  /\ UNCHANGED <<machine, program, at, pos, buf, local, next, result, own, sent, places>>

\* The first rank that leaves a collective call has created what it creates.
Creator(r) == \A s \in Group(r, Phase(r)) : ~Met(s, at[r], phase[r])

Collective(r) ==
  LET ph == Phase(r)
      place == ph.creates
      Creates(in) == Creator(r) /\ place.in = in
  IN  /\ \A s \in Group(r, ph) : Meets(s, at[r], phase[r])
      /\ joined' = [joined EXCEPT ![at[r]][r] = @ \cup {phase[r]}]
      /\ memory' = IF Creates("memory")
                   THEN [memory EXCEPT ![place.name] = NewMemory[place.name]] ELSE memory
      /\ arrays' = IF Creates("array") THEN [arrays EXCEPT ![place.name] = <<>>] ELSE arrays
      /\ files' = IF Creates("file") THEN [files EXCEPT ![place.name] = <<>>] ELSE files
      /\ Advance(r)
      /\ pos' = [pos EXCEPT ![r] = 0]
      /\ UNCHANGED <<machine, program, at, buf, local, next, result, own, posted>>

\* In a shared loop the next block is the one after the last that any rank has
\* drawn; a rank keeps what it has drawn until the loop has ended for all.
NextPos(r, ph) ==
  LET there == {s \in Group(r, ph) : at[s] = at[r] /\ phase[s] \in {phase[r], phase[r] + 1}}
  IN  1 + IF ph.how = "share" THEN Max({pos[s] : s \in there}) ELSE pos[r]

GetBlock(r) ==
  LET ph == Phase(r)
      n == NextPos(r, ph)
      b == Nest[ph.over][n]
  IN  /\ n <= Len(Nest[ph.over])
      /\ pos' = [pos EXCEPT ![r] = n]
      /\ buf' = [buf EXCEPT ![r] = IF Visits(Call(r), ph, b)
                                  THEN Fetched(Call(r), r, ph.over, b, ph.from) ELSE @]
      /\ UNCHANGED <<machine, program, at, phase, local, next, result, own, sent, places>>

EndLoop(r) ==
  /\ NextPos(r, Phase(r)) > Len(Nest[Phase(r).over])
  /\ Advance(r)
  /\ pos' = [pos EXCEPT ![r] = IF Phase(r).how = "share" THEN @ ELSE 0]
  /\ UNCHANGED <<machine, program, at, buf, local, next, result, own, sent, places>>

\* The buffer after the function of the call, and what is then done with it.
PutBlock(r, ph, b, new) ==
  LET name == ph.to.name
  IN  CASE ph.to.in = "memory" ->
             /\ memory' = TensorPut(name, b, new)
             /\ UNCHANGED <<arrays, files, local>>
        [] ph.to.in = "sum" /\ ~IsDense(name) ->
             /\ memory' = IF IsView(name) THEN ViewAdd(name, b, new) ELSE TensorAdd(name, b, new)
             /\ UNCHANGED <<arrays, files, local>>
        [] ph.to.in = "sum" /\ IsDense(name) ->
             /\ arrays' = DenseAdd(name, name, b, new)
             /\ UNCHANGED <<memory, files, local>>
        [] ph.to.in = "array" ->
             /\ arrays' = DensePut(name, ph.over, b, new)
             /\ UNCHANGED <<memory, files, local>>
        [] ph.to.in = "file" ->
             /\ files' = [files EXCEPT ![name] =
                  [k \in {Offsets[ph.over, b] + j : j \in DOMAIN new} |->
                     new[k - Offsets[ph.over, b]]] @@ @]
             /\ UNCHANGED <<memory, arrays, local>>
        [] ph.to.in = "local" ->
             /\ local' = [local EXCEPT ![r][2] = Gathered(Call(r), b, new, @)]
             /\ UNCHANGED places

StoreBlock(r) ==
  LET ph == Phase(r)
      b == Nest[ph.over][pos[r]]
  IN  /\ PutBlock(r, ph, b, Changed(Call(r), r, ph, b, buf[r]))
      /\ buf' = [buf EXCEPT ![r] = <<>>]
      /\ UNCHANGED <<machine, program, at, phase, pos, next, result, own, sent>>

Send(r, value) == posted' = [posted EXCEPT ![at[r]][r] = Append(@, value)]

SendLocal(r) ==
  /\ Send(r, local[r][2])
  /\ Advance(r)
  /\ UNCHANGED <<machine, program, at, pos, buf, local, next, result, own, joined, places>>

ReceiveRoot(r) ==
  /\ posted[at[r]][0] # <<>>
  /\ Advance(r)
  /\ UNCHANGED <<machine, program, at, pos, buf, local, next, result, own, sent, places>>

\* Mutant: every rank draws for itself.
MutDrawer(r) == r

\* The first rank of the group of a rank.
Drawer(r) == LET G == Group(r, Phase(r)) IN CHOOSE d \in G : \A s \in G : d <= s

\* The first rank of a group draws from the counter and sends the ticket to the
\* others, who keep what they have received as if they had sent it.
DrawTicket(r) ==
  LET drawer == Drawer(r)
      tickets == posted[at[r]]
      seen == Len(tickets[r])
      drawn == UNION {ToSet(tickets[s]) : s \in Ranks}
      ticket == IF r = drawer THEN Cardinality(drawn) ELSE tickets[drawer][seen + 1]
  IN  /\ r # drawer => Len(tickets[drawer]) > seen
      /\ Send(r, ticket)
      /\ next' = [next EXCEPT ![r] = ticket]
      /\ Advance(r)
      /\ UNCHANGED <<machine, program, at, pos, buf, local, result, own, joined, places>>

\* What rank r does with its own local tensors.
OwnChanged(c, mine) ==
  LET l == mine[c.name]
  IN  CASE c.do = "local_init" -> [mine EXCEPT ![c.name] = LT!init(LT!LocalTensor(c.dims), c.val)]
        [] c.do = "local_set" -> [mine EXCEPT ![c.name] = LT!set(l, c.coord, c.val)]
        [] c.do = "local_put" -> [mine EXCEPT ![c.name] = LT!put(l, c.buffer)]
        [] c.do = "local_add" -> [mine EXCEPT ![c.name] = LT!add(l, c.buffer)]
        [] c.do = "local_resize" -> [mine EXCEPT ![c.name] = LT!resize(l, c.dims)]
        [] c.do = "local_block" -> [mine EXCEPT ![c.to] = LT!block(l, c.coord, c.dims)]

ChangeOwn(r) ==
  /\ own' = [own EXCEPT ![r] = OwnChanged(Call(r), @)]
  /\ Advance(r)
  /\ UNCHANGED <<machine, program, at, pos, buf, local, next, result, sent, places>>

DoPhase(r) ==
  /\ HasPhase(r) /\ Does(r, Phase(r))
  /\ CASE Phase(r).kind = "alone" -> ChangeOwn(r)
       [] Phase(r).kind = "sync" -> Collective(r)
       [] Phase(r).kind = "loop" /\ buf[r] = <<>> -> GetBlock(r) \/ EndLoop(r)
       [] Phase(r).kind = "loop" /\ buf[r] # <<>> -> StoreBlock(r)
       [] Phase(r).kind = "post" -> SendLocal(r)
       [] Phase(r).kind = "receive" -> ReceiveRoot(r)
       [] Phase(r).kind = "draw" -> DrawTicket(r)

OnAll(m, v) == [r \in 0 .. m.ranks - 1 |-> v]
LocalAt(k) == IF k < PastEnd THEN <<calls[k].do, LocalStart(calls[k])>> ELSE Nothing

\* The last rank to return takes what was sent and who has met with it.
Return(r) ==
  /\ Running(r) /\ phase[r] > Len(PhasesOf[program, at[r]])
  /\ result' = [result EXCEPT ![r] = <<Call(r).do, Returned(Call(r), r, posted[at[r]])>>]
  /\ LET isLast == \A s \in Ranks \ {r} : at[s] > at[r]
     IN  /\ posted' = IF isLast THEN [posted EXCEPT ![at[r]] = OnAll(machine, <<>>)] ELSE posted
         /\ joined' = IF isLast THEN [joined EXCEPT ![at[r]] = OnAll(machine, {})] ELSE joined
  /\ at' = [at EXCEPT ![r] = @ + 1]
  /\ phase' = [phase EXCEPT ![r] = 1]
  /\ local' = [local EXCEPT ![r] = LocalAt(at[r] + 1)]
  /\ next' = [next EXCEPT ![r] = Always]
  /\ UNCHANGED <<machine, program, pos, buf, own, places>>

-----------------------------------------------------------------------------

\* A program starts with tensors that hold values and without files.
Init ==
  /\ machine \in Machines
  /\ program \in DOMAIN ProgramOf
  /\ at = OnAll(machine, 1)
  /\ phase = OnAll(machine, 1)
  /\ pos = OnAll(machine, 0)
  /\ buf = OnAll(machine, <<>>)
  /\ local = OnAll(machine, LocalAt(1))
  /\ next = OnAll(machine, Always)
  /\ result = OnAll(machine, Nothing)
  /\ own = OnAll(machine, Table([n \in LocalNames |-> LT!LocalTensor(<<0>>)]))
  /\ joined = [k \in DOMAIN calls |-> OnAll(machine, {})]
  /\ posted = [k \in DOMAIN calls |-> OnAll(machine, <<>>)]
  /\ memory = [t \in Tensors |-> [b \in NonZero(t) |->
                 [k \in DOMAIN Elements[t, b] |-> Given[t][Elements[t, b][k]]]]]
  /\ arrays = [a \in Arrays |-> IF a \in Names THEN Given[a] ELSE <<>>]
  /\ files = [f \in FileNames |-> <<>>]

\* The program has ended and is started again, on any machine; the files are there,
\* the tensors are allocated anew.
Restart ==
  LET k == at[0] IN
  /\ \A r \in Ranks : at[r] = k
  /\ k < PastEnd /\ calls[k].do = "restart"
  /\ machine' \in Machines
  /\ at' = OnAll(machine', k + 1)
  /\ phase' = OnAll(machine', 1)
  /\ pos' = OnAll(machine', 0)
  /\ buf' = OnAll(machine', <<>>)
  /\ local' = OnAll(machine', LocalAt(k + 1))
  /\ next' = OnAll(machine', Always)
  /\ result' = OnAll(machine', Nothing)
  /\ own' = OnAll(machine', Table([n \in LocalNames |-> LT!LocalTensor(<<0>>)]))
  /\ joined' = [j \in DOMAIN calls |-> OnAll(machine', {})]
  /\ posted' = [j \in DOMAIN calls |-> OnAll(machine', <<>>)]
  /\ memory' = NewMemory
  /\ arrays' = [a \in Arrays |-> <<>>]
  /\ UNCHANGED <<program, files>>

RankStep(r) == PassBy(r) \/ DoPhase(r) \/ Return(r)

Done == \A r \in Ranks : at[r] = PastEnd

Next ==
  \/ \E r \in Ranks : RankStep(r)
  \/ Restart
  \/ Done /\ UNCHANGED vars

\* As long as a rank can go on, some rank does, and a program that has ended is
\* started again.
Fairness == WF_vars((\E r \in Ranks : RankStep(r)) \/ Restart)

Spec == Init /\ [][Next]_vars /\ Fairness

-----------------------------------------------------------------------------
(* Properties                                                              *)

\* The element of a tensor or of a dense array at x.
ElementOf(t, x) ==
  LET w == Where[t, x]
  IN  IF IsDense(t) THEN At(t, x)
      ELSE IF w.block \in NonZero(t) THEN memory[t][w.block][w.pos] ELSE 0

\* Every rank's local tensors are of the sizes they should be of, and hold what has
\* been set.
OwnAsMeant(r, meant) ==
  \A n \in LocalNames : meant[n].dims # <<>> =>
    /\ own[r][n].dims = meant[n].dims
    /\ \A x \in DOMAIN meant[n].values : LT!get(own[r][n], x) = meant[n].values[x]

\* Whenever all ranks have come to the same call and none has begun it, every
\* tensor and array holds what the calls up to it mean, however the blocks were
\* shared, whoever made and wrote the files, and on whatever machine the program
\* was started again.
AsIfSequential ==
  (\A r \in Ranks : at[r] = at[0] /\ phase[r] = 1 /\ pos[r] = 0 /\ buf[r] = <<>>) /\ at[0] > 1 =>
    LET meant == Meaning[program, at[0] - 1].tensor
    IN  /\ \A t \in Held : meant[t] # Unknown =>
             \A x \in DOMAIN meant[t] : ElementOf(t, x) = meant[t][x]
        /\ \A r \in Ranks : OwnAsMeant(r, Meaning[program, at[0] - 1].own)

\* What a call returns to a rank is what it means for the tensor as the calls
\* before have left it, the same on all ranks where it is to be.
ReturnsMeaning ==
  \A r \in Ranks : at[r] > 1 => result[r][2] \in Results[program, at[r] - 1]

\* Every rank gets through its program: no collective call waits for a rank that
\* takes no part in it, and no group for a ticket that is not drawn.
AllReturn == <>Done
=============================================================================
