---------------------------- MODULE TensorViews -----------------------------
(***************************************************************************)
(* Unit-tiled views: a TensorUnitTiled reads another tensor's elements,    *)
(* through the region of that tensor, whose address it keeps in an mpb_ of *)
(* its own.  A view keeps a handle of its base, so the base is not let go  *)
(* before the view; but it may be deallocated.                             *)
(***************************************************************************)
EXTENDS TensorMemory

CONSTANT Views

VARIABLES base,      \* the tensor a view is of
          vstatus,   \* allocation_status_ of each view; "none" before its constructor
          vmpb       \* on each rank, mpb_ of each view

viewVars == <<base, vstatus, vmpb>>

ViewInit ==
  /\ Init
  /\ base = [v \in Views |-> nullptr]
  /\ vstatus = [v \in Views |-> "none"]
  /\ vmpb = [r \in Ranks |-> [v \in Views |-> nullptr]]

\* A view made of an allocated tensor is allocated by its constructor: it takes
\* the address of the tensor's region, which it does not register.
MakeView(v, t) ==
  /\ InProgram /\ vstatus[v] = "none" /\ status[t] = "created" /\ t \notin Dense
  /\ base' = [base EXCEPT ![v] = t]
  /\ vstatus' = [vstatus EXCEPT ![v] = "created"]
  /\ vmpb' = [r \in Ranks |-> [vmpb[r] EXCEPT ![v] = mpb[r][t]]]
  /\ UNCHANGED vars

\* The last handle of the view goes.  ~TensorUnitTiled is the default one, so
\* ~TensorImpl marks what vmpb points to as orphaned.  Where that region has been
\* deleted, the write is undefined: it is lost, or hits the region there now.
DropView(v) ==
  /\ InProgram /\ vstatus[v] = "created"
  /\ region' = [r \in Ranks |->
                  [region[r] EXCEPT ![vmpb[r][v]] = IF @ = "none" THEN @ ELSE "orphaned"]]
  /\ vstatus' = [vstatus EXCEPT ![v] = "gone"]
  /\ vmpb' = [r \in Ranks |-> [vmpb[r] EXCEPT ![v] = nullptr]]
  /\ UNCHANGED <<base, status, mpb, owner, memory, context>>

TensorStep ==
  /\ Next
  /\ \A v \in Views : vstatus[v] = "created" => status'[base[v]] # "gone"
  /\ UNCHANGED viewVars

ViewNext == TensorStep \/ \E v \in Views : DropView(v) \/ \E t \in Tensors : MakeView(v, t)

ViewSpec == ViewInit /\ [][ViewNext]_<<vars, viewVars>>
=============================================================================
