-------------------------------- MODULE Heap --------------------------------
(***************************************************************************)
(* What users of a memory pool rely on: a buffer has addresses of its own  *)
(* until it is given back, and a request is refused only when no run of    *)
(* free addresses is long enough.                                          *)
(***************************************************************************)
EXTENDS Naturals

CONSTANTS
  Buffers,    \* who asks for memory
  Requests,   \* the lengths asked for
  Space       \* the addresses

VARIABLES
  owned,      \* owned[x]: the addresses of x
  refused     \* a request could not be met

Run(p, n) == p .. p + n - 1
Used == UNION {owned[x] : x \in Buffers}
IsHole(p, n) == Run(p, n) \subseteq Space \ Used

HeapInit == owned = [x \in Buffers |-> {}] /\ refused = FALSE

Take(x) == \E n \in Requests, p \in Space :
  /\ owned[x] = {} /\ ~refused /\ IsHole(p, n)
  /\ owned' = [owned EXCEPT ![x] = Run(p, n)]
  /\ UNCHANGED refused

Give(x) == owned' = [owned EXCEPT ![x] = {}] /\ ~refused /\ UNCHANGED refused

Refuse == \E n \in Requests :
  /\ \A p \in Space : ~IsHole(p, n)
  /\ refused' = TRUE /\ UNCHANGED owned

HeapNext == Refuse \/ \E x \in Buffers : Take(x) \/ Give(x)

HeapSpec == HeapInit /\ [][HeapNext]_<<owned, refused>>
=============================================================================
