----------------------------- MODULE MCNetwork -----------------------------
(***************************************************************************)
(* Three nodes, in two situations.  Late: k runs beside the bootstrap node *)
(* b, and j joins with an empty chain while new blocks are created.        *)
(* Together: j and k join at the same time, with nothing to fetch, so that *)
(* they dial each other.                                                   *)
(***************************************************************************)
EXTENDS Network

CONSTANTS b, j, k

Late == [joined |-> {b, k}, last |-> (b :> 3) @@ (k :> 3) @@ (j :> 2),
         fragile |-> {<<j, k>>}]
Together == [joined |-> {b}, last |-> [n \in {b, j, k} |-> MaxHeight],
             fragile |-> {<<j, b>>}]
MCSituation == {Late, Together}
\* Late, and no connection breaks.
Calm == {[Late EXCEPT !.fragile = {}]}

MCSigner == [i \in 1..MaxHeight |-> k]
============================================================================
