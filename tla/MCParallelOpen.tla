--------------------------- MODULE MCParallelOpen ---------------------------
(* Jobs of one to five ranks that open containers of one to five hostdirs, *)
(* of which some are empty and some hold several droppings.                *)
EXTENDS ParallelOpen

CONSTANTS Sizes, Hints

MCContainers ==
  { [hostdirs |-> {3}, droppings |-> {<<3, 0>>, <<3, 1>>, <<3, 2>>}],
    [hostdirs |-> {1, 4}, droppings |-> {<<1, 0>>, <<1, 1>>, <<4, 0>>}],
    [hostdirs |-> {1, 2, 4}, droppings |-> {<<1, 0>>, <<4, 1>>, <<4, 2>>}],
    [hostdirs |-> {1, 2, 3, 5, 6}, droppings |-> {<<1, 0>>, <<2, 1>>, <<5, 0>>, <<5, 1>>, <<6, 2>>}] }

(* Five ranks only where three or two of them share a hostdir, with a pool *)
(* of threads.                                                             *)
MCJobs ==
  {j \in [np : Sizes, container : MCContainers, hint : Hints, pooled : BOOLEAN] :
     j.np = 5 => /\ j.hint = "paropen" /\ j.pooled
                 /\ Cardinality(j.container.hostdirs) = 2}
=============================================================================
