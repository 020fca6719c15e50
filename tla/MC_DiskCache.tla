---------------------------- MODULE MC_DiskCache ----------------------------
(***************************************************************************)
(* Instances of DiskCache for TLC.  Under pressure the budget is two       *)
(* bytes: a and b (one byte each) fit together, c (two) only alone and d   *)
(* (three) never, so a put evicts nothing, one blob or two, or is refused, *)
(* and a directory left by an earlier run may be over the budget.          *)
(***************************************************************************)
EXTENDS DiskCache

CONSTANTS a, b, c, d

SmallSizes == [h \in Blob |-> CASE h = a -> 1 [] h = b -> 1 [] h = c -> 2 [] h = d -> 3]

\* a and b are of one size, so that they may change places too.
Symmetry == Permutations(Task) \cup Permutations(Scratch) \cup Permutations({a, b})
=============================================================================
