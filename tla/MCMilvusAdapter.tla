--------------------------- MODULE MCMilvusAdapter ---------------------------
EXTENDS MilvusAdapter, TLC

\* What an idle thread, or a step that has nothing to carry, still holds of an
\* earlier call is never read again.
Carrying == {"build", "keepHas", "keepShape"}

MCView ==
  << client_vars, backend, caches, todo, left, calls,
     [t \in Threads |-> IF todo[t] = <<>> THEN None ELSE <<key[t], since[t]>>],
     [t \in Threads |-> IF \E step \in Carrying : At(t, step) THEN got[t]
                        ELSE None] >>

MCSymmetry == Permutations(Threads) \cup Permutations(Shapes)
=============================================================================
