------------------------------- MODULE MCMem -------------------------------
(* One page of program, two pages of mappings above it and one past the end; *)
(* a page of the kernel's half, and each address twice.                      *)
EXTENDS NarcMem, TLC

MCProgram == [u \in {0} |-> 1]
TaskSymmetry == Permutations(Task)

\* The state up to the names of pages, as long as each has one holder.
PageState ==
    <<[t \in Task |-> [k \in DOMAIN space[t] |->
          <<mem[space[t][k]], space[t][k] \in stale, space[t][k] = cr3>>]],
      Cardinality(free), Cardinality(kernel), Cardinality(free \cap stale),
      Cardinality(kernel \cap stale), mmap_next, current, blocked, PagesHeldOnce>>
=============================================================================
