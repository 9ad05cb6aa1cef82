-------------------------- MODULE MCGenerationCommit --------------------------
(* Symmetry for the runs of GenerationCommit that check safety only: neither *)
(* the requests in the object nor the proposed generations are told apart.   *)
EXTENDS GenerationCommit, TLC

Symmetry == Permutations(Workers) \cup Permutations(Commanders)
                                  \cup Permutations(Generations)
=============================================================================
