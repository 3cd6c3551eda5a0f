--------------------------- MODULE MCDogfoodBatch ---------------------------
(* Instances of DogfoodBatch; threads of one kind are interchangeable.                  *)
EXTENDS DogfoodBatch, TLC

Symmetry == Permutations(KickThread)

=============================================================================
