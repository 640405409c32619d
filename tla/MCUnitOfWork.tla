---------------------------- MODULE MCUnitOfWork ----------------------------
(* Symmetry of the model values that instantiate UnitOfWork.               *)
EXTENDS UnitOfWork, TLC

UnitSymmetry == Permutations(Txs) \cup Permutations(Writes)

=============================================================================
